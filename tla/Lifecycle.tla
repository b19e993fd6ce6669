----------------------------- MODULE Lifecycle -----------------------------
(***************************************************************************)
(* The contexts of src/DatabaseContext.cc as objects: who creates them, in *)
(* which order a pointer is tested, assigned and reset, and which threads  *)
(* are inside an object when it goes away.  Every client may make any call *)
(* at any time, as long as it is Orderly and its pointer Fresh: four rules *)
(* that every program of the tree but one keeps (main.cc with a trace of   *)
(* low speed, see Driver), and that the code itself does not enforce.      *)
(*                                                                         *)
(* The calls of database.hh fetch the pointer each time; wait() and        *)
(* getPrediction() are called on the pointer that a client keeps from its  *)
(* own GetDatabaseContext(), whatever has become of the object since.      *)
(*                                                                         *)
(* A request is what it asks for; wait_mutex is folded into the steps that *)
(* hold it, which DatabaseContext has in detail.                           *)
(*                                                                         *)
(* A definition whose comment starts with "Bug:" is no part of the model:  *)
(* it is a mutated form of the definition after it.                        *)
(***************************************************************************)
EXTENDS Naturals, Sequences, FiniteSets

CONSTANTS
    Clients,        \* the threads that use the database
    MaxContexts,    \* bound on the contexts created
    MaxQueue        \* bound on the length of a queue

ASSUME LifecycleAssumption == {MaxContexts, MaxQueue} \subseteq Nat

VARIABLES
    pDBContext,     \* the static pointer, 0 for NULL
    heap,           \* the contexts, in the order of their creation
    pc,             \* per client: where it is, "idle" outside every call
    op,             \* per client: the call it is in
    at,             \* per client: the object it works on
    pdbc,           \* per client: the pointer it keeps, 0 for none
    fresh,          \* history: who took its pdbc after the last call of delete
    last            \* history: the last call on an object that was completed

vars == <<pDBContext, heap, pc, op, at, pdbc, fresh, last>>

\* "open" is GetDatabaseContext() in a client's own code.
Calls == {"open", "upload", "initialize", "predict", "wait", "delete"}

Init ==
    /\ pDBContext = 0
    /\ heap = <<>>
    /\ pc = [c \in Clients |-> "idle"]
    /\ op = [c \in Clients |-> "wait"]
    /\ at = [c \in Clients |-> 0]
    /\ pdbc = [c \in Clients |-> 0]
    /\ fresh = {}
    /\ last = "delete"

Goto(c, from, to) == pc[c] = from /\ pc' = [pc EXCEPT ![c] = to]
Leave(c, from) == Goto(c, from, "idle") /\ last' = op[c]
-----------------------------------------------------------------------------
(* The rules: nobody else is inside a call                                 *)
(*   - when the context is created,                                        *)
(*   - when a carrier is initialized, and that is before the first upload  *)
(*     or right after a wait(),                                            *)
(*   - when the context is deleted, and that is right after a wait() and   *)
(*     not before the first upload.                                        *)
(* The fourth: nobody calls through a pointer that it took before the last *)
(* delete, as main.cc takes a new one at the start of every evaluation.    *)

Exclusive(call) == pDBContext = 0 \/ call \in {"initialize", "delete"}

Uploaded == pDBContext # 0 /\ heap[pDBContext].used

Orderly(c, call) ==
    /\ Exclusive(call) => \A d \in Clients : pc[d] = "idle"
    /\ \A d \in Clients : pc[d] # "idle" => op[d] \notin {"initialize", "delete"}
    /\ call = "initialize" /\ Uploaded => last = "wait"
    /\ call = "delete" /\ pDBContext # 0 => Uploaded /\ last = "wait"

Fresh(c) == c \in fresh

\* A call of database.hh, or of one of the static functions.
Begin(c, call) ==
    /\ call # "wait"
    /\ Orderly(c, call)
    /\ Goto(c, "idle", IF call = "delete" THEN "test-delete" ELSE "test")
    /\ op' = [op EXCEPT ![c] = call]
    /\ fresh' = IF call = "delete" THEN {} ELSE fresh
    /\ UNCHANGED <<pDBContext, heap, at, pdbc, last>>

\* Bug: the pointer is taken once for all evaluations, in main().
BeginOnHandleOfMain(c, call) ==
    /\ call \in {"wait", "predict"}
    /\ Orderly(c, call)
    /\ pdbc[c] # 0
    /\ Goto(c, "idle", "enter")
    /\ op' = [op EXCEPT ![c] = call]
    /\ at' = [at EXCEPT ![c] = pdbc[c]]
    /\ UNCHANGED <<pDBContext, heap, pdbc, fresh, last>>

\* pdbc->wait(), pdbc->getPrediction().
BeginOnHandle(c, call) ==
    /\ call \in {"wait", "predict"}
    /\ Orderly(c, call)
    /\ Fresh(c)
    /\ Goto(c, "idle", "enter")
    /\ op' = [op EXCEPT ![c] = call]
    /\ at' = [at EXCEPT ![c] = pdbc[c]]
    /\ UNCHANGED <<pDBContext, heap, pdbc, fresh, last>>
-----------------------------------------------------------------------------
(* GetDatabaseContext, by itself or in front of a call.                    *)

Test(c) ==
    /\ Goto(c, "test", IF pDBContext = 0 THEN "new" ELSE "return")
    /\ UNCHANGED <<pDBContext, heap, op, at, last, pdbc, fresh>>

\* new, with the constructor, which starts the thread.
New(c) ==
    /\ Len(heap) < MaxContexts
    /\ Goto(c, "new", "assign")
    /\ heap' = Append(heap, [freed |-> FALSE, used |-> FALSE, loop |-> "start", queue |-> <<>>])
    /\ at' = [at EXCEPT ![c] = Len(heap) + 1]
    /\ UNCHANGED <<pDBContext, op, last, pdbc, fresh>>

\* Bug: the new object is assigned to a copy of the pointer, and returned.
AssignToCopy(c) ==
    /\ Goto(c, "assign", "enter")
    /\ UNCHANGED <<pDBContext, heap, op, at, last, pdbc, fresh>>

Assign(c) ==
    /\ Goto(c, "assign", "return")
    /\ pDBContext' = at[c]
    /\ UNCHANGED <<heap, op, at, last, pdbc, fresh>>

\* The pointer is read again; an "open" keeps what it gets.
Return(c) ==
    /\ at' = [at EXCEPT ![c] = pDBContext]
    /\ \/ op[c] # "open" /\ Goto(c, "return", "enter") /\ UNCHANGED <<pdbc, fresh>>
       \/ /\ op[c] = "open" /\ Goto(c, "return", "idle")
          /\ pdbc' = [pdbc EXCEPT ![c] = pDBContext]
          /\ fresh' = fresh \cup {c}
    /\ UNCHANGED <<pDBContext, heap, op, last>>
-----------------------------------------------------------------------------
(* The calls on an object.                                                 *)

Upload(c) ==
    /\ op[c] = "upload"
    /\ Leave(c, "enter")
    /\ Len(heap[at[c]].queue) < MaxQueue
    /\ heap' = [heap EXCEPT ![at[c]].queue = Append(@, "update"), ![at[c]].used = TRUE]
    /\ UNCHANGED <<pDBContext, op, at, pdbc, fresh>>

\* Bug: the request that is being processed is not waited for.
WaitForQueued(c) ==
    /\ op[c] = "wait"
    /\ Leave(c, "enter")
    /\ Len(heap[at[c]].queue) <= 1
    /\ UNCHANGED <<pDBContext, heap, op, at, pdbc, fresh>>

Wait(c) ==
    /\ op[c] = "wait"
    /\ Leave(c, "enter")
    /\ heap[at[c]].queue = <<>>
    /\ UNCHANGED <<pDBContext, heap, op, at, pdbc, fresh>>

\* emplace inserts into the map of carriers, getPrediction searches it: both
\* take a while.
EnterMap(c) ==
    /\ op[c] \in {"initialize", "predict"}
    /\ Goto(c, "enter", "inside")
    /\ UNCHANGED <<pDBContext, heap, op, at, last, pdbc, fresh>>

LeaveMap(c) ==
    /\ Leave(c, "inside")
    /\ UNCHANGED <<pDBContext, heap, op, at, pdbc, fresh>>
-----------------------------------------------------------------------------
(* DeleteDatabaseContext and the destructor.                               *)

\* Bug: the pointer is not tested.
TestDeleteNot(c) ==
    /\ Goto(c, "test-delete", "stop")
    /\ at' = [at EXCEPT ![c] = pDBContext]
    /\ UNCHANGED <<pDBContext, heap, op, last, pdbc, fresh>>

TestDelete(c) ==
    /\ \/ pDBContext # 0 /\ Goto(c, "test-delete", "stop") /\ UNCHANGED last
       \/ pDBContext = 0 /\ Leave(c, "test-delete")
    /\ at' = [at EXCEPT ![c] = pDBContext]
    /\ UNCHANGED <<pDBContext, heap, op, pdbc, fresh>>

Stop(c) ==
    /\ Goto(c, "stop", "join")
    /\ heap' = [heap EXCEPT ![at[c]].queue = Append(@, "stop")]
    /\ UNCHANGED <<pDBContext, op, at, last, pdbc, fresh>>

\* run_lock is free unless mainLoop runs.
RunLockFree(k) == heap[k].loop \in {"start", "ended"}

Join(c) ==
    /\ Goto(c, "join", "reset")
    /\ RunLockFree(at[c])
    /\ heap' = [heap EXCEPT ![at[c]].freed = TRUE]
    /\ UNCHANGED <<pDBContext, op, at, last, pdbc, fresh>>

\* Bug: pdbc is a copy of the pointer, not a reference to it.
ResetCopy(c) ==
    /\ Leave(c, "reset")
    /\ UNCHANGED <<pDBContext, heap, op, at, pdbc, fresh>>

Reset(c) ==
    /\ Leave(c, "reset")
    /\ pDBContext' = 0
    /\ UNCHANGED <<heap, op, at, pdbc, fresh>>
-----------------------------------------------------------------------------
(* The thread of context k.                                                *)

Loop(k, from, to, queue) ==
    /\ heap[k].loop = from
    /\ heap' = [heap EXCEPT ![k].loop = to, ![k].queue = queue]
    /\ UNCHANGED <<pDBContext, pc, op, at, last, pdbc, fresh>>

LoopStart(k) == Loop(k, "start", "top", heap[k].queue)

\* From here on a GPS request walks through the map of carriers.
LoopTop(k) ==
    /\ heap[k].loop = "top" /\ heap[k].queue # <<>>
    /\ Loop(k, "top", IF Head(heap[k].queue) = "stop" THEN "stopping" ELSE "walking",
            heap[k].queue)

LoopPop(k) ==
    \/ Loop(k, "walking", "notify", Tail(heap[k].queue))
    \/ Loop(k, "stopping", "leave", Tail(heap[k].queue))

\* The job id, wait_mutex and wait_cond; after a STOP the end of mainLoop.
LoopNotify(k) ==
    \/ Loop(k, "notify", "top", heap[k].queue)
    \/ Loop(k, "leave", "ended", heap[k].queue)
-----------------------------------------------------------------------------
ClientNext(c) ==
    \/ \E call \in Calls : Begin(c, call) \/ BeginOnHandle(c, call)
    \/ Test(c) \/ New(c) \/ Assign(c) \/ Return(c)
    \/ Upload(c) \/ Wait(c) \/ EnterMap(c) \/ LeaveMap(c)
    \/ TestDelete(c) \/ Stop(c) \/ Join(c) \/ Reset(c)

LoopNext(k) == LoopStart(k) \/ LoopTop(k) \/ LoopPop(k) \/ LoopNotify(k)

Next == (\E c \in Clients : ClientNext(c)) \/ (\E k \in DOMAIN heap : LoopNext(k))

Spec == Init /\ [][Next]_vars
-----------------------------------------------------------------------------
Live == {k \in DOMAIN heap : ~heap[k].freed}
Touching(k) == {c \in Clients : at[c] = k /\ pc[c] \in {"enter", "inside", "stop", "join"}}
Walking(k) == {c \in Touching(k) : pc[c] = "inside"}

\* DatabaseContext.hh:11, "Only one DatabaseContext object can exist in the
\* whole program": in an orderly program, also after a delete, and whichever
\* client's call happens to create the next context.
OneContext == Cardinality(Live) <= 1

\* Nobody works on a context that has been freed: no client inside a call of
\* database.hh, none that calls through the pointer it keeps, and no mainLoop
\* whose context was deleted under it.  A pointer that its client took after the
\* last delete is the living context, and every other pointer is not used.
NoUseAfterFree ==
    \A k \in DOMAIN heap : heap[k].freed => heap[k].loop = "ended" /\ Touching(k) = {}

\* Nobody inserts into the map of carriers while another thread searches it or
\* walks through it, although the map has no lock.
NoMapRace ==
    \A k \in DOMAIN heap : \A c \in Walking(k) :
        op[c] = "initialize" => Walking(k) = {c} /\ heap[k].loop # "walking"

\* The variables stay in their types, and no call works on a null pointer.
TypeOK ==
    /\ pDBContext \in 0 .. Len(heap)
    /\ heap \in Seq([freed : BOOLEAN, used : BOOLEAN, queue : Seq({"update", "stop"}),
                     loop : {"start", "top", "walking", "stopping", "notify", "leave", "ended"}])
    /\ pc \in [Clients -> {"idle", "test", "new", "assign", "return", "enter", "inside",
                           "test-delete", "stop", "join", "reset"}]
    /\ op \in [Clients -> Calls]
    /\ at \in [Clients -> 0 .. Len(heap)]
    /\ pdbc \in [Clients -> 0 .. Len(heap)]
    /\ fresh \subseteq Clients
    /\ last \in Calls
    /\ \A c \in Clients : pc[c] \in {"enter", "inside", "stop", "join"} => at[c] # 0
=============================================================================
