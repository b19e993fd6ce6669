-------------------------- MODULE LifecycleProofs --------------------------
(***************************************************************************)
(* Proofs about Lifecycle, for any number of clients and contexts.  The    *)
(* invariant says who may be inside which call at the same time, that the  *)
(* pointer names the newest context unless a client is creating or         *)
(* resetting it, that a handle taken since the last delete is that pointer,*)
(* that all older contexts are freed and their threads over, and what the  *)
(* queue of the living one holds while it is deleted or a carrier is       *)
(* initialized.                                                            *)
(***************************************************************************)
EXTENDS Lifecycle, SequenceTheorems, FiniteSetTheorems, TLAPS

Context == [freed : BOOLEAN, used : BOOLEAN, queue : Seq({"update", "stop"}),
            loop : {"start", "top", "walking", "stopping", "notify", "leave", "ended"}]

Somewhere(places) == \E c \in Clients : pc[c] \in places
Busy(call) == \E c \in Clients : pc[c] # "idle" /\ op[c] = call

\* Who may be inside a call: one client alone while there is no context, or if
\* it initializes or deletes.
TurnInv ==
    /\ \A c, d \in Clients :
          /\ pc[c] # "idle" /\ pc[d] # "idle"
          /\ pDBContext = 0 \/ op[c] \in {"initialize", "delete"}
          => c = d
    /\ \A c \in Clients :
          /\ pc[c] \in {"test-delete", "stop", "join", "reset"} => op[c] = "delete"
          /\ pc[c] \in {"test", "new", "assign", "return", "enter", "inside"} => op[c] # "delete"
          /\ pc[c] = "inside" => op[c] \in {"initialize", "predict"}

\* What the pointer is, and what the clients have read of it.
PointerInv ==
    /\ pDBContext # 0 => pDBContext = Len(heap)
    /\ \A c \in Clients :
          /\ pc[c] \in {"new", "assign"} => pDBContext = 0
          /\ pc[c] = "assign" => at[c] = Len(heap) /\ at[c] # 0
          /\ pc[c] = "return" => pDBContext # 0
          /\ pc[c] \in {"enter", "inside", "stop", "join", "reset"} =>
                pDBContext # 0 /\ at[c] = pDBContext

\* A pointer taken after the last delete is the current one, and while a client
\* deletes nobody has one.
HandleInv ==
    /\ \A c \in fresh : pDBContext # 0 /\ pdbc[c] = pDBContext
    /\ Busy("delete") => fresh = {}

\* Only the newest context lives, from its creation to its destructor's end.
HeapInv ==
    \A k \in 1..Len(heap) :
        /\ heap[k].freed => heap[k].loop = "ended"
        /\ ~heap[k].freed <=> /\ k = Len(heap)
                              /\ \/ pDBContext # 0 /\ ~Somewhere({"reset"})
                                 \/ Somewhere({"assign"})

\* What the living context has in its queue, and where its thread is.
QueueInv ==
    \A k \in 1..Len(heap) : ~heap[k].freed =>
        /\ ~heap[k].used => heap[k].queue = <<>>
        /\ Somewhere({"assign"}) => ~heap[k].used
        /\ heap[k].loop = "start" /\ heap[k].used => heap[k].queue # <<>>
        /\ heap[k].loop = "walking" => heap[k].queue # <<>>
        /\ IF Somewhere({"join"})
           THEN \/ heap[k].queue = <<"stop">> /\ heap[k].loop \in {"top", "notify", "stopping"}
                \/ heap[k].queue = <<>> /\ heap[k].loop \in {"leave", "ended"}
           ELSE /\ heap[k].loop \notin {"stopping", "leave", "ended"}
                /\ \A i \in 1..Len(heap[k].queue) : heap[k].queue[i] = "update"
                /\ heap[k].used /\ last = "wait" => heap[k].queue = <<>>
        /\ Somewhere({"test-delete", "stop"}) => heap[k].used /\ heap[k].queue = <<>>
        /\ Busy("initialize") => heap[k].queue = <<>>

IInv == TypeOK /\ TurnInv /\ PointerInv /\ HandleInv /\ HeapInv /\ QueueInv

-----------------------------------------------------------------------------
\* The steps, by their actor.
LEMMA StepCases ==
  ASSUME [Next]_vars
  PROVE  \/ \E c \in Clients : \/ \E call \in Calls : Begin(c, call) \/ BeginOnHandle(c, call)
                              \/ Test(c) \/ Assign(c) \/ Return(c) \/ Wait(c)
                              \/ EnterMap(c) \/ LeaveMap(c) \/ TestDelete(c) \/ Reset(c)
                              \/ New(c) \/ Upload(c) \/ Stop(c) \/ Join(c)
         \/ \E k \in 1..Len(heap) : LoopNext(k)
         \/ UNCHANGED vars
  BY DEF Next, ClientNext

\* The heap is a sequence of contexts.
LEMMA HeapIs ==
  ASSUME TypeOK
  PROVE  /\ heap \in Seq(Context) /\ Len(heap) \in Nat
         /\ \A k \in 1..Len(heap) : heap[k] \in Context
<1>1. heap \in Seq(Context)
  BY DEF TypeOK, Context
<1> QED
  BY <1>1, LenProperties, ElementOfSeq

\* A step that changes one context leaves the others alone.
LEMMA HeapUpdate ==
  ASSUME TypeOK, NEW k \in 1..Len(heap), NEW o \in Context,
         heap' = [heap EXCEPT ![k] = o]
  PROVE  /\ heap' \in Seq(Context) /\ Len(heap') = Len(heap) /\ heap'[k] = o
         /\ \A j \in 1..Len(heap) : j # k => heap'[j] = heap[j]
  BY HeapIs, ExceptSeq

\* A step of a context's thread moves its loop and takes at most the head out of
\* its queue.
LEMMA LoopMoves ==
  ASSUME TypeOK, HeapInv, QueueInv, NEW k \in 1..Len(heap), LoopNext(k)
  PROVE  /\ ~heap[k].freed
         /\ UNCHANGED <<pDBContext, pc, op, at, pdbc, fresh, last>>
         /\ heap' \in Seq(Context) /\ Len(heap') = Len(heap)
         /\ heap'[k].freed = heap[k].freed /\ heap'[k].used = heap[k].used
         /\ \A j \in 1..Len(heap) : j # k => heap'[j] = heap[j]
         /\ \/ /\ heap[k].loop = "start" /\ heap'[k].loop = "top"
               /\ heap'[k].queue = heap[k].queue
            \/ /\ heap[k].loop = "top" /\ heap[k].queue # <<>>
               /\ heap'[k].loop = IF Head(heap[k].queue) = "stop" THEN "stopping" ELSE "walking"
               /\ heap'[k].queue = heap[k].queue
            \/ /\ heap[k].queue # <<>> /\ heap'[k].queue = Tail(heap[k].queue)
               /\ \/ heap[k].loop = "walking" /\ heap'[k].loop = "notify"
                  \/ heap[k].loop = "stopping" /\ heap'[k].loop = "leave"
            \/ /\ heap[k].loop = "notify" /\ heap'[k].loop = "top"
               /\ heap'[k].queue = heap[k].queue
            \/ /\ heap[k].loop = "leave" /\ heap'[k].loop = "ended"
               /\ heap'[k].queue = heap[k].queue
<1>1. heap[k] \in Context
  BY HeapIs
<1>2. heap[k].loop # "ended" /\ UNCHANGED <<pDBContext, pc, op, at, pdbc, fresh, last>>
  BY DEF LoopNext, LoopStart, LoopTop, LoopPop, LoopNotify, Loop
<1>3. ~heap[k].freed
  BY <1>2 DEF HeapInv
<1>4. heap[k].loop \in {"walking", "stopping"} => heap[k].queue # <<>>
  BY <1>3, EmptySeq DEF QueueInv
<1> DEFINE loops == {"start", "top", "walking", "stopping", "notify", "leave", "ended"}
<1>5. ASSUME NEW from, NEW to \in loops, NEW queue \in Seq({"update", "stop"}),
             Loop(k, from, to, queue)
      PROVE  /\ heap[k].loop = from
             /\ heap' \in Seq(Context) /\ Len(heap') = Len(heap)
             /\ heap'[k].freed = heap[k].freed /\ heap'[k].used = heap[k].used
             /\ heap'[k].loop = to /\ heap'[k].queue = queue
             /\ \A j \in 1..Len(heap) : j # k => heap'[j] = heap[j]
  <2> DEFINE o == [heap[k] EXCEPT !.loop = to, !.queue = queue]
  <2>1. /\ o \in Context /\ o.freed = heap[k].freed /\ o.used = heap[k].used
        /\ o.loop = to /\ o.queue = queue
    BY <1>1 DEF Context
  <2>2. heap' = [heap EXCEPT ![k] = o] /\ heap[k].loop = from
    BY <1>5 DEF Loop
  <2> HIDE DEF o
  <2> QED
    BY <2>1, <2>2, HeapUpdate
<1>6. /\ heap[k].queue \in Seq({"update", "stop"})
      /\ heap[k].queue # <<>> => Tail(heap[k].queue) \in Seq({"update", "stop"})
  BY <1>1, HeadTailProperties DEF Context
<1>7. CASE LoopStart(k)
  BY <1>2, <1>3, <1>5, <1>6, <1>7, ZenonT(40) DEF LoopStart
<1>8. CASE LoopTop(k)
  BY <1>2, <1>3, <1>5, <1>6, <1>8 DEF LoopTop
<1>9. CASE LoopPop(k)
  <2>1. heap[k].loop \in {"walking", "stopping"}
    BY <1>9 DEF LoopPop, Loop
  <2> QED
    BY <1>2, <1>3, <1>4, <1>5, <1>6, <1>9, <2>1 DEF LoopPop
<1>10. CASE LoopNotify(k)
  BY <1>2, <1>3, <1>5, <1>6, <1>10, ZenonT(40) DEF LoopNotify
<1> QED
  BY <1>7, <1>8, <1>9, <1>10 DEF LoopNext

\* What Upload, Stop and Join make of the context.
LEMMA ClientMoves ==
  ASSUME TypeOK, PointerInv, NEW c \in Clients, Upload(c) \/ Stop(c) \/ Join(c)
  PROVE  /\ Len(heap) \in 1..Len(heap) /\ at[c] = Len(heap) /\ pDBContext = Len(heap)
         /\ heap' \in Seq(Context) /\ Len(heap') = Len(heap)
         /\ \A j \in 1..Len(heap) : j # Len(heap) => heap'[j] = heap[j]
         /\ heap'[Len(heap)].loop = heap[Len(heap)].loop
         /\ \/ /\ Upload(c)
               /\ heap'[Len(heap)].freed = heap[Len(heap)].freed
               /\ heap'[Len(heap)].used = TRUE
               /\ heap'[Len(heap)].queue = Append(heap[Len(heap)].queue, "update")
            \/ /\ Stop(c)
               /\ heap'[Len(heap)].freed = heap[Len(heap)].freed
               /\ heap'[Len(heap)].used = heap[Len(heap)].used
               /\ heap'[Len(heap)].queue = Append(heap[Len(heap)].queue, "stop")
            \/ /\ Join(c)
               /\ heap'[Len(heap)].freed = TRUE
               /\ heap'[Len(heap)].used = heap[Len(heap)].used
               /\ heap'[Len(heap)].queue = heap[Len(heap)].queue
<1> DEFINE k == Len(heap)
<1>1. pc[c] \in {"enter", "stop", "join"}
  BY DEF Upload, Stop, Join, Leave, Goto
<1>2. at[c] = k /\ pDBContext = k /\ k \in 1..k
  BY <1>1, HeapIs DEF PointerInv
<1>3. heap[k] \in Context
  BY <1>2, HeapIs
<1> HIDE DEF k
<1>4. \A x \in {"update", "stop"} : Append(heap[k].queue, x) \in Seq({"update", "stop"})
  BY <1>3, AppendProperties DEF Context
<1>5. CASE Upload(c)
  <2> DEFINE o == [heap[k] EXCEPT !.queue = Append(heap[k].queue, "update"), !.used = TRUE]
  <2>1. /\ o \in Context /\ o.freed = heap[k].freed /\ o.loop = heap[k].loop
        /\ o.used = TRUE /\ o.queue = Append(heap[k].queue, "update")
    BY <1>3, <1>4 DEF Context
  <2>2. heap' = [heap EXCEPT ![k] = o]
    BY <1>2, <1>5 DEF Upload
  <2> HIDE DEF o
  <2> QED
    BY <1>2, <1>5, <2>1, <2>2, HeapUpdate DEF k
<1>6. CASE Stop(c)
  <2> DEFINE o == [heap[k] EXCEPT !.queue = Append(heap[k].queue, "stop")]
  <2>1. /\ o \in Context /\ o.freed = heap[k].freed /\ o.loop = heap[k].loop
        /\ o.used = heap[k].used /\ o.queue = Append(heap[k].queue, "stop")
    BY <1>3, <1>4 DEF Context
  <2>2. heap' = [heap EXCEPT ![k] = o]
    BY <1>2, <1>6 DEF Stop
  <2> HIDE DEF o
  <2> QED
    BY <1>2, <1>6, <2>1, <2>2, HeapUpdate DEF k
<1>7. CASE Join(c)
  <2> DEFINE o == [heap[k] EXCEPT !.freed = TRUE]
  <2>1. /\ o \in Context /\ o.freed = TRUE /\ o.loop = heap[k].loop
        /\ o.used = heap[k].used /\ o.queue = heap[k].queue
    BY <1>3 DEF Context
  <2>2. heap' = [heap EXCEPT ![k] = o]
    BY <1>2, <1>7 DEF Join
  <2> HIDE DEF o
  <2> QED
    BY <1>2, <1>7, <2>1, <2>2, HeapUpdate DEF k
<1> QED
  BY <1>5, <1>6, <1>7

\* A new context has no request yet and its thread has not started.
LEMMA NewMoves ==
  ASSUME TypeOK, NEW c \in Clients, New(c)
  PROVE  /\ heap' \in Seq(Context) /\ Len(heap') = Len(heap) + 1
         /\ \A j \in 1..Len(heap) : heap'[j] = heap[j]
         /\ heap'[Len(heap) + 1] = [freed |-> FALSE, used |-> FALSE, loop |-> "start",
                                    queue |-> <<>>]
<1>1. [freed |-> FALSE, used |-> FALSE, loop |-> "start", queue |-> <<>>] \in Context
  BY EmptySeq DEF Context
<1> QED
  BY <1>1, HeapIs, AppendProperties DEF New

\* Each step keeps the types.
LEMMA TypeStep ==
  ASSUME TypeOK, PointerInv, HandleInv, HeapInv, QueueInv, [Next]_vars
  PROVE  TypeOK'
<1> DEFINE Places == {"idle", "test", "new", "assign", "return", "enter", "inside",
                      "test-delete", "stop", "join", "reset"}
<1>0. /\ Len(heap) \in Nat /\ heap \in Seq(Context) /\ pDBContext \in 0..Len(heap)
      /\ pc \in [Clients -> Places] /\ op \in [Clients -> Calls]
      /\ at \in [Clients -> 0..Len(heap)] /\ last \in Calls
      /\ pdbc \in [Clients -> 0..Len(heap)] /\ fresh \subseteq Clients
  BY LenProperties DEF TypeOK, Context
<1>1. ASSUME NEW c \in Clients, NEW call \in Calls, Begin(c, call) PROVE TypeOK'
  BY <1>0, <1>1 DEF Begin, Goto, TypeOK, Context
<1>11. ASSUME NEW c \in Clients, NEW call \in Calls, BeginOnHandle(c, call) PROVE TypeOK'
  <2>1. pdbc[c] # 0 /\ pdbc[c] \in 0..Len(heap)
    BY <1>0, <1>11 DEF BeginOnHandle, Fresh, HandleInv
  <2>2. /\ UNCHANGED <<pDBContext, heap, pdbc, fresh, last>>
        /\ pc' = [pc EXCEPT ![c] = "enter"] /\ op' = [op EXCEPT ![c] = call]
        /\ at' = [at EXCEPT ![c] = pdbc[c]]
    BY <1>11 DEF BeginOnHandle, Goto
  <2>3. /\ pc' \in [Clients -> Places] /\ op' \in [Clients -> Calls]
        /\ at' \in [Clients -> 0..Len(heap)]
        /\ \A d \in Clients : \/ d = c /\ at'[d] = pdbc[c]
                              \/ pc'[d] = pc[d] /\ at'[d] = at[d]
    <3> DEFINE N == 0..Len(heap)
    <3>1. at \in [Clients -> N] /\ pdbc[c] \in N
      BY <1>0, <2>1
    <3> HIDE DEF N
    <3>2. /\ at' \in [Clients -> N]
          /\ \A d \in Clients : \/ d = c /\ at'[d] = pdbc[c]
                                \/ pc'[d] = pc[d] /\ at'[d] = at[d]
      BY <1>0, <2>2, <3>1
    <3>3. pc' \in [Clients -> Places] /\ op' \in [Clients -> Calls]
      BY <1>0, <2>2
    <3> QED
      BY <3>2, <3>3 DEF N
  <2> QED
    BY <1>0, <2>1, <2>2, <2>3 DEF TypeOK, Context
<1>2. ASSUME NEW c \in Clients, Test(c) \/ EnterMap(c) PROVE TypeOK'
  BY <1>0, <1>2 DEF Test, EnterMap, Goto, TypeOK, Context
<1>3. ASSUME NEW c \in Clients, Assign(c) \/ Reset(c) PROVE TypeOK'
  <2>1. /\ pDBContext' \in 0..Len(heap) /\ last' \in Calls
        /\ UNCHANGED <<heap, op, at, pdbc, fresh>>
        /\ pc' = [pc EXCEPT ![c] = "return"] \/ pc' = [pc EXCEPT ![c] = "idle"]
    BY <1>0, <1>3 DEF Assign, Reset, Leave, Goto
  <2>2. /\ pc' \in [Clients -> Places]
        /\ \A d \in Clients : pc'[d] \in {"enter", "inside", "stop", "join"} => pc'[d] = pc[d]
    BY <1>0, <2>1
  <2> QED
    BY <1>0, <2>1, <2>2 DEF TypeOK, Context
<1>4. ASSUME NEW c \in Clients, Return(c) PROVE TypeOK'
  BY <1>0, <1>4 DEF Return, Goto, TypeOK, Context, PointerInv
<1>5. ASSUME NEW c \in Clients, Wait(c) \/ LeaveMap(c) PROVE TypeOK'
  <2>1. /\ UNCHANGED <<pDBContext, heap, op, at, pdbc, fresh>> /\ last' = op[c]
        /\ pc' = [pc EXCEPT ![c] = "idle"]
    BY <1>5 DEF Wait, LeaveMap, Leave, Goto
  <2>2. /\ pc' \in [Clients -> Places] /\ last' \in Calls
        /\ \A d \in Clients : pc'[d] \in {"enter", "inside", "stop", "join"} => pc'[d] = pc[d]
    BY <1>0, <2>1
  <2>3. \A d \in Clients : pc'[d] \in {"enter", "inside", "stop", "join"} => at'[d] # 0
    BY <2>1, <2>2 DEF TypeOK
  <2> QED
    BY <1>0, <2>1, <2>2, <2>3 DEF TypeOK, Context
<1>6. ASSUME NEW c \in Clients, TestDelete(c) PROVE TypeOK'
  <2>1. /\ UNCHANGED <<pDBContext, heap, op, pdbc, fresh>> /\ last' \in Calls
        /\ at' = [at EXCEPT ![c] = pDBContext]
        /\ \/ pc' = [pc EXCEPT ![c] = "stop"] /\ pDBContext # 0
           \/ pc' = [pc EXCEPT ![c] = "idle"]
    BY <1>0, <1>6 DEF TestDelete, Leave, Goto
  <2>2. /\ pc' \in [Clients -> Places] /\ at' \in [Clients -> 0..Len(heap)]
        /\ \A d \in Clients : pc'[d] \in {"enter", "inside", "stop", "join"} => at'[d] # 0
    BY <1>0, <2>1 DEF TypeOK
  <2> QED
    BY <1>0, <2>1, <2>2 DEF TypeOK, Context
<1>7. ASSUME NEW c \in Clients, New(c) PROVE TypeOK'
  <2>1. heap' \in Seq(Context) /\ Len(heap') = Len(heap) + 1
    BY <1>7, NewMoves
  <2>2. 0..Len(heap) \subseteq 0..Len(heap') /\ Len(heap) + 1 \in 0..Len(heap')
    BY <1>0, <2>1
  <2>3. /\ pc' = [pc EXCEPT ![c] = "assign"] /\ at' = [at EXCEPT ![c] = Len(heap) + 1]
        /\ UNCHANGED <<pDBContext, op, pdbc, fresh, last>>
    BY <1>7 DEF New, Goto
  <2>4. /\ pDBContext' \in 0..Len(heap') /\ at' \in [Clients -> 0..Len(heap')]
        /\ pdbc' \in [Clients -> 0..Len(heap')]
        /\ pc' \in [Clients -> Places]
    BY <1>0, <2>2, <2>3
  <2>5. \A d \in Clients : pc'[d] \in {"enter", "inside", "stop", "join"} => at'[d] # 0
    BY <1>0, <2>3 DEF TypeOK
  <2> QED
    BY <1>0, <2>1, <2>3, <2>4, <2>5 DEF TypeOK, Context
<1>8. ASSUME NEW c \in Clients, Upload(c) \/ Stop(c) \/ Join(c) PROVE TypeOK'
  <2>1. PICK x \in {"idle", "join", "reset"} :
           /\ UNCHANGED <<pDBContext, op, at, pdbc, fresh>> /\ last' \in Calls
           /\ pc' = [pc EXCEPT ![c] = x]
    BY <1>0, <1>8 DEF Upload, Stop, Join, Leave, Goto
  <2>2. /\ pc' \in [Clients -> Places]
        /\ \A d \in Clients : d = c \/ pc'[d] = pc[d]
    BY <1>0, <2>1
  <2>3. heap' \in Seq(Context) /\ Len(heap') = Len(heap) /\ at[c] # 0
    <3>1. at[c] = Len(heap) /\ Len(heap) \in 1..Len(heap)
      BY <1>8, ClientMoves
    <3>2. heap' \in Seq(Context) /\ Len(heap') = Len(heap)
      BY <1>8, ClientMoves
    <3> QED
      BY <1>0, <3>1, <3>2
  <2>4. \A d \in Clients : pc'[d] \in {"enter", "inside", "stop", "join"} => at'[d] # 0
    BY <2>1, <2>2, <2>3 DEF TypeOK
  <2> QED
    BY <1>0, <2>1, <2>2, <2>3, <2>4 DEF TypeOK, Context
<1>9. ASSUME NEW k \in 1..Len(heap), LoopNext(k) PROVE TypeOK'
  BY <1>9, LoopMoves DEF TypeOK, Context
<1>10. CASE UNCHANGED vars
  BY <1>10 DEF vars, TypeOK
<1> QED
  BY <1>1, <1>2, <1>3, <1>4, <1>5, <1>6, <1>7, <1>8, <1>9, <1>10, <1>11, StepCases

\* How a step of client c moves it.
LEMMA ClientPlaces ==
  ASSUME TypeOK, NEW c \in Clients, ClientNext(c)
  PROVE  /\ \A d \in Clients : d # c => pc'[d] = pc[d] /\ op'[d] = op[d] /\ at'[d] = at[d]
         /\ pc[c] # "idle" => op'[c] = op[c]
         /\ pc[c] = "idle" =>
               /\ \/ /\ pc'[c] = IF op'[c] = "delete" THEN "test-delete" ELSE "test"
                     /\ fresh' = IF op'[c] = "delete" THEN {} ELSE fresh
                  \/ /\ pc'[c] = "enter" /\ op'[c] \in {"wait", "predict"}
                     /\ c \in fresh /\ at'[c] = pdbc[c] /\ fresh' = fresh
               /\ Orderly(c, op'[c])
               /\ UNCHANGED <<pDBContext, heap, pdbc, last>>
         /\ pc[c] = "test" => pc'[c] = IF pDBContext = 0 THEN "new" ELSE "return"
         /\ pc[c] = "new" => pc'[c] = "assign" /\ at'[c] = Len(heap) + 1
         /\ pc[c] = "assign" => pc'[c] = "return" /\ pDBContext' = at[c]
         /\ pc[c] = "return" =>
               /\ at'[c] = pDBContext /\ last' = last
               /\ \/ pc'[c] = "enter" /\ UNCHANGED <<pdbc, fresh>>
                  \/ /\ pc'[c] = "idle" /\ pdbc'[c] = pDBContext
                     /\ fresh' = fresh \cup {c}
                     /\ \A d \in Clients : d # c => pdbc'[d] = pdbc[d]
         /\ pc[c] = "enter" => pc'[c] \in {"idle", "inside"}
         /\ pc'[c] = "inside" => op[c] \in {"initialize", "predict"}
         /\ pc[c] = "inside" => pc'[c] = "idle"
         /\ pc[c] = "test-delete" => pc'[c] = (IF pDBContext = 0 THEN "idle" ELSE "stop")
                                     /\ at'[c] = pDBContext
         /\ pc[c] = "stop" => pc'[c] = "join"
         /\ pc[c] = "join" => pc'[c] = "reset"
         /\ pc[c] = "reset" => pc'[c] = "idle" /\ pDBContext' = 0
         /\ pc[c] \notin {"assign", "reset"} => pDBContext' = pDBContext
         /\ pc[c] \notin {"idle", "new", "return", "test-delete"} => at' = at
         /\ pc[c] \notin {"idle", "return"} => UNCHANGED <<pdbc, fresh>>
         /\ pc[c] \notin {"new", "enter", "stop", "join"} => heap' = heap
         /\ pc'[c] # "idle" => last' = last
         /\ pc[c] \notin {"idle", "return"} /\ pc'[c] = "idle" => last' = op[c]
<1>0. /\ pc \in [Clients -> {"idle", "test", "new", "assign", "return", "enter", "inside",
                            "test-delete", "stop", "join", "reset"}]
      /\ op \in [Clients -> Calls] /\ at \in [Clients -> 0..Len(heap)]
      /\ pdbc \in [Clients -> 0..Len(heap)]
  BY DEF TypeOK
<1>1. ASSUME NEW call \in Calls, Begin(c, call) \/ BeginOnHandle(c, call)
      PROVE  op'[c] = call /\ Orderly(c, call)
  BY <1>0, <1>1 DEF Begin, BeginOnHandle
<1> QED
  BY <1>0, <1>1
     DEF ClientNext, Begin, BeginOnHandle, Fresh, Test, New, Assign, Return, Upload, Wait,
         EnterMap, LeaveMap, TestDelete, Stop, Join, Reset, Goto, Leave

\* Each step keeps the clients' turns: who may be inside with whom.
LEMMA TurnStep ==
  ASSUME TypeOK, TurnInv, PointerInv, [Next]_vars
  PROVE  TurnInv'
<1>1. ASSUME NEW c \in Clients, ClientNext(c) PROVE TurnInv'
  <2>0. pc[c] \in {"idle", "test", "new", "assign", "return", "enter", "inside",
                   "test-delete", "stop", "join", "reset"}
    BY DEF TypeOK
  <2>1. \A d \in Clients : d # c => pc'[d] = pc[d] /\ op'[d] = op[d]
    BY <1>1, ClientPlaces
  <2>2. /\ pc'[c] \in {"test-delete", "stop", "join", "reset"} => op'[c] = "delete"
        /\ pc'[c] \in {"test", "new", "assign", "return", "enter", "inside"} => op'[c] # "delete"
        /\ pc'[c] = "inside" => op'[c] \in {"initialize", "predict"}
    BY <1>1, <2>0, ClientPlaces DEF TurnInv
  <2>3. CASE pc[c] = "idle"
    <3>1. Orderly(c, op'[c]) /\ pDBContext' = pDBContext
      BY <1>1, <2>3, ClientPlaces
    <3>2. pDBContext = 0 \/ op'[c] \in {"initialize", "delete"} => \A d \in Clients : pc[d] = "idle"
      BY <3>1 DEF Orderly, Exclusive
    <3>3. \A d \in Clients : pc[d] # "idle" => op[d] \notin {"initialize", "delete"}
      BY <3>1 DEF Orderly
    <3> QED
      BY <2>1, <2>2, <3>1, <3>2, <3>3 DEF TurnInv
  <2>4. CASE pc[c] # "idle"
    <3>1. op' = op \/ (op'[c] = op[c])
      BY <1>1, <2>4, ClientPlaces
    <3>2. pDBContext' = 0 => pDBContext = 0 \/ op[c] = "delete"
      BY <1>1, <2>4, ClientPlaces DEF TurnInv, PointerInv
    <3> QED
      BY <2>1, <2>2, <2>4, <3>1, <3>2 DEF TurnInv
  <2> QED
    BY <2>3, <2>4
<1>2. ASSUME NEW k \in DOMAIN heap, LoopNext(k) PROVE TurnInv'
  BY <1>2 DEF LoopNext, LoopStart, LoopTop, LoopPop, LoopNotify, Loop, TurnInv
<1>3. CASE UNCHANGED vars
  BY <1>3 DEF vars, TurnInv
<1> QED
  BY <1>1, <1>2, <1>3 DEF Next

\* Each step keeps the pointer, and what the clients have read of it, on the newest context.
LEMMA PointerStep ==
  ASSUME TypeOK, TurnInv, PointerInv, HandleInv, HeapInv, QueueInv, [Next]_vars
  PROVE  PointerInv'
<1>1. ASSUME NEW c \in Clients, ClientNext(c) PROVE PointerInv'
  <2>0. /\ pc[c] \in {"idle", "test", "new", "assign", "return", "enter", "inside",
                      "test-delete", "stop", "join", "reset"}
        /\ Len(heap) \in Nat
    BY HeapIs DEF TypeOK
  <2>1. \A d \in Clients : d # c => pc'[d] = pc[d] /\ op'[d] = op[d] /\ at'[d] = at[d]
    BY <1>1, ClientPlaces
  <2>2. CASE pc[c] = "new"
    <3>1. Len(heap') = Len(heap) + 1 /\ pDBContext' = pDBContext
      BY <1>1, <2>2, ClientPlaces, NewMoves
         DEF ClientNext, Begin, BeginOnHandle, Test, Assign, Return, Upload, Wait, EnterMap, LeaveMap,
             TestDelete, Stop, Join, Reset, Goto, Leave
    <3>2. \A d \in Clients : d # c => pc[d] = "idle"
      BY <2>2 DEF TurnInv, PointerInv
    <3>3. pc'[c] = "assign" /\ at'[c] = Len(heap) + 1 /\ pDBContext = 0
      BY <1>1, <2>2, ClientPlaces DEF PointerInv
    <3> QED
      BY <2>0, <2>1, <3>1, <3>2, <3>3 DEF PointerInv
  <2>3. CASE pc[c] \notin {"new", "assign", "reset"}
    <3>1. Len(heap') = Len(heap) /\ pDBContext' = pDBContext
      <4>1. pc[c] \notin {"enter", "stop", "join"} => heap' = heap
        BY <1>1, <2>3, ClientPlaces
      <4>2. pc[c] \in {"enter", "stop", "join"} => Len(heap') = Len(heap)
        BY <1>1, ClientMoves
           DEF ClientNext, Begin, BeginOnHandle, Test, New, Assign, Return, Wait, EnterMap, LeaveMap,
               TestDelete, Reset, Goto, Leave
      <4> QED
        BY <1>1, <2>3, <4>1, <4>2, ClientPlaces
    <3>2. /\ pc'[c] \in {"new", "assign"} => pDBContext = 0
          /\ pc'[c] # "assign"
          /\ pc'[c] = "return" => pDBContext # 0
          /\ pc'[c] \in {"enter", "inside", "stop", "join", "reset"} =>
                pDBContext # 0 /\ at'[c] = pDBContext
      BY <1>1, <2>0, <2>3, ClientPlaces DEF PointerInv, HandleInv
    <3> QED
      BY <2>1, <3>1, <3>2 DEF PointerInv
  <2>4. CASE pc[c] = "assign"
    <3>1. /\ heap' = heap /\ pDBContext' = Len(heap) /\ Len(heap) # 0 /\ pc'[c] = "return"
      BY <1>1, <2>4, ClientPlaces DEF PointerInv
    <3>2. \A d \in Clients : d # c => pc[d] = "idle"
      BY <2>4 DEF TurnInv, PointerInv
    <3> QED
      BY <2>1, <3>1, <3>2 DEF PointerInv
  <2>5. CASE pc[c] = "reset"
    <3>1. heap' = heap /\ pDBContext' = 0 /\ pc'[c] = "idle"
      BY <1>1, <2>5, ClientPlaces
    <3>2. \A d \in Clients : d # c => pc[d] = "idle"
      BY <2>5 DEF TurnInv
    <3> QED
      BY <2>1, <3>1, <3>2 DEF PointerInv
  <2> QED
    BY <2>2, <2>3, <2>4, <2>5
<1>2. ASSUME NEW k \in 1..Len(heap), LoopNext(k) PROVE PointerInv'
  BY <1>2, LoopMoves DEF PointerInv
<1>3. CASE UNCHANGED vars
  BY <1>3 DEF vars, PointerInv
<1> QED
  BY <1>1, <1>2, <1>3, HeapIs, LenProperties DEF Next

\* A client that creates, deletes or initializes is alone.
LEMMA Alone ==
  ASSUME TypeOK, TurnInv, PointerInv, NEW c \in Clients,
         \/ pc[c] \in {"new", "assign", "test-delete", "stop", "join", "reset"}
         \/ pc[c] # "idle" /\ op[c] \in {"initialize", "delete"}
  PROVE  \A d \in Clients : d # c => pc[d] = "idle"
  BY DEF TurnInv, PointerInv

\* Each step keeps the pointers that were taken after the last delete current.
LEMMA HandleStep ==
  ASSUME TypeOK, TurnInv, PointerInv, HandleInv, [Next]_vars
  PROVE  HandleInv'
<1>0. fresh \subseteq Clients
  BY DEF TypeOK
<1>1. ASSUME NEW c \in Clients, ClientNext(c) PROVE HandleInv'
  <2>0. pc[c] \in {"idle", "test", "new", "assign", "return", "enter", "inside",
                   "test-delete", "stop", "join", "reset"}
    BY DEF TypeOK
  <2>1. \A d \in Clients : d # c => pc'[d] = pc[d] /\ op'[d] = op[d]
    BY <1>1, ClientPlaces
  <2>2. CASE pc[c] = "idle"
    <3>1. /\ UNCHANGED <<pDBContext, pdbc>> /\ (fresh' = fresh \/ fresh' = {})
          /\ op'[c] = "delete" => fresh' = {}
      BY <1>1, <2>2, ClientPlaces
    <3>2. Busy("delete")' => Busy("delete") \/ op'[c] = "delete"
      BY <2>1 DEF Busy
    <3> QED
      BY <3>1, <3>2 DEF HandleInv
  <2>3. CASE pc[c] = "return"
    <3>1. ~Busy("delete") /\ ~Busy("delete")' /\ pDBContext # 0
      <4>1. pDBContext # 0 /\ op[c] # "delete" /\ op'[c] = op[c]
        BY <1>1, <2>3, ClientPlaces DEF PointerInv, TurnInv
      <4>2. \A d \in Clients : pc[d] # "idle" => op[d] # "delete"
        BY <2>3, <4>1 DEF TurnInv
      <4> QED
        BY <2>1, <4>1, <4>2 DEF Busy
    <3>2. pDBContext' = pDBContext
      BY <1>1, <2>3, ClientPlaces
    <3>3. \/ UNCHANGED <<pdbc, fresh>>
          \/ /\ pdbc'[c] = pDBContext /\ fresh' = fresh \cup {c}
             /\ \A d \in Clients : d # c => pdbc'[d] = pdbc[d]
      BY <1>1, <2>3, ClientPlaces
    <3> QED
      BY <1>0, <3>1, <3>2, <3>3 DEF HandleInv
  <2>4. CASE pc[c] \notin {"idle", "return"}
    <3>1. UNCHANGED <<pdbc, fresh>> /\ op'[c] = op[c]
      BY <1>1, <2>4, ClientPlaces
    <3>2. Busy("delete")' => Busy("delete")
      BY <2>1, <2>4, <3>1 DEF Busy
    <3>3. pc[c] = "assign" => fresh = {}
      BY DEF PointerInv, HandleInv
    <3>4. pc[c] = "reset" => fresh = {}
      BY DEF TurnInv, Busy, HandleInv
    <3>5. pc[c] \notin {"assign", "reset"} => pDBContext' = pDBContext
      BY <1>1, ClientPlaces
    <3> QED
      BY <3>1, <3>2, <3>3, <3>4, <3>5 DEF HandleInv
  <2> QED
    BY <2>2, <2>3, <2>4
<1>2. ASSUME NEW k \in 1..Len(heap), LoopNext(k) PROVE HandleInv'
  BY <1>2 DEF LoopNext, LoopStart, LoopTop, LoopPop, LoopNotify, Loop, HandleInv, Busy
<1>3. CASE UNCHANGED vars
  BY <1>3 DEF vars, HandleInv, Busy
<1> QED
  BY <1>1, <1>2, <1>3, HeapIs, LenProperties DEF Next

\* Each step keeps every context but the last freed.
LEMMA HeapStep ==
  ASSUME TypeOK, TurnInv, PointerInv, HandleInv, HeapInv, QueueInv, [Next]_vars
  PROVE  HeapInv'
<1>1. ASSUME NEW c \in Clients, ClientNext(c) PROVE HeapInv'
  <2>0. Len(heap) \in Nat
    BY HeapIs
  <2>1. \A d \in Clients : d # c => pc'[d] = pc[d]
    BY <1>1, ClientPlaces
  <2>2. CASE pc[c] = "new"
    <3>1. New(c) /\ pc'[c] = "assign" /\ pDBContext' = pDBContext /\ pDBContext = 0
      BY <1>1, <2>2, ClientPlaces
         DEF ClientNext, Begin, BeginOnHandle, Test, Assign, Return, Upload, Wait, EnterMap, LeaveMap,
             TestDelete, Stop, Join, Reset, Goto, Leave, PointerInv
    <3>2. \A d \in Clients : pc[d] \in {"idle", "new"}
      BY <2>2, Alone
    <3>3. ~Somewhere({"assign"}) /\ Somewhere({"assign"})'
      BY <3>1, <3>2 DEF Somewhere
    <3>4. \A k \in 1..Len(heap) : heap[k].freed
      BY <3>1, <3>3 DEF HeapInv
    <3> QED
      BY <2>0, <3>1, <3>3, <3>4, NewMoves DEF HeapInv
  <2>3. CASE pc[c] = "assign"
    <3>1. heap' = heap /\ pc'[c] = "return" /\ pDBContext' # 0
      BY <1>1, <2>3, ClientPlaces DEF PointerInv
    <3>2. \A d \in Clients : d # c => pc[d] = "idle"
      BY <2>3, Alone
    <3>3. Somewhere({"assign"}) /\ ~Somewhere({"reset"})'
      BY <2>1, <2>3, <3>1, <3>2 DEF Somewhere
    <3> QED
      BY <3>1, <3>3 DEF HeapInv
  <2>4. CASE pc[c] = "join"
    <3>1. Join(c) /\ pc'[c] = "reset"
      BY <1>1, <2>4, ClientPlaces
         DEF ClientNext, Begin, BeginOnHandle, Test, New, Assign, Return, Upload, Wait, EnterMap, LeaveMap,
             TestDelete, Stop, Reset, Goto, Leave
    <3>2. \A d \in Clients : d # c => pc[d] = "idle"
      BY <2>4, Alone
    <3>3. Somewhere({"join"}) /\ ~Somewhere({"assign"}) /\ ~Somewhere({"reset"})
          /\ Somewhere({"reset"})' /\ ~Somewhere({"assign"})'
      BY <2>1, <2>4, <3>1, <3>2 DEF Somewhere
    <3>4. heap[Len(heap)].loop = "ended"
      <4>2. Len(heap) \in 1..Len(heap) /\ at[c] = Len(heap) /\ pDBContext = Len(heap)
        BY <3>1, ClientMoves
      <4>1. heap[Len(heap)].loop \in {"start", "ended"} /\ pDBContext # 0
        BY <2>0, <3>1, <4>2 DEF Join, RunLockFree
      <4>3. ~heap[Len(heap)].freed
        BY <3>3, <4>1, <4>2 DEF HeapInv
      <4> QED
        BY <3>3, <4>1, <4>2, <4>3 DEF QueueInv
    <3>5. ASSUME NEW j \in 1..Len(heap') PROVE heap'[j].freed /\ heap'[j].loop = "ended"
      <4>1. CASE j = Len(heap)
        <5>1. ~Upload(c) /\ ~Stop(c)
          BY <2>4 DEF Upload, Stop, Leave, Goto
        <5> QED
          BY <3>1, <3>4, <4>1, <5>1, ClientMoves
      <4>2. CASE j # Len(heap)
        BY <3>1, <4>2, ClientMoves DEF HeapInv
      <4> QED
        BY <4>1, <4>2
    <3> QED
      BY <3>3, <3>5 DEF HeapInv
  <2>5. CASE pc[c] = "reset"
    <3>1. heap' = heap /\ pDBContext' = 0 /\ pc'[c] = "idle"
      BY <1>1, <2>5, ClientPlaces
    <3>2. \A d \in Clients : d # c => pc[d] = "idle"
      BY <2>5, Alone
    <3>3. Somewhere({"reset"}) /\ ~Somewhere({"assign"}) /\ ~Somewhere({"assign"})'
      BY <2>1, <2>5, <3>1, <3>2 DEF Somewhere
    <3> QED
      BY <3>1, <3>3 DEF HeapInv
  <2>6. CASE pc[c] \notin {"new", "assign", "join", "reset"}
    <3>1. pDBContext' = pDBContext /\ pc'[c] \notin {"assign", "reset"}
      BY <1>1, <2>6, ClientPlaces DEF TypeOK
    <3>2. /\ Somewhere({"assign"})' <=> Somewhere({"assign"})
          /\ Somewhere({"reset"})' <=> Somewhere({"reset"})
      BY <2>1, <2>6, <3>1 DEF Somewhere
    <3>3. /\ Len(heap') = Len(heap)
          /\ \A k \in 1..Len(heap) : heap'[k].freed = heap[k].freed /\ heap'[k].loop = heap[k].loop
      <4>1. CASE pc[c] \notin {"enter", "stop"}
        BY <1>1, <2>6, <4>1, ClientPlaces
      <4>2. CASE pc[c] \in {"enter", "stop"} /\ heap' # heap
        <5>1. Upload(c) \/ Stop(c)
          BY <1>1, <4>2 DEF ClientNext, Begin, BeginOnHandle, Test, New, Assign, Return, Wait, EnterMap,
             LeaveMap, TestDelete, Join, Reset, Goto, Leave
        <5>2. ~Join(c)
          BY <4>2 DEF Join, Goto
        <5> QED
          BY <5>1, <5>2, ClientMoves
      <4> QED
        BY <4>1, <4>2
    <3> QED
      BY <3>1, <3>2, <3>3 DEF HeapInv
  <2> QED
    BY <2>2, <2>3, <2>4, <2>5, <2>6
<1>2. ASSUME NEW k \in 1..Len(heap), LoopNext(k) PROVE HeapInv'
  <2>1. /\ Somewhere({"assign"})' <=> Somewhere({"assign"})
        /\ Somewhere({"reset"})' <=> Somewhere({"reset"})
    BY <1>2, LoopMoves DEF Somewhere
  <2> QED
    BY <1>2, <2>1, LoopMoves DEF HeapInv
<1>3. CASE UNCHANGED vars
  BY <1>3 DEF vars, HeapInv, Somewhere
<1> QED
  BY <1>1, <1>2, <1>3, HeapIs, LenProperties DEF Next

\* Each step keeps the queue and the thread of the living context together.
LEMMA QueueStep ==
  ASSUME TypeOK, TurnInv, PointerInv, HeapInv, QueueInv, HeapInv', [Next]_vars
  PROVE  QueueInv'
<1> DEFINE k == Len(heap)
<1>0. k \in Nat /\ \A j \in 1..k : heap[j] \in Context
  BY HeapIs
<1>1. ASSUME NEW c \in Clients, ClientNext(c) PROVE QueueInv'
  <2>1. \A d \in Clients : d # c => pc'[d] = pc[d] /\ op'[d] = op[d]
    BY <1>1, ClientPlaces
  <2>2. CASE pc[c] = "idle"
    <3>1. /\ \/ pc'[c] = IF op'[c] = "delete" THEN "test-delete" ELSE "test"
             \/ pc'[c] = "enter" /\ op'[c] # "delete"
          /\ Orderly(c, op'[c]) /\ UNCHANGED <<pDBContext, heap, last>>
      BY <1>1, <2>2, ClientPlaces
    <3>2. ASSUME op'[c] \in {"initialize", "delete"}, NEW j \in 1..k, ~heap[j].freed
          PROVE  heap[j].queue = <<>> /\ (op'[c] = "delete" => heap[j].used)
      <4>1. \A d \in Clients : pc[d] = "idle"
        BY <3>1, <3>2 DEF Orderly, Exclusive
      <4>2. ~Somewhere({"assign"}) /\ ~Somewhere({"join"})
        BY <4>1 DEF Somewhere
      <4>3. pDBContext # 0 /\ j = pDBContext
        BY <3>2, <4>2 DEF HeapInv, PointerInv
      <4>4. heap[j].used => last = "wait"
        BY <3>1, <3>2, <4>3 DEF Orderly, Uploaded
      <4>5. op'[c] = "delete" => heap[j].used
        BY <3>1, <4>3 DEF Orderly, Uploaded
      <4> QED
        BY <3>2, <4>2, <4>4, <4>5 DEF QueueInv
    <3>3. /\ Somewhere({"assign"})' => Somewhere({"assign"})
          /\ Somewhere({"join"})' <=> Somewhere({"join"})
      BY <2>1, <2>2, <3>1 DEF Somewhere
    <3>4. Somewhere({"test-delete", "stop"})' =>
              Somewhere({"test-delete", "stop"}) \/ op'[c] = "delete"
      BY <2>1, <2>2, <3>1 DEF Somewhere
    <3>5. Busy("initialize")' => Busy("initialize") \/ op'[c] = "initialize"
      BY <2>1 DEF Busy
    <3>6. ASSUME NEW j \in 1..Len(heap), ~heap[j].freed
          PROVE  /\ Somewhere({"assign"})' => Somewhere({"assign"}) \/ ~heap[j].used
                 /\ Somewhere({"join"})' <=> Somewhere({"join"})
                 /\ Somewhere({"test-delete", "stop"})' =>
                       \/ Somewhere({"test-delete", "stop"})
                       \/ heap[j].used /\ heap[j].queue = <<>>
                 /\ Busy("initialize")' => Busy("initialize") \/ heap[j].queue = <<>>
      BY <3>2, <3>3, <3>4, <3>5, <3>6
    <3> QED
      BY <3>1, <3>6 DEF QueueInv
  <2>3. CASE pc[c] = "new"
    <3>1. New(c) /\ pc'[c] = "assign"
      BY <1>1, <2>3, ClientPlaces
         DEF ClientNext, Begin, BeginOnHandle, Test, Assign, Return, Upload, Wait, EnterMap, LeaveMap,
             TestDelete, Stop, Join, Reset, Goto, Leave
    <3>2. \A d \in Clients : pc'[d] \in {"idle", "assign"}
      BY <2>1, <2>3, <3>1, Alone
    <3>3. ~Somewhere({"join"})' /\ ~Somewhere({"test-delete", "stop"})'
      BY <3>2 DEF Somewhere
    <3>4. Somewhere({"assign"})'
      BY <3>1 DEF Somewhere
    <3>5. /\ Len(heap') = k + 1
          /\ heap'[k + 1] = [freed |-> FALSE, used |-> FALSE, loop |-> "start", queue |-> <<>>]
      BY <3>1, NewMoves
    <3>6. \A j \in 1..Len(heap') : ~heap'[j].freed => j = k + 1
      BY <3>5 DEF HeapInv
    <3> QED
      BY <3>3, <3>5, <3>6, EmptySeq DEF QueueInv
  <2>4. CASE pc[c] \in {"test", "assign", "return"} \/ (pc[c] = "enter" /\ pc'[c] = "inside")
    <3>1. /\ heap' = heap /\ last' = last /\ op'[c] = op[c]
          /\ pc'[c] \notin {"assign", "join", "test-delete", "stop"}
      <4>1. CASE pc[c] \in {"test", "assign", "return"}
        BY <1>1, <4>1, ClientPlaces
      <4>2. CASE pc[c] = "enter" /\ pc'[c] = "inside"
        BY <1>1, <4>2, ClientPlaces
           DEF ClientNext, Begin, BeginOnHandle, Test, New, Assign, Return, Upload, Wait, EnterMap, LeaveMap,
               TestDelete, Stop, Join, Reset, Goto, Leave, TypeOK
      <4> QED
        BY <2>4, <4>1, <4>2
    <3>2. /\ Somewhere({"assign"})' => Somewhere({"assign"})
          /\ Somewhere({"join"})' <=> Somewhere({"join"})
          /\ Somewhere({"test-delete", "stop"})' => Somewhere({"test-delete", "stop"})
      BY <2>1, <2>4, <3>1 DEF Somewhere
    <3>3. Busy("initialize")' => Busy("initialize")
      BY <2>1, <2>4, <3>1 DEF Busy
    <3>4. ASSUME NEW j \in 1..Len(heap), ~heap[j].freed
          PROVE  /\ Somewhere({"assign"})' => Somewhere({"assign"}) \/ ~heap[j].used
                 /\ Somewhere({"join"})' <=> Somewhere({"join"})
                 /\ Somewhere({"test-delete", "stop"})' =>
                       \/ Somewhere({"test-delete", "stop"})
                       \/ heap[j].used /\ heap[j].queue = <<>>
                 /\ Busy("initialize")' => Busy("initialize") \/ heap[j].queue = <<>>
      BY <3>2, <3>3
    <3> QED
      BY <3>1, <3>4 DEF QueueInv
  <2>5. CASE pc[c] = "enter" /\ pc'[c] = "idle"
    <3>0. /\ \A d \in Clients : pc[d] \notin {"new", "assign", "test-delete", "stop", "join", "reset"}
          /\ pDBContext = k /\ k # 0 /\ k \in 1..k
      <4>1. \A d \in Clients : pc[d] \in {"new", "assign", "test-delete", "stop", "join", "reset"}
               => c = d
        BY <2>5, Alone
      <4> QED
        BY <1>0, <2>5, <4>1 DEF PointerInv
    <3>1. /\ ~Somewhere({"assign"})' /\ ~Somewhere({"join"}) /\ ~Somewhere({"join"})'
          /\ ~Somewhere({"test-delete", "stop"})'
      BY <2>1, <2>5, <3>0 DEF Somewhere
    <3>2. ASSUME NEW j \in 1..Len(heap'), ~heap'[j].freed PROVE j = Len(heap')
      BY <3>2 DEF HeapInv
    <3>3. CASE Upload(c)
      <4>1. ~Busy("initialize")'
        <5>1. \A d \in Clients : d # c /\ pc[d] # "idle" => op[d] # "initialize"
          BY <2>5, Alone
        <5> QED
          BY <2>1, <2>5, <5>1 DEF Busy
      <4>2. last' = "upload" /\ ~Stop(c) /\ ~Join(c)
        BY <2>5, <3>3 DEF Upload, Leave, Stop, Join, Goto
      <4>3. /\ Len(heap') = k /\ heap'[k].loop = heap[k].loop /\ heap'[k].used = TRUE
            /\ heap'[k].freed = heap[k].freed
            /\ heap'[k].queue = Append(heap[k].queue, "update")
        BY <3>3, <4>2, ClientMoves
      <4>4. ASSUME ~heap[k].freed
            PROVE  /\ heap'[k].queue # <<>>
                   /\ \A i \in 1..Len(heap'[k].queue) : heap'[k].queue[i] = "update"
        <5>1. \A i \in 1..Len(heap[k].queue) : heap[k].queue[i] = "update"
          BY <3>0, <3>1, <4>4 DEF QueueInv
        <5>2. heap[k].queue \in Seq({"update", "stop"})
          BY <1>0, <3>0 DEF Context
        <5> QED
          BY <4>3, <5>1, <5>2, AppendProperties
      <4>5. ~heap[k].freed => heap[k].loop \notin {"stopping", "leave", "ended"}
        BY <3>0, <3>1 DEF QueueInv
      <4>6. \A j \in 1..Len(heap') : ~heap'[j].freed => j = k /\ ~heap[k].freed
        BY <3>2, <4>3
      <4>7. ASSUME NEW j \in 1..Len(heap'), ~heap'[j].freed
            PROVE  /\ j = k /\ heap'[j].used = TRUE /\ heap'[j].queue # <<>>
                   /\ heap'[j].loop \notin {"stopping", "leave", "ended"}
                   /\ \A i \in 1..Len(heap'[j].queue) : heap'[j].queue[i] = "update"
        BY <4>3, <4>4, <4>5, <4>6, <4>7
      <4> QED
        BY <3>1, <4>1, <4>2, <4>7 DEF QueueInv
    <3>4. CASE Wait(c)
      <4>1. heap' = heap /\ heap[k].queue = <<>>
        BY <2>5, <3>0, <3>4 DEF Wait, Leave, Goto, PointerInv
      <4>2. ~Somewhere({"test-delete", "stop"})'
        BY <3>1
      <4> QED
        BY <3>0, <3>1, <3>2, <4>1 DEF QueueInv
    <3> QED
      BY <1>1, <2>5, <3>3, <3>4
         DEF ClientNext, Begin, BeginOnHandle, Test, New, Assign, Return, EnterMap, LeaveMap,
             TestDelete, Stop, Join, Reset, Goto, Leave, TypeOK
  <2>6. CASE pc[c] = "inside"
    <3>1. /\ heap' = heap /\ last' \in {"initialize", "predict"} /\ op'[c] = op[c]
          /\ pc'[c] = "idle"
      BY <1>1, <2>6, ClientPlaces DEF TurnInv
    <3>2. /\ Somewhere({"assign"})' => Somewhere({"assign"})
          /\ Somewhere({"join"})' <=> Somewhere({"join"})
          /\ Somewhere({"test-delete", "stop"})' => Somewhere({"test-delete", "stop"})
      BY <2>1, <2>6, <3>1 DEF Somewhere
    <3>3. Busy("initialize")' => Busy("initialize")
      BY <2>1, <2>6, <3>1 DEF Busy
    <3> QED
      BY <3>1, <3>2, <3>3 DEF QueueInv
  <2>7. CASE pc[c] = "test-delete"
    <3>1. \A d \in Clients : d # c => pc[d] = "idle"
      BY <2>7, Alone
    <3>2. heap' = heap /\ op'[c] = "delete"
      BY <1>1, <2>7, ClientPlaces DEF TurnInv
    <3>3. ~Somewhere({"assign"})' /\ ~Busy("initialize")'
      BY <1>1, <2>1, <2>7, <3>1, <3>2, ClientPlaces DEF Somewhere, Busy
    <3>4. ~Somewhere({"join"}) /\ ~Somewhere({"join"})' /\ Somewhere({"test-delete", "stop"})
      BY <1>1, <2>1, <2>7, <3>1, ClientPlaces DEF Somewhere
    <3> QED
      BY <3>2, <3>3, <3>4 DEF QueueInv
  <2>8. CASE pc[c] = "stop"
    <3>1. \A d \in Clients : d # c => pc[d] = "idle"
      BY <2>8, Alone
    <3>2. Stop(c) /\ pc'[c] = "join" /\ op'[c] = "delete"
      BY <1>1, <2>8, ClientPlaces
         DEF ClientNext, Begin, BeginOnHandle, Test, New, Assign, Return, Upload, Wait, EnterMap, LeaveMap,
             TestDelete, Join, Reset, Goto, Leave, TurnInv
    <3>3. /\ ~Somewhere({"assign"})' /\ ~Busy("initialize")'
          /\ ~Somewhere({"join"}) /\ Somewhere({"join"})'
          /\ Somewhere({"test-delete", "stop"}) /\ ~Somewhere({"test-delete", "stop"})'
          /\ ~Somewhere({"assign"}) /\ ~Somewhere({"reset"})
      BY <2>1, <2>8, <3>1, <3>2 DEF Somewhere, Busy
    <3>4. ~Upload(c) /\ ~Join(c)
      BY <2>8 DEF Upload, Join, Leave, Goto
    <3>5. /\ Len(heap') = k /\ heap'[k].loop = heap[k].loop /\ heap'[k].used = heap[k].used
          /\ heap'[k].queue = Append(heap[k].queue, "stop") /\ k \in 1..k
          /\ pDBContext = k
      BY <3>2, <3>4, ClientMoves
    <3>6. ~heap[k].freed
      BY <1>0, <3>3, <3>5 DEF HeapInv
    <3>7. /\ heap[k].used /\ heap[k].queue = <<>>
          /\ heap[k].loop \notin {"start", "walking", "stopping", "leave", "ended"}
      BY <3>3, <3>5, <3>6 DEF QueueInv
    <3>8. heap[k].loop \in {"top", "notify"} /\ heap'[k].queue = <<"stop">>
      BY <1>0, <3>5, <3>7 DEF Context
    <3>9. \A j \in 1..Len(heap') : ~heap'[j].freed => j = k
      BY <3>5 DEF HeapInv
    <3> QED
      BY <3>3, <3>5, <3>7, <3>8, <3>9 DEF QueueInv
  <2>9. CASE pc[c] \in {"join", "reset"}
    <3>1. \A d \in Clients : d # c => pc[d] = "idle"
      BY <2>9, Alone
    <3>2. ~Somewhere({"assign"})' /\ (Somewhere({"reset"})' \/ pDBContext' = 0)
      BY <1>1, <2>1, <2>9, <3>1, ClientPlaces DEF Somewhere
    <3>3. \A j \in 1..Len(heap') : heap'[j].freed
      BY <3>2 DEF HeapInv
    <3> QED
      BY <3>3 DEF QueueInv
  <2> QED
    BY <1>1, <2>2, <2>3, <2>4, <2>5, <2>6, <2>7, <2>8, <2>9, ClientPlaces DEF TypeOK
<1>2. ASSUME NEW n \in 1..Len(heap), LoopNext(n) PROVE QueueInv'
  <2>1. ~heap[n].freed /\ n = k
    BY <1>2, LoopMoves DEF HeapInv
  <2>2. \A j \in 1..Len(heap') : ~heap'[j].freed => j = k /\ Len(heap') = k
    BY <1>2, LoopMoves DEF HeapInv
  <2>3. /\ Somewhere({"assign"})' <=> Somewhere({"assign"})
        /\ Somewhere({"join"})' <=> Somewhere({"join"})
        /\ Somewhere({"test-delete", "stop"})' <=> Somewhere({"test-delete", "stop"})
        /\ Busy("initialize")' <=> Busy("initialize")
    BY <1>2, LoopMoves DEF Somewhere, Busy
  <2>4. heap'[k].used = heap[k].used /\ last' = last
    BY <1>2, <2>1, LoopMoves
  <2>5. heap[k].queue \in Seq({"update", "stop"})
    BY <1>0, <1>2, <2>1 DEF Context
  <2> DEFINE q == heap[k].queue
             r == heap'[k].queue
  <2>6. q = <<>> => r = <<>>
    BY <1>2, <2>1, LoopMoves
  <2>7. heap[k].loop = "start" \/ heap'[k].loop # "start"
    BY <1>2, <2>1, LoopMoves
  <2>8. ~Somewhere({"join"}) => \A i \in 1..Len(q) : q[i] = "update"
    BY <1>2, <2>1 DEF QueueInv
  <2>9. ASSUME ~Somewhere({"join"})
        PROVE  /\ \A i \in 1..Len(r) : r[i] = "update"
               /\ heap'[k].loop \notin {"stopping", "leave", "ended"}
               /\ heap'[k].loop = "walking" => r # <<>>
    <3>1. q # <<>> => Head(q) = "update" /\ \A i \in 1..Len(Tail(q)) : Tail(q)[i] = "update"
      <4> SUFFICES ASSUME q # <<>> PROVE Head(q) = "update" /\ \A i \in 1..Len(Tail(q)) : Tail(q)[i] = "update"
        OBVIOUS
      <4>1. /\ Len(q) \in Nat \ {0} /\ Head(q) = q[1] /\ Len(Tail(q)) = Len(q) - 1
            /\ \A i \in 1..Len(Tail(q)) : Tail(q)[i] = q[i + 1]
        BY <2>5, EmptySeq, HeadTailProperties
      <4> QED
        BY <2>8, <2>9, <4>1
    <3>2. heap[k].loop \notin {"stopping", "leave", "ended"}
      BY <1>2, <2>1, <2>9 DEF QueueInv
    <3>3. \/ r = q /\ heap'[k].loop \in {"top", "ended"} /\ (heap'[k].loop = "ended" => heap[k].loop = "leave")
          \/ /\ r = q /\ q # <<>>
             /\ heap'[k].loop = IF Head(q) = "stop" THEN "stopping" ELSE "walking"
          \/ /\ q # <<>> /\ r = Tail(q)
             /\ heap'[k].loop = "notify" \/ heap[k].loop = "stopping"
      BY <1>2, <2>1, LoopMoves
    <3> HIDE DEF q, r
    <3> QED
      BY <2>8, <2>9, <3>1, <3>2, <3>3
  <2>10. ASSUME Somewhere({"join"})
         PROVE  \/ r = <<"stop">> /\ heap'[k].loop \in {"top", "notify", "stopping"}
                \/ r = <<>> /\ heap'[k].loop \in {"leave", "ended"}
    <3>1. \/ q = <<"stop">> /\ heap[k].loop \in {"top", "notify", "stopping"}
          \/ q = <<>> /\ heap[k].loop \in {"leave", "ended"}
      BY <1>2, <2>1, <2>10 DEF QueueInv
    <3>2. Head(<<"stop">>) = "stop" /\ Tail(<<"stop">>) = <<>>
      OBVIOUS
    <3> QED
      BY <1>2, <2>1, <3>1, <3>2, LoopMoves
  <2>11. heap'[k].loop = "start" => r = q /\ heap[k].loop = "start"
    BY <1>2, <2>1, LoopMoves
  <2> QED
    BY <1>2, <2>1, <2>2, <2>3, <2>4, <2>6, <2>9, <2>10, <2>11 DEF QueueInv
<1>3. CASE UNCHANGED vars
  BY <1>3 DEF vars, QueueInv, Somewhere, Busy
<1> QED
  BY <1>1, <1>2, <1>3, HeapIs, LenProperties DEF Next

-----------------------------------------------------------------------------
\* The invariant holds before the first call.
LEMMA Initially == Init => IInv
<1> SUFFICES ASSUME Init PROVE IInv
  OBVIOUS
<1>1. Len(heap) = 0 /\ heap \in Seq(Context) /\ \A c \in Clients : pc[c] = "idle"
  BY EmptySeq DEF Init
<1>2. TypeOK
  BY <1>1 DEF Init, TypeOK, Calls, Context
<1>3. TurnInv /\ PointerInv /\ HandleInv /\ HeapInv /\ QueueInv
  BY <1>1 DEF Init, TurnInv, PointerInv, HandleInv, Busy, HeapInv, QueueInv
<1> QED
  BY <1>2, <1>3 DEF IInv

\* The inductive invariant holds in every reachable state.
THEOREM Invariance == Spec => []IInv
<1>1. IInv /\ [Next]_vars => IInv'
  BY TypeStep, TurnStep, PointerStep, HandleStep, HeapStep, QueueStep DEF IInv
<1> QED
  BY Initially, <1>1, PTL DEF Spec

\* The variables keep their types, and no call works on a null pointer.
THEOREM TypeCorrect == Spec => []TypeOK
<1>1. IInv => TypeOK
  BY DEF IInv
<1> QED
  BY <1>1, Invariance, PTL

\* DatabaseContext.hh:11: in an orderly program there is never a second context,
\* whichever client's call creates the next one.
THEOREM OnlyOneContext == Spec => []OneContext
<1>1. IInv => OneContext
  <2> SUFFICES ASSUME IInv PROVE Cardinality(Live) <= 1
    BY DEF OneContext
  <2>1. heap \in Seq(Context) /\ HeapInv
    BY HeapIs DEF IInv
  <2>2. Live \subseteq {Len(heap)}
    BY <2>1, LenProperties DEF Live, HeapInv
  <2>3. Live = {} \/ Live = {Len(heap)}
    BY <2>2
  <2>4. CASE Live = {}
    BY <2>4, FS_EmptySet
  <2>5. CASE Live = {Len(heap)}
    <3>1. Cardinality({Len(heap)}) = 1
      BY FS_Singleton, Zenon
    <3> QED
      BY <2>5, <3>1
  <2> QED
    BY <2>3, <2>4, <2>5
<1> QED
  BY <1>1, Invariance, PTL

\* An orderly program never touches a context it has freed: neither a client that
\* calls a handle it has kept, nor one inside a call while another deletes, nor
\* the thread of the context.
THEOREM FreedIsLeftAlone == Spec => []NoUseAfterFree
<1>1. IInv => NoUseAfterFree
  <2> SUFFICES ASSUME IInv, NEW k \in DOMAIN heap, heap[k].freed
               PROVE  heap[k].loop = "ended" /\ Touching(k) = {}
    BY DEF NoUseAfterFree
  <2>0. k \in 1..Len(heap) /\ TypeOK /\ TurnInv /\ PointerInv /\ HeapInv
    BY HeapIs, LenProperties DEF IInv
  <2>1. heap[k].loop = "ended"
    BY <2>0 DEF HeapInv
  <2>2. ASSUME NEW c \in Touching(k) PROVE FALSE
    <3>1. c \in Clients /\ at[c] = k /\ pc[c] \in {"enter", "inside", "stop", "join"}
      BY DEF Touching
    <3>2. pDBContext # 0 /\ k = Len(heap)
      BY <2>0, <3>1 DEF PointerInv
    <3>3. PICK d \in Clients : pc[d] = "reset"
      BY <2>0, <3>2 DEF HeapInv, Somewhere
    <3> QED
      BY <2>0, <3>1, <3>3, Alone
  <2> QED
    BY <2>1, <2>2
<1> QED
  BY <1>1, Invariance, PTL

\* An orderly program never inserts into the map of carriers while another client
\* searches it or mainLoop walks through it.
THEOREM MapIsSafe == Spec => []NoMapRace
<1>1. IInv => NoMapRace
  <2> SUFFICES ASSUME IInv, NEW k \in DOMAIN heap, NEW c \in Walking(k), op[c] = "initialize"
               PROVE  Walking(k) = {c} /\ heap[k].loop # "walking"
    BY DEF NoMapRace
  <2>0. k \in 1..Len(heap) /\ TypeOK /\ TurnInv /\ PointerInv /\ HeapInv /\ QueueInv
    BY HeapIs, LenProperties DEF IInv
  <2>1. c \in Clients /\ pc[c] = "inside"
    BY DEF Walking, Touching
  <2>2. \A d \in Clients : d # c => pc[d] = "idle"
    BY <2>0, <2>1, Alone
  <2>3. Walking(k) = {c}
    BY <2>2 DEF Walking, Touching
  <2>4. heap[k].freed => heap[k].loop = "ended"
    BY <2>0 DEF HeapInv
  <2>5. ~heap[k].freed => heap[k].loop # "walking"
    BY <2>0, <2>1 DEF QueueInv, Busy
  <2> QED
    BY <2>3, <2>4, <2>5
<1> QED
  BY <1>1, Invariance, PTL
=============================================================================
