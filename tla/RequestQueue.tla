---------------------------- MODULE RequestQueue ----------------------------
(***************************************************************************)
(* ConsumerProducerQueue<T> of src/Queue.hh: a std::queue guarded by one   *)
(* mutex and one condition variable.  Every operation locks the mutex,     *)
(* evaluates its wait predicate (releasing the mutex and sleeping while it *)
(* is false), does its work, unlocks and then notifies all.  The steps of  *)
(* the threads between these points interleave.                            *)
(*                                                                         *)
(* pc[t]: "idle"     outside the queue                                     *)
(*        "lock"     about to (re)acquire the mutex                        *)
(*        "check"    holds the mutex, about to evaluate the predicate      *)
(*        "sleep"    holds the mutex, the predicate was false              *)
(*        "blocked"  asleep in cond.wait, mutex released                   *)
(*        "do"       holds the mutex, the predicate was true               *)
(*        "notify"   has unlocked, about to call cond.notify_all           *)
(*                                                                         *)
(* A definition whose comment starts with "Bug:" is no part of the model:  *)
(* it is a mutated form of the definition after it.                        *)
(***************************************************************************)
EXTENDS Naturals, Sequences, FiniteSets

CONSTANTS Producers,    \* threads that call add
          Consumers,    \* threads that call top and pop
          Clearers,     \* threads that call clear
          Values,       \* what is queued
          NoValue,      \* the value of a call that has none
          Free,         \* the mutex has no holder
          MaxLen        \* bound: add is not called beyond this many elements

Threads == Producers \cup Consumers \cup Clearers

ASSUME QueueAssumption ==
    /\ NoValue \notin Values
    /\ Free \notin Threads
    /\ MaxLen \in Nat \ {0}
    /\ IsFiniteSet(Threads)

VARIABLES cpq,      \* the std::queue, oldest first
          mutex,    \* the holder of the mutex, or Free
          pc,
          op,       \* per thread: the operation of its current or last call
          val       \* per thread: the argument of add, or the value returned

vars == <<cpq, mutex, pc, op, val>>

isEmpty == cpq = <<>>
isFull == FALSE

Operations == {"add", "top", "pop", "clear"}
MayCall(t, o) == /\ o = "add" => t \in Producers
                 /\ o \in {"top", "pop"} => t \in Consumers
                 /\ o = "clear" => t \in Clearers

\* The predicate an operation waits for; clear does not wait.
Predicate(o) == /\ o = "add" => ~isFull
                /\ o \in {"top", "pop"} => ~isEmpty

Init ==
    /\ cpq = <<>>
    /\ mutex = Free
    /\ pc = [t \in Threads |-> "idle"]
    /\ op = [t \in Threads |-> "clear"]
    /\ val = [t \in Threads |-> NoValue]

PendingAdds == {t \in Threads : op[t] = "add" /\ pc[t] \notin {"idle", "notify"}}

\* Bug: add queues a default-constructed element instead of its argument.
CallDropsArgument(t, o, v) ==
    /\ pc[t] = "idle"
    /\ MayCall(t, o)
    /\ v = NoValue
    /\ o = "add" => Len(cpq) + Cardinality(PendingAdds) < MaxLen
    /\ pc' = [pc EXCEPT ![t] = "lock"]
    /\ op' = [op EXCEPT ![t] = o]
    /\ val' = [val EXCEPT ![t] = v]
    /\ UNCHANGED <<cpq, mutex>>

\* A thread calls an operation.
Call(t, o, v) ==
    /\ pc[t] = "idle"
    /\ MayCall(t, o)
    /\ v \in (IF o = "add" THEN Values ELSE {NoValue})
    /\ o = "add" => Len(cpq) + Cardinality(PendingAdds) < MaxLen
    /\ pc' = [pc EXCEPT ![t] = "lock"]
    /\ op' = [op EXCEPT ![t] = o]
    /\ val' = [val EXCEPT ![t] = v]
    /\ UNCHANGED <<cpq, mutex>>

\* Bug: the operation does not lock the mutex.
AcquireNothing(t) ==
    /\ pc[t] = "lock"
    /\ pc' = [pc EXCEPT ![t] = "check"]
    /\ UNCHANGED <<cpq, mutex, op, val>>

\* std::unique_lock's constructor, or the reacquisition inside cond.wait.
Acquire(t) ==
    /\ pc[t] = "lock"
    /\ mutex = Free
    /\ mutex' = t
    /\ pc' = [pc EXCEPT ![t] = "check"]
    /\ UNCHANGED <<cpq, op, val>>

\* cond.wait evaluates its predicate.
Check(t) ==
    /\ pc[t] = "check"
    /\ \/ Predicate(op[t]) /\ pc' = [pc EXCEPT ![t] = "do"]
       \/ ~Predicate(op[t]) /\ pc' = [pc EXCEPT ![t] = "sleep"]
    /\ UNCHANGED <<cpq, mutex, op, val>>

\* It was false: cond.wait releases the mutex and goes to sleep in one step.
Sleep(t) ==
    /\ pc[t] = "sleep"
    /\ pc' = [pc EXCEPT ![t] = "blocked"]
    /\ mutex' = Free
    /\ UNCHANGED <<cpq, op, val>>

\* Bug: add pushes at the front.
DoAddingInFront(t) ==
    /\ pc[t] = "do"
    /\ \/ op[t] = "add" /\ cpq' = <<val[t]>> \o cpq /\ UNCHANGED val
       \/ op[t] = "top" /\ val' = [val EXCEPT ![t] = Head(cpq)] /\ UNCHANGED cpq
       \/ op[t] = "pop" /\ val' = [val EXCEPT ![t] = Head(cpq)] /\ cpq' = Tail(cpq)
       \/ op[t] = "clear" /\ cpq' = <<>> /\ UNCHANGED val
    /\ mutex' = Free
    /\ pc' = [pc EXCEPT ![t] = "notify"]
    /\ UNCHANGED op

\* Bug: top removes what it returns.
DoTopRemoving(t) ==
    /\ pc[t] = "do"
    /\ \/ op[t] = "add" /\ cpq' = Append(cpq, val[t]) /\ UNCHANGED val
       \/ op[t] \in {"top", "pop"} /\ val' = [val EXCEPT ![t] = Head(cpq)] /\ cpq' = Tail(cpq)
       \/ op[t] = "clear" /\ cpq' = <<>> /\ UNCHANGED val
    /\ mutex' = Free
    /\ pc' = [pc EXCEPT ![t] = "notify"]
    /\ UNCHANGED op

\* The body of the operation, up to and including lock.unlock().
Do(t) ==
    /\ pc[t] = "do"
    /\ \/ /\ op[t] = "add"
          /\ cpq' = Append(cpq, val[t])
          /\ UNCHANGED val
       \/ /\ op[t] = "top"
          /\ val' = [val EXCEPT ![t] = Head(cpq)]
          /\ UNCHANGED cpq
       \/ /\ op[t] = "pop"
          /\ val' = [val EXCEPT ![t] = Head(cpq)]
          /\ cpq' = Tail(cpq)
       \/ /\ op[t] = "clear"
          /\ cpq' = <<>>
          /\ UNCHANGED val
    /\ mutex' = Free
    /\ pc' = [pc EXCEPT ![t] = "notify"]
    /\ UNCHANGED op

\* Bug: notify_one instead of notify_all.
NotifyOne(t) ==
    /\ pc[t] = "notify"
    /\ LET asleep == {u \in Threads : pc[u] = "blocked"} IN
       \/ asleep = {} /\ pc' = [pc EXCEPT ![t] = "idle"]
       \/ \E u \in asleep : pc' = [pc EXCEPT ![t] = "idle", ![u] = "lock"]
    /\ UNCHANGED <<cpq, mutex, op, val>>

\* Bug: no notification at all.
NotifyNobody(t) ==
    /\ pc[t] = "notify"
    /\ pc' = [pc EXCEPT ![t] = "idle"]
    /\ UNCHANGED <<cpq, mutex, op, val>>

\* cond.notify_all() and the return to the caller.
Notify(t) ==
    /\ pc[t] = "notify"
    /\ pc' = [u \in Threads |-> IF u = t THEN "idle"
                                ELSE IF pc[u] = "blocked" THEN "lock" ELSE pc[u]]
    /\ UNCHANGED <<cpq, mutex, op, val>>

\* A condition variable may wake a thread that nobody notified.
SpuriousWakeup(t) ==
    /\ pc[t] = "blocked"
    /\ pc' = [pc EXCEPT ![t] = "lock"]
    /\ UNCHANGED <<cpq, mutex, op, val>>

Next ==
    \E t \in Threads :
        \/ \E o \in Operations, v \in Values \cup {NoValue} : Call(t, o, v)
        \/ Acquire(t)
        \/ Check(t)
        \/ Sleep(t)
        \/ Do(t)
        \/ Notify(t)
        \/ SpuriousWakeup(t)

Spec == Init /\ [][Next]_vars

\* A thread inside an operation keeps running; a thread that keeps finding
\* the mutex free gets it in the end.  Calls and spurious wakeups are free.
Fairness ==
    \A t \in Threads :
        /\ SF_vars(Acquire(t))
        /\ WF_vars(Check(t) \/ Sleep(t) \/ Do(t) \/ Notify(t))

FairSpec == Spec /\ Fairness
-----------------------------------------------------------------------------
\* The variables stay in their types.
TypeOK ==
    /\ cpq \in Seq(Values)
    /\ mutex \in Threads \cup {Free}
    /\ pc \in [Threads -> {"idle", "lock", "check", "sleep", "blocked", "do", "notify"}]
    /\ op \in [Threads -> Operations]
    /\ val \in [Threads -> Values \cup {NoValue}]

\* The predicate a thread saw true is still true when it acts on it: front()
\* and pop() are never called on an empty std::queue (which is undefined),
\* however many consumers compete for the last element and whoever clears.
PredicateStillHolds ==
    \A t \in Threads : pc[t] = "do" => Predicate(op[t])

\* No lost wakeup: whenever a thread sleeps although what it waits for is
\* there, some thread that has already changed the queue has still to call
\* notify_all.
NoLostWakeup ==
    \A t \in Threads :
        pc[t] = "blocked" /\ Predicate(op[t]) => \E u \in Threads : pc[u] = "notify"

\* What top() showed is what the next pop() removes, as long as one thread does
\* all the removing.  mainLoop depends on it: it works on the request top()
\* returned and then discards the one pop() returns.
PeekedIsPopped ==
    \A t \in Threads :
        /\ Consumers = {t}
        /\ Clearers = {}
        /\ op[t] = "top"
        /\ pc[t] \in {"notify", "idle"}
        => cpq # <<>> /\ Head(cpq) = val[t]

\* The detailed queue implements the abstract one: a call is pending until its
\* body has run, done until it has notified.
Fifo == INSTANCE FifoQueue WITH
            queue <- cpq,
            status <- [t \in Threads |-> CASE pc[t] = "idle" -> "idle"
                                           [] pc[t] = "notify" -> "done"
                                           [] OTHER -> "pending"]
FifoSpec == Fifo!Spec

\* A sole consumer waiting for a request that is there gets it.
WaitingConsumerServed ==
    \A t \in Consumers :
        (pc[t] = "blocked" /\ ~isEmpty) ~> pc[t] = "notify"
=============================================================================
