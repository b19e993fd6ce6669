----------------------------- MODULE FifoQueue -----------------------------
(***************************************************************************)
(* What ConsumerProducerQueue promises its callers: an unbounded first-in  *)
(* first-out queue on which every call takes effect in one instant between *)
(* its invocation and its return, and on which a removal or a peek waits   *)
(* for an element.  No mutex, no condition variable.                       *)
(***************************************************************************)
EXTENDS Sequences

CONSTANTS Threads, Values, NoValue

VARIABLES queue,    \* the elements, oldest first
          status,   \* per thread: "idle", "pending" or "done"
          op,       \* per thread: the operation of its current or last call
          val       \* per thread: the argument of add, or the value returned

vars == <<queue, status, op, val>>

Operations == {"add", "top", "pop", "clear"}

Init ==
    /\ queue = <<>>
    /\ status = [t \in Threads |-> "idle"]
    /\ op = [t \in Threads |-> "clear"]
    /\ val = [t \in Threads |-> NoValue]

Invoke(t, o, v) ==
    /\ status[t] = "idle"
    /\ status' = [status EXCEPT ![t] = "pending"]
    /\ op' = [op EXCEPT ![t] = o]
    /\ val' = [val EXCEPT ![t] = v]
    /\ UNCHANGED queue

\* The call takes effect.
Effect(t) ==
    /\ status[t] = "pending"
    /\ status' = [status EXCEPT ![t] = "done"]
    /\ \/ /\ op[t] = "add"
          /\ queue' = Append(queue, val[t])
          /\ UNCHANGED val
       \/ /\ op[t] = "top"
          /\ queue # <<>>
          /\ val' = [val EXCEPT ![t] = Head(queue)]
          /\ UNCHANGED queue
       \/ /\ op[t] = "pop"
          /\ queue # <<>>
          /\ val' = [val EXCEPT ![t] = Head(queue)]
          /\ queue' = Tail(queue)
       \/ /\ op[t] = "clear"
          /\ queue' = <<>>
          /\ UNCHANGED val
    /\ UNCHANGED op

Return(t) ==
    /\ status[t] = "done"
    /\ status' = [status EXCEPT ![t] = "idle"]
    /\ UNCHANGED <<queue, op, val>>

Next ==
    \E t \in Threads :
        \/ \E o \in Operations, v \in Values \cup {NoValue} : Invoke(t, o, v)
        \/ Effect(t)
        \/ Return(t)

Spec == Init /\ [][Next]_vars
=============================================================================
