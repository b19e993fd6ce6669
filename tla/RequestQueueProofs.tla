------------------------- MODULE RequestQueueProofs -------------------------
(***************************************************************************)
(* Proofs about RequestQueue: its invariants, and that it implements the   *)
(* abstract queue of FifoQueue, for every number of threads and values.    *)
(***************************************************************************)
EXTENDS RequestQueue, SequenceTheorems, TLAPS

\* The argument of an add is a value; TypeOK needs it to be inductive.
AddHasValue == \A t \in Threads : op[t] = "add" => val[t] \in Values

\* The threads between lock and unlock are exactly the mutex's holder.
MutexInv == \A t \in Threads : pc[t] \in {"check", "sleep", "do"} <=> mutex = t

\* A thread about to sleep still has nothing to do.
SleepInv == \A t \in Threads : pc[t] = "sleep" => ~Predicate(op[t])

IInv == /\ TypeOK
        /\ AddHasValue
        /\ MutexInv
        /\ PredicateStillHolds
        /\ SleepInv
        /\ NoLostWakeup

\* What one step of one thread is.
Step(t) == \/ \E o \in Operations, v \in Values \cup {NoValue} : Call(t, o, v)
           \/ Acquire(t)
           \/ Check(t)
           \/ Sleep(t)
           \/ Do(t)
           \/ Notify(t)
           \/ SpuriousWakeup(t)

\* Each step is a step of one thread.
LEMMA NextIsStep == Next <=> \E t \in Threads : Step(t)
  BY DEF Next, Step

-----------------------------------------------------------------------------
\* Type correctness is inductive together with the argument of add being a
\* value and with the queue being non-empty when top or pop takes its head.
LEMMA TypeStep ==
  ASSUME TypeOK, AddHasValue, PredicateStillHolds, [Next]_vars
  PROVE  TypeOK' /\ AddHasValue'
<1> USE QueueAssumption DEF TypeOK, AddHasValue, Operations
<1>1. ASSUME NEW t \in Threads, NEW o \in Operations,
             NEW v \in Values \cup {NoValue}, Call(t, o, v)
      PROVE  TypeOK' /\ AddHasValue'
  BY <1>1 DEF Call
<1>2. ASSUME NEW t \in Threads, Acquire(t) \/ Check(t) \/ Sleep(t) \/ SpuriousWakeup(t)
      PROVE  TypeOK' /\ AddHasValue'
  BY <1>2 DEF Acquire, Check, Sleep, SpuriousWakeup
<1>3. ASSUME NEW t \in Threads, Notify(t)
      PROVE  TypeOK' /\ AddHasValue'
  BY <1>3 DEF Notify
<1>4. ASSUME NEW t \in Threads, Do(t)
      PROVE  TypeOK' /\ AddHasValue'
  <2>1. CASE op[t] = "add"
    BY <1>4, <2>1 DEF Do
  <2>2. CASE op[t] \in {"top", "pop"}
    <3>1. cpq # <<>>
      BY <1>4, <2>2 DEF Do, PredicateStillHolds, Predicate, isEmpty
    <3>2. Head(cpq) \in Values /\ Tail(cpq) \in Seq(Values)
      BY <3>1, HeadTailProperties
    <3>3. cpq' \in Seq(Values) /\ val' = [val EXCEPT ![t] = Head(cpq)]
      BY <1>4, <2>2, <3>2 DEF Do
    <3> QED
      BY <1>4, <3>2, <3>3 DEF Do
  <2>3. CASE op[t] = "clear"
    BY <1>4, <2>3 DEF Do
  <2> QED
    BY <2>1, <2>2, <2>3
<1>5. CASE UNCHANGED vars
  BY <1>5 DEF vars
<1>6. QED
  BY <1>1, <1>2, <1>3, <1>4, <1>5, NextIsStep DEF Step

\* The critical sections exclude each other.
LEMMA MutexStep ==
  ASSUME TypeOK, MutexInv, [Next]_vars
  PROVE  MutexInv'
<1> USE QueueAssumption DEF TypeOK, MutexInv
<1>1. ASSUME NEW t \in Threads, NEW o \in Operations,
             NEW v \in Values \cup {NoValue}, Call(t, o, v)
      PROVE  MutexInv'
  BY <1>1 DEF Call
<1>2. ASSUME NEW t \in Threads, Acquire(t) \/ Check(t) \/ Sleep(t) \/ SpuriousWakeup(t)
      PROVE  MutexInv'
  BY <1>2 DEF Acquire, Check, Sleep, SpuriousWakeup
<1>3. ASSUME NEW t \in Threads, Do(t) \/ Notify(t)
      PROVE  MutexInv'
  BY <1>3 DEF Do, Notify
<1>4. CASE UNCHANGED vars
  BY <1>4 DEF vars
<1>5. QED
  BY <1>1, <1>2, <1>3, <1>4, NextIsStep DEF Step

\* Only the holder of the mutex changes the queue, so what a thread has seen
\* under the mutex stays true until it acts on it or falls asleep.
LEMMA PredicateStep ==
  ASSUME TypeOK, MutexInv, PredicateStillHolds, SleepInv, [Next]_vars
  PROVE  PredicateStillHolds' /\ SleepInv'
<1> USE DEF TypeOK, PredicateStillHolds, SleepInv, Predicate, isEmpty, isFull
<1>1. ASSUME NEW t \in Threads, NEW o \in Operations,
             NEW v \in Values \cup {NoValue}, Call(t, o, v)
      PROVE  PredicateStillHolds' /\ SleepInv'
  BY <1>1 DEF Call
<1>2. ASSUME NEW t \in Threads, Acquire(t) \/ Check(t) \/ Sleep(t) \/ SpuriousWakeup(t)
      PROVE  PredicateStillHolds' /\ SleepInv'
  BY <1>2 DEF Acquire, Check, Sleep, SpuriousWakeup
<1>3. ASSUME NEW t \in Threads, Do(t)
      PROVE  PredicateStillHolds' /\ SleepInv'
  <2>1. \A u \in Threads : u # t => pc[u] \notin {"do", "sleep"}
    BY <1>3 DEF Do, MutexInv
  <2>2. \A u \in Threads : pc'[u] \notin {"do", "sleep"}
    BY <1>3, <2>1 DEF Do
  <2> QED
    BY <2>2
<1>4. ASSUME NEW t \in Threads, Notify(t)
      PROVE  PredicateStillHolds' /\ SleepInv'
  BY <1>4 DEF Notify
<1>5. CASE UNCHANGED vars
  BY <1>5 DEF vars
<1>6. QED
  BY <1>1, <1>2, <1>3, <1>4, <1>5, NextIsStep DEF Step

\* A sleeper whose predicate becomes true has a notification coming: the
\* thread that made it true is at notify_all, and its notify_all wakes all.
LEMMA WakeupStep ==
  ASSUME TypeOK, SleepInv, NoLostWakeup, [Next]_vars
  PROVE  NoLostWakeup'
<1> USE DEF TypeOK, NoLostWakeup, Predicate, isEmpty, isFull
<1>1. ASSUME NEW t \in Threads, NEW o \in Operations,
             NEW v \in Values \cup {NoValue}, Call(t, o, v)
      PROVE  NoLostWakeup'
  BY <1>1 DEF Call
<1>2. ASSUME NEW t \in Threads, Acquire(t) \/ Check(t) \/ SpuriousWakeup(t)
      PROVE  NoLostWakeup'
  BY <1>2 DEF Acquire, Check, SpuriousWakeup
<1>3. ASSUME NEW t \in Threads, Sleep(t)
      PROVE  NoLostWakeup'
  BY <1>3 DEF Sleep, SleepInv
<1>4. ASSUME NEW t \in Threads, Do(t)
      PROVE  NoLostWakeup'
  <2>1. pc'[t] = "notify"
    BY <1>4 DEF Do
  <2> QED
    BY <2>1
<1>5. ASSUME NEW t \in Threads, Notify(t)
      PROVE  NoLostWakeup'
  <2>1. \A u \in Threads : pc'[u] # "blocked"
    BY <1>5 DEF Notify
  <2> QED
    BY <2>1
<1>6. CASE UNCHANGED vars
  BY <1>6 DEF vars
<1>7. QED
  BY <1>1, <1>2, <1>3, <1>4, <1>5, <1>6, NextIsStep DEF Step

-----------------------------------------------------------------------------
\* The inductive invariant holds in every reachable state.
LEMMA Invariance == Spec => []IInv
<1>1. Init => IInv
  BY QueueAssumption
     DEF Init, IInv, TypeOK, AddHasValue, MutexInv, PredicateStillHolds,
         SleepInv, NoLostWakeup, Operations
<1>2. IInv /\ [Next]_vars => IInv'
  BY TypeStep, MutexStep, PredicateStep, WakeupStep DEF IInv
<1>3. QED
  BY <1>1, <1>2, PTL DEF Spec

\* The queue's variables keep their types, whatever the threads do.
THEOREM TypeCorrect == Spec => []TypeOK
<1>1. IInv => TypeOK
  BY DEF IInv
<1>2. QED
  BY <1>1, Invariance, PTL

\* front() and pop() are never called on an empty std::queue.
THEOREM NeverPopsEmpty == Spec => []PredicateStillHolds
<1>1. IInv => PredicateStillHolds
  BY DEF IInv
<1>2. QED
  BY <1>1, Invariance, PTL

\* No thread sleeps on a true predicate without a notification on its way.
THEOREM WakeupsAreNotLost == Spec => []NoLostWakeup
<1>1. IInv => NoLostWakeup
  BY DEF IInv
<1>2. QED
  BY <1>1, Invariance, PTL

-----------------------------------------------------------------------------
\* A thread inside an operation is one that may call it.
CallersInv == \A t \in Threads : pc[t] # "idle" => MayCall(t, op[t])

\* Each step keeps every thread inside an operation that it may call.
LEMMA CallersStep ==
  ASSUME TypeOK, CallersInv, [Next]_vars
  PROVE  CallersInv'
<1> USE DEF TypeOK, CallersInv, MayCall
<1>1. ASSUME NEW t \in Threads, NEW o \in Operations,
             NEW v \in Values \cup {NoValue}, Call(t, o, v)
      PROVE  CallersInv'
  BY <1>1 DEF Call
<1>2. ASSUME NEW t \in Threads, Acquire(t) \/ Check(t) \/ Sleep(t) \/ SpuriousWakeup(t)
      PROVE  CallersInv'
  BY <1>2 DEF Acquire, Check, Sleep, SpuriousWakeup
<1>3. ASSUME NEW t \in Threads, Do(t) \/ Notify(t)
      PROVE  CallersInv'
  BY <1>3 DEF Do, Notify
<1>4. CASE UNCHANGED vars
  BY <1>4 DEF vars
<1>5. QED
  BY <1>1, <1>2, <1>3, <1>4, NextIsStep DEF Step

\* Other threads only append, which leaves the head where it is.
LEMMA PeekStep ==
  ASSUME TypeOK, AddHasValue, PredicateStillHolds, CallersInv, PeekedIsPopped, [Next]_vars
  PROVE  PeekedIsPopped'
<1> SUFFICES ASSUME NEW t \in Threads, Consumers = {t}, Clearers = {},
                    op'[t] = "top", pc'[t] \in {"notify", "idle"}
             PROVE  cpq' # <<>> /\ Head(cpq') = val'[t]
  BY DEF PeekedIsPopped
<1> DEFINE Peeked == op[t] = "top" /\ pc[t] \in {"notify", "idle"}
<1>1. Peeked => cpq # <<>> /\ Head(cpq) = val[t]
  BY DEF PeekedIsPopped
<1>2. ASSUME NEW u \in Threads, NEW o \in Operations,
             NEW v \in Values \cup {NoValue}, Call(u, o, v)
      PROVE  cpq' # <<>> /\ Head(cpq') = val'[t]
  BY <1>1, <1>2 DEF Call, TypeOK
<1>3. ASSUME NEW u \in Threads, Acquire(u) \/ Check(u) \/ Sleep(u) \/ SpuriousWakeup(u)
      PROVE  cpq' # <<>> /\ Head(cpq') = val'[t]
  BY <1>1, <1>3 DEF Acquire, Check, Sleep, SpuriousWakeup, TypeOK
<1>4. ASSUME NEW u \in Threads, Notify(u)
      PROVE  cpq' # <<>> /\ Head(cpq') = val'[t]
  BY <1>1, <1>4 DEF Notify, TypeOK
<1>5. ASSUME NEW u \in Threads, Do(u)
      PROVE  cpq' # <<>> /\ Head(cpq') = val'[t]
  <2>1. CASE u = t
    <3>1. op[t] = "top" /\ cpq # <<>>
      BY <1>5, <2>1 DEF Do, TypeOK, PredicateStillHolds, Predicate, isEmpty
    <3> QED
      BY <1>5, <2>1, <3>1 DEF Do, TypeOK
  <2>2. CASE u # t
    <3>1. op[u] = "add"
      BY <1>5, <2>2 DEF Do, TypeOK, CallersInv, MayCall, Operations
    <3>2. cpq' = Append(cpq, val[u]) /\ val' = val /\ val[u] \in Values
      BY <1>5, <3>1 DEF Do, AddHasValue
    <3>3. Peeked
      BY <1>5, <2>2, <3>2 DEF Do, TypeOK
    <3>4. cpq \in Seq(Values)
      BY DEF TypeOK
    <3> QED
      BY <1>1, <3>2, <3>3, <3>4
  <2> QED
    BY <2>1, <2>2
<1>6. CASE UNCHANGED vars
  BY <1>1, <1>6 DEF vars
<1>7. QED
  BY <1>2, <1>3, <1>4, <1>5, <1>6, NextIsStep DEF Step

\* A sole consumer pops what it has peeked at, whatever the producers do
\* meanwhile: mainLoop may drop the value pop() returns.
THEOREM PeekIsStable == Spec => []PeekedIsPopped
<1> DEFINE PInv == CallersInv /\ PeekedIsPopped
<1>1. Init => PInv
  BY DEF Init, CallersInv, PeekedIsPopped
<1>2. IInv /\ PInv /\ [Next]_vars => PInv'
  BY CallersStep, PeekStep DEF IInv
<1>3. PInv => PeekedIsPopped
  OBVIOUS
<1>4. QED
  BY <1>1, <1>2, <1>3, Invariance, PTL DEF Spec

-----------------------------------------------------------------------------
\* The refinement mapping: what FifoQueue takes for the status of a thread.
Status(t) == CASE pc[t] = "idle" -> "idle"
               [] pc[t] = "notify" -> "done"
               [] OTHER -> "pending"

status == [t \in Threads |-> Status(t)]

PCs == {"idle", "lock", "check", "sleep", "blocked", "do", "notify"}

\* A step that moves one thread's pc moves one thread's status.
LEMMA StatusStep ==
  ASSUME NEW t \in Threads, pc \in [Threads -> PCs],
         NEW p \in PCs, pc' = [pc EXCEPT ![t] = p]
  PROVE  status' = [status EXCEPT ![t] = CASE p = "idle" -> "idle"
                                           [] p = "notify" -> "done"
                                           [] OTHER -> "pending"]
  BY DEF status, Status

\* Every step of the detailed queue is a step of the abstract one or a stutter.
LEMMA RefinementStep ==
  ASSUME TypeOK, PredicateStillHolds, [Next]_vars
  PROVE  [Fifo!Next]_(Fifo!vars)
<1> USE DEF TypeOK
<1>0. pc \in [Threads -> PCs]
  BY DEF PCs
<1>1. ASSUME NEW t \in Threads, NEW o \in Operations,
             NEW v \in Values \cup {NoValue}, Call(t, o, v)
      PROVE  Fifo!Next
  <2>1. status' = [status EXCEPT ![t] = "pending"] /\ status[t] = "idle"
    BY <1>0, <1>1, StatusStep DEF Call, status, Status, PCs
  <2>2. Fifo!Invoke(t, o, v)
    BY <1>1, <2>1 DEF Call, Fifo!Invoke, status, Status
  <2> QED
    BY <2>2 DEF Fifo!Next, Fifo!Operations, Operations
<1>2. ASSUME NEW t \in Threads, Acquire(t) \/ Check(t) \/ Sleep(t) \/ SpuriousWakeup(t)
      PROVE  UNCHANGED Fifo!vars
  <2>1. status' = status
    BY <1>2 DEF Acquire, Check, Sleep, SpuriousWakeup, status, Status
  <2> QED
    BY <1>2, <2>1 DEF Acquire, Check, Sleep, SpuriousWakeup, Fifo!vars, status, Status
<1>3. ASSUME NEW t \in Threads, Do(t)
      PROVE  Fifo!Next
  <2>1. status' = [status EXCEPT ![t] = "done"] /\ status[t] = "pending"
    BY <1>0, <1>3, StatusStep DEF Do, status, Status, PCs
  <2>2. op[t] \in {"top", "pop"} => cpq # <<>>
    BY <1>3 DEF Do, PredicateStillHolds, Predicate, isEmpty
  <2>3. Fifo!Effect(t)
    BY <1>3, <2>1, <2>2 DEF Do, Fifo!Effect, status, Status
  <2> QED
    BY <2>3 DEF Fifo!Next
<1>4. ASSUME NEW t \in Threads, Notify(t)
      PROVE  Fifo!Next
  <2>1. status' = [status EXCEPT ![t] = "idle"] /\ status[t] = "done"
    BY <1>4 DEF Notify, status, Status
  <2>2. Fifo!Return(t)
    BY <1>4, <2>1 DEF Notify, Fifo!Return, status, Status
  <2> QED
    BY <2>2 DEF Fifo!Next
<1>5. CASE UNCHANGED vars
  BY <1>5 DEF vars, Fifo!vars
<1>6. QED
  BY <1>1, <1>2, <1>3, <1>4, <1>5, NextIsStep DEF Step

\* ConsumerProducerQueue is a linearizable FIFO queue: with mutex, condition
\* variable and program counters hidden, its calls take effect one by one, each
\* between its invocation and its return, on an abstract queue.
THEOREM Implements == Spec => FifoSpec
<1>1. Init => Fifo!Init
  BY DEF Init, Fifo!Init
<1>2. IInv /\ [Next]_vars => [Fifo!Next]_(Fifo!vars)
  BY RefinementStep DEF IInv
<1>3. QED
  BY <1>1, <1>2, Invariance, PTL DEF Spec, FifoSpec, Fifo!Spec
=============================================================================
