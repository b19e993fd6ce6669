----------------------- MODULE DatabaseContextProofs -----------------------
(***************************************************************************)
(* Proofs about DatabaseContext, for any number of clients, carriers and   *)
(* jobs.  The idea: job ids are drawn and pushed under wait_mutex, so the  *)
(* queue holds consecutive ids, the last of which is the last one pushed;  *)
(* everything below them has been applied and nothing else has.            *)
(***************************************************************************)
EXTENDS DatabaseContext, SequenceTheorems, TLAPS

\* The last job id whose request has been pushed.
Pushing == \E c \in Clients : pc[c] = "push"
Pushed == IF Pushing THEN total_jobs - 1 ELSE total_jobs

\* The last job id whose request has been popped.
Popped == Pushed - Len(requestQueue)

\* wait_mutex and run_lock are held exactly where the code holds them.
LockInv ==
    /\ \A c \in Clients : pc[c] \in {"push", "check", "sleep"} <=> wait_mutex = c
    /\ mainpc = "notify" <=> wait_mutex = MainLoop
    /\ run_lock = MainLoop <=> mainpc \notin {"none", "start", "ended"}

\* The queue holds the job ids Popped + 1 .. Pushed, and the one being pushed
\* is the next.
QueueInv ==
    /\ Popped \in Nat
    /\ \A i \in 1..Len(requestQueue) : requestQueue[i].jobid = Popped + i
    /\ \A c \in Clients : pc[c] = "push" => req[c].jobid = total_jobs

\* The request mainLoop works on is the one it will pop, then the one it popped.
RequestInv ==
    /\ mainpc \in {"switch", "popping"} =>
           requestQueue # <<>> /\ request = Head(requestQueue)
    /\ mainpc \in {"finish", "lock", "notify"} => request.jobid = Popped

\* What has been applied, and what is reported of it.
AppliedInv ==
    /\ applied = 1..(IF mainpc = "popping" THEN Popped + 1 ELSE Popped)
    /\ finished_jobid <= Popped
    /\ \A c \in Clients : seen[c] <= finished_jobid

\* Without torn reads a client that waited has nothing left in the queue.
WaitedInv ==
    /\ \A c \in Clients : job[c] <= total_jobs
    /\ ~TornRead => \A c \in Clients : pc[c] \in {"waited", "asked"} => job[c] <= Popped

\* A STOP request is the last one of its context, and Owner alone is inside.
StopInv ==
    /\ \A c \in Clients : pc[c] = "join" => c = Owner
    /\ \A c \in Clients : pc[c] = "push" /\ req[c].type = "STOP" => c = Owner
    /\ Closing => pDBContext /\ \A c \in Clients \ {Owner} : pc[c] \in Outside
    /\ \A i \in 1..Len(requestQueue) : requestQueue[i].type = "STOP" =>
           i = Len(requestQueue) /\ (pDBContext => pc[Owner] = "join")
    /\ mainpc \in {"finish", "lock", "notify"} /\ request.type = "STOP" =>
           requestQueue = <<>> /\ pc[Owner] = "join"
    /\ mainpc \in {"none", "ended"} => requestQueue = <<>>
    /\ mainpc = "none" => ~pDBContext
    /\ mainpc \notin {"none", "start", "ended"} => pDBContext
    /\ mainpc = "ended" /\ pDBContext => pc[Owner] = "join"
    /\ ~pDBContext => \A c \in Clients : pc[c] \in Outside

\* Before mainLoop runs, a client that waited in vain has uploaded nothing: it
\* may not delete the context yet.
StartInv ==
    WaitBeforeDelete /\ mainpc = "start" =>
        /\ pDBContext
        /\ ~Closing
        /\ requestQueue = <<>> => \A c \in Clients : pc[c] # "push" => job[c] = 0
        /\ \A c \in Clients : pc[c] \in {"waited", "asked"} => job[c] = 0

IInv == /\ TypeOK
        /\ LockInv
        /\ QueueInv
        /\ RequestInv
        /\ AppliedInv
        /\ WaitedInv
        /\ StopInv
        /\ StartInv
        /\ NoLostNotify

-----------------------------------------------------------------------------
\* The steps that draw a job id, and the request they make.
Draw(c) == /\ MayCall(c)
           /\ \E type \in RequestType, cr \in Carriers \cup {NoCarrier} :
                 /\ DrawJobid(c, type, cr)
                 /\ type = "GPS" => cr = NoCarrier
                 /\ type = "STOP" => /\ c = Owner
                                     /\ \A d \in Clients : pc[d] \in Outside
                                     /\ WaitBeforeDelete =>
                                           pc[c] \in {"waited", "asked"} /\ job[c] # 0

\* The other steps of a client: they change at most where it is, who holds
\* wait_mutex and what GetFinishedJobid() returned.
Waiting(c) == \/ Wait(c) \/ CheckEmpty(c) \/ CheckNotEmpty(c) \/ Sleep(c)
              \/ SpuriousWakeup(c) \/ Reacquire(c) \/ GetFinishedJobid(c)

\* mainLoop applies a request to one carrier.
Process(cr) == ProcessGPS(cr) \/ ProcessCell(cr)

\* The steps of a context, grouped by what they change.
LEMMA StepCases ==
  ASSUME [Next]_vars
  PROVE  \/ GetDatabaseContext
         \/ \E cr \in Carriers : Initialize(cr)
         \/ \E c \in Clients : Draw(c)
         \/ \E c \in Clients : Push(c)
         \/ Destroy
         \/ \E c \in Clients : Waiting(c)
         \/ MainStart \/ Top
         \/ \E cr \in Carriers : Process(cr)
         \/ BeginPop \/ Pop \/ Finish \/ LockWait \/ Notify
         \/ UNCHANGED vars
<1>1. ASSUME NEW c \in Clients, UpdateGPS(c) PROVE Draw(c)
  BY <1>1 DEF UpdateGPS, Draw, RequestType
<1>2. ASSUME NEW c \in Clients, NEW cr \in Carriers, UpdateCellID(c, cr) PROVE Draw(c)
  BY <1>2 DEF UpdateCellID, Draw, RequestType
<1>3. ASSUME DeleteDatabaseContext PROVE Draw(Owner)
  BY <1>3 DEF DeleteDatabaseContext, Draw, RequestType
<1>4. Owner \in Clients
  BY ContextAssumption
<1>5. QED
  BY <1>1, <1>2, <1>3, <1>4
     DEF Next, OwnerNext, ClientNext, MainNext, Exit, Waiting, Process

\* Each step keeps the types.
LEMMA TypeStep ==
  ASSUME TypeOK, RequestInv, [Next]_vars
  PROVE  TypeOK'
<1> USE ContextAssumption DEF TypeOK, UpdateRequest, RequestType, Outside
<1> USE DEF mainVars, clientVars, lockVars, history
<1>1. CASE GetDatabaseContext
  BY <1>1, SMTT(30) DEF GetDatabaseContext, NewEnv
<1>2. ASSUME NEW cr \in Carriers, Initialize(cr) PROVE TypeOK'
  BY <1>2 DEF Initialize, NewEnv
<1>3. ASSUME NEW c \in Clients, Draw(c) PROVE TypeOK'
  <2>1. PICK type \in RequestType, cr \in Carriers \cup {NoCarrier} :
             DrawJobid(c, type, cr)
    BY <1>3 DEF Draw
  <2>2. [type |-> type, carrier |-> cr, jobid |-> total_jobs + 1] \in UpdateRequest
    OBVIOUS
  <2>3. pc' \in [Clients -> Outside \cup {"push", "join", "check", "sleep", "blocked", "woken"}]
    BY <2>1 DEF DrawJobid
  <2>4. req' \in [Clients -> UpdateRequest] /\ job' \in [Clients -> Nat]
    BY <2>1, <2>2 DEF DrawJobid
  <2> QED
    BY <2>1, <2>3, <2>4 DEF DrawJobid
<1>4. ASSUME NEW c \in Clients, Push(c) PROVE TypeOK'
  <2>1. req[c] \in UpdateRequest
    OBVIOUS
  <2>2. requestQueue' \in Seq(UpdateRequest) /\ log' \in Seq(UpdateRequest)
    BY <1>4, <2>1, AppendProperties DEF Push
  <2>3. pc' \in [Clients -> Outside \cup {"push", "join", "check", "sleep", "blocked", "woken"}]
    BY <1>4 DEF Push
  <2> QED
    BY <1>4, <2>2, <2>3 DEF Push
<1>5. CASE Destroy
  BY <1>5 DEF Destroy
<1>6. ASSUME NEW c \in Clients, Waiting(c) PROVE TypeOK'
  <2>1. CASE GetFinishedJobid(c)
    BY <2>1 DEF GetFinishedJobid, ClientStep
  <2>2. CASE Wait(c)
    <3>1. seen' \in [Clients -> Nat] /\ wait_mutex' = c
      BY <2>2 DEF Wait
    <3>2. pc' \in [Clients -> Outside \cup {"push", "join", "check", "sleep", "blocked", "woken"}]
      BY <2>2 DEF Wait
    <3> QED
      BY <2>2, <3>1, <3>2 DEF Wait, ClientStep
  <2>3. CASE CheckEmpty(c) \/ CheckNotEmpty(c)
    BY <2>3 DEF CheckEmpty, CheckNotEmpty, Goto, ClientStep
  <2>4. CASE Sleep(c) \/ SpuriousWakeup(c) \/ Reacquire(c)
    BY <2>4 DEF Sleep, SpuriousWakeup, Reacquire, Goto, ClientStep
  <2> QED
    BY <1>6, <2>1, <2>2, <2>3, <2>4 DEF Waiting
<1>7. CASE MainStart \/ Finish \/ LockWait
  BY <1>7 DEF MainStart, Finish, LockWait
<1>8. CASE Top
  <2>1. Head(requestQueue) \in UpdateRequest
    BY <1>8, HeadTailProperties DEF Top
  <2>2. request' \in UpdateRequest /\ todo' \subseteq Carriers
    BY <1>8, <2>1 DEF Top, Targets
  <2> QED
    BY <1>8, <2>2 DEF Top
<1>9. ASSUME NEW cr \in Carriers, Process(cr) PROVE TypeOK'
  <2> DEFINE Env == [current_cell : Nat, prev_location : Nat,
                     prediction : [cell : Nat, from : Nat, at : Nat]]
  <2>1. request.jobid \in Nat /\ env[cr] \in Env
    OBVIOUS
  <2>2. env' \in [Carriers -> Env]
    <3>1. CASE ProcessGPS(cr)
      <4>1. PICK found \in BOOLEAN :
              env' = [env EXCEPT
                        ![cr].prev_location = request.jobid,
                        ![cr].prediction =
                            IF found THEN [cell |-> env[cr].current_cell,
                                           from |-> env[cr].prev_location,
                                           at |-> request.jobid]
                                     ELSE @]
        BY <3>1 DEF ProcessGPS
      <4>2. CASE found
        BY <2>1, <4>1, <4>2
      <4>3. CASE ~found
        BY <2>1, <4>1, <4>3
      <4> QED
        BY <4>2, <4>3
    <3>2. CASE ProcessCell(cr)
      BY <2>1, <3>2 DEF ProcessCell
    <3> QED
      BY <1>9, <3>1, <3>2 DEF Process
  <2> QED
    BY <1>9, <2>2 DEF Process, ProcessGPS, ProcessCell
<1>10. CASE BeginPop
  <2>1. applied \subseteq Nat /\ {request.jobid} \subseteq Nat
    OBVIOUS
  <2>2. applied' = applied \cup {request.jobid}
    BY <1>10 DEF BeginPop
  <2>3. applied' \subseteq Nat
    BY <2>1, <2>2, Zenon
  <2> QED
    BY <1>10, <2>3 DEF BeginPop
<1>11. CASE Pop
  <2>1. requestQueue # <<>>
    BY <1>11 DEF Pop, RequestInv
  <2>2. Tail(requestQueue) \in Seq(UpdateRequest)
    BY <2>1, HeadTailProperties
  <2> QED
    BY <1>11, <2>2 DEF Pop
<1>12. CASE Notify
  BY <1>12 DEF Notify, NotifyFrame, Wake, EndIf
<1>13. CASE UNCHANGED vars
  BY <1>13 DEF vars
<1>14. QED
  BY <1>1, <1>2, <1>3, <1>4, <1>5, <1>6, <1>7, <1>8, <1>9, <1>10, <1>11, <1>12, <1>13,
     StepCases

\* Each step keeps the holders of the locks.
LEMMA LockStep ==
  ASSUME TypeOK, LockInv, [Next]_vars
  PROVE  LockInv'
<1> USE ContextAssumption DEF TypeOK, LockInv, Outside
<1> USE DEF mainVars, clientVars, lockVars, history
<1>1. CASE GetDatabaseContext
  BY <1>1 DEF GetDatabaseContext
<1>2. ASSUME NEW cr \in Carriers, Initialize(cr) PROVE LockInv'
  BY <1>2 DEF Initialize
<1>3. ASSUME NEW c \in Clients, Draw(c) PROVE LockInv'
  BY <1>3 DEF Draw, DrawJobid
<1>4. ASSUME NEW c \in Clients, Push(c) PROVE LockInv'
  BY <1>4 DEF Push
<1>5. CASE Destroy
  BY <1>5 DEF Destroy
<1>6. ASSUME NEW c \in Clients, Waiting(c) PROVE LockInv'
  <2>1. CASE GetFinishedJobid(c)
    BY <2>1 DEF GetFinishedJobid, ClientStep, MayCall
  <2>2. CASE Wait(c) \/ Reacquire(c)
    BY <2>2 DEF Wait, Reacquire, Goto, ClientStep, MayCall
  <2>3. CASE CheckEmpty(c)
    BY <2>3 DEF CheckEmpty, Goto, ClientStep
  <2>4. CASE Sleep(c)
    BY <2>4 DEF Sleep, Goto, ClientStep
  <2>5. CASE CheckNotEmpty(c) \/ SpuriousWakeup(c)
    BY <2>5 DEF CheckNotEmpty, SpuriousWakeup, Goto, ClientStep
  <2> QED
    BY <1>6, <2>1, <2>2, <2>3, <2>4, <2>5 DEF Waiting
<1>7. CASE MainStart \/ Top \/ BeginPop \/ Pop \/ Finish
  BY <1>7 DEF MainStart, Top, BeginPop, Pop, Finish
<1>8. ASSUME NEW cr \in Carriers, Process(cr) PROVE LockInv'
  BY <1>8 DEF Process, ProcessGPS, ProcessCell
<1>9. CASE LockWait
  BY <1>9 DEF LockWait
<1>10. CASE Notify
  <2>1. \A c \in Clients : pc'[c] \in {"push", "check", "sleep"}
                            <=> pc[c] \in {"push", "check", "sleep"}
    BY <1>10 DEF Notify, NotifyFrame, Wake, EndIf
  <2>2. \A c \in Clients : pc[c] \notin {"push", "check", "sleep"}
    BY <1>10 DEF Notify, NotifyFrame, Wake, EndIf
  <2> QED
    BY <1>10, <2>1, <2>2 DEF Notify, NotifyFrame, Wake, EndIf
<1>11. CASE UNCHANGED vars
  BY <1>11 DEF vars
<1>12. QED
  BY <1>1, <1>2, <1>3, <1>4, <1>5, <1>6, <1>7, <1>8, <1>9, <1>10, <1>11, StepCases

-----------------------------------------------------------------------------
\* The steps that touch neither the queue nor the job counter nor a request.
Rest == \/ \E cr \in Carriers : Initialize(cr)
        \/ Destroy
        \/ \E c \in Clients : Waiting(c)
        \/ MainStart \/ Top
        \/ \E cr \in Carriers : Process(cr)
        \/ BeginPop \/ Finish \/ LockWait \/ Notify
        \/ UNCHANGED vars

\* What a step does to the queue and the job ids: create, draw, push, pop, or nothing.
LEMMA FiveKinds ==
  ASSUME [Next]_vars
  PROVE  \/ GetDatabaseContext
         \/ \E c \in Clients : Draw(c)
         \/ \E c \in Clients : Push(c)
         \/ Pop
         \/ Rest
  BY StepCases DEF Rest

\* The other steps leave the queue and the job ids alone.
LEMMA RestFrame ==
  ASSUME TypeOK, Rest
  PROVE  /\ UNCHANGED <<requestQueue, total_jobs, req, job>>
         /\ \A c \in Clients : pc'[c] = "push" <=> pc[c] = "push"
         /\ Pushed' = Pushed /\ Popped' = Popped
<1> DEFINE Same == /\ UNCHANGED <<requestQueue, total_jobs, req, job>>
                   /\ \A c \in Clients : pc'[c] = "push" <=> pc[c] = "push"
<1> USE DEF mainVars, clientVars, lockVars, history
<1>0. pc \in [Clients -> Outside \cup {"push", "join", "check", "sleep", "blocked", "woken"}]
  BY DEF TypeOK
<1>1. ASSUME NEW cr \in Carriers, Initialize(cr) PROVE Same
  BY <1>1 DEF Initialize
<1>2. ASSUME Destroy PROVE Same
  BY <1>0, <1>2 DEF Destroy
<1>3. ASSUME NEW c \in Clients, Waiting(c) PROVE Same
  <2>1. CASE GetFinishedJobid(c)
    BY <1>0, <2>1 DEF GetFinishedJobid, ClientStep, MayCall, Outside
  <2>2. CASE Wait(c)
    BY <1>0, <2>2 DEF Wait, ClientStep, MayCall, Outside
  <2>3. CASE CheckEmpty(c) \/ CheckNotEmpty(c) \/ Sleep(c) \/ SpuriousWakeup(c) \/ Reacquire(c)
    BY <1>0, <2>3 DEF CheckEmpty, CheckNotEmpty, Sleep, SpuriousWakeup, Reacquire, Goto, ClientStep
  <2> QED
    BY <1>3, <2>1, <2>2, <2>3 DEF Waiting
<1>4. ASSUME MainStart \/ Top \/ BeginPop \/ Finish \/ LockWait PROVE Same
  BY <1>4 DEF MainStart, Top, BeginPop, Finish, LockWait
<1>5. ASSUME NEW cr \in Carriers, Process(cr) PROVE Same
  BY <1>5 DEF Process, ProcessGPS, ProcessCell
<1>6. ASSUME Notify PROVE Same
  BY <1>0, <1>6 DEF Notify, NotifyFrame, Wake, EndIf
<1>7. ASSUME UNCHANGED vars PROVE Same
  BY <1>7 DEF vars
<1>8. Same
  BY <1>1, <1>2, <1>3, <1>4, <1>5, <1>6, <1>7 DEF Rest
<1>9. Pushing' <=> Pushing
  BY <1>8 DEF Pushing
<1>10. Pushed' = Pushed
  BY <1>8, <1>9 DEF Pushed
<1>11. Popped' = Popped
  BY <1>8, <1>10 DEF Popped
<1>12. QED
  BY <1>8, <1>10, <1>11

\* While a client draws its job id nobody else is between drawing and pushing.
LEMMA DrawKeepsPushed ==
  ASSUME TypeOK, LockInv, NEW c \in Clients, Draw(c)
  PROVE  /\ ~Pushing /\ Pushing'
         /\ Pushed' = Pushed /\ Popped' = Popped
         /\ total_jobs' = total_jobs + 1
         /\ req'[c].jobid = total_jobs + 1 /\ job'[c] = total_jobs + 1
         /\ \A d \in Clients \ {c} : pc'[d] = pc[d] /\ job'[d] = job[d]
         /\ pc'[c] = "push"
         /\ \A d \in Clients \ {c} : req'[d] = req[d]
         /\ \A d \in Clients : seen'[d] \in {0, seen[d]}
         /\ UNCHANGED <<requestQueue, mainpc, request, applied, finished_jobid, pDBContext>>
<1>1. PICK type \in RequestType, cr \in Carriers \cup {NoCarrier} : DrawJobid(c, type, cr)
  BY DEF Draw
<1>2. ~Pushing
  BY <1>1, ContextAssumption DEF DrawJobid, Pushing, LockInv
<1>3. /\ total_jobs' = total_jobs + 1
      /\ req'[c].jobid = total_jobs + 1 /\ job'[c] = total_jobs + 1
      /\ \A d \in Clients \ {c} : pc'[d] = pc[d] /\ job'[d] = job[d]
      /\ pc'[c] = "push"
      /\ \A d \in Clients \ {c} : req'[d] = req[d]
      /\ \A d \in Clients : seen'[d] \in {0, seen[d]}
      /\ UNCHANGED <<requestQueue, mainpc, request, applied, finished_jobid, pDBContext>>
  BY <1>1 DEF DrawJobid, TypeOK, mainVars, history
<1>4. Pushing'
  BY <1>3 DEF Pushing
<1>5. Pushed' = Pushed
  BY <1>2, <1>3, <1>4 DEF Pushed, TypeOK
<1>6. Popped' = Popped
  BY <1>3, <1>5 DEF Popped
<1>7. QED
  BY <1>2, <1>3, <1>4, <1>5, <1>6

\* Push is the one step that makes the pushed ids grow.
LEMMA PushCounts ==
  ASSUME TypeOK, LockInv, NEW c \in Clients, Push(c)
  PROVE  /\ Pushing /\ ~Pushing'
         /\ Pushed' = Pushed + 1
         /\ Popped' = Popped
         /\ requestQueue' = Append(requestQueue, req[c])
         /\ Len(requestQueue') = Len(requestQueue) + 1
         /\ \A d \in Clients \ {c} : pc'[d] = pc[d]
         /\ pc'[c] = IF req[c].type = "STOP" THEN "join" ELSE "idle"
         /\ UNCHANGED <<total_jobs, req, job, mainpc, request, applied, finished_jobid, seen,
                        pDBContext>>
<1>1. /\ pc[c] = "push" /\ pc'[c] = IF req[c].type = "STOP" THEN "join" ELSE "idle"
      /\ \A d \in Clients \ {c} : pc'[d] = pc[d]
      /\ requestQueue' = Append(requestQueue, req[c])
      /\ UNCHANGED <<total_jobs, req, job, mainpc, request, applied, finished_jobid, seen,
                     pDBContext>>
  BY DEF Push, TypeOK, mainVars
<1>2. \A d \in Clients \ {c} : pc[d] # "push"
  BY <1>1 DEF LockInv
<1>3. Pushing /\ ~Pushing'
  BY <1>1, <1>2 DEF Pushing
<1>4. requestQueue \in Seq(UpdateRequest) /\ req[c] \in UpdateRequest
  BY DEF TypeOK
<1>5. Len(requestQueue') = Len(requestQueue) + 1
  BY <1>1, <1>4, AppendProperties
<1>6. Pushed' = Pushed + 1
  BY <1>1, <1>3 DEF Pushed, TypeOK
<1>7. Pushed \in Int /\ Len(requestQueue) \in Nat
  BY <1>4, LenProperties DEF Pushed, TypeOK
<1>8. Popped' = Popped
  BY <1>5, <1>6, <1>7 DEF Popped
<1>9. QED
  BY <1>1, <1>3, <1>5, <1>6, <1>8

\* Pop takes the smallest id out of the queue.
LEMMA PopCounts ==
  ASSUME TypeOK, RequestInv, Pop
  PROVE  /\ Pushed' = Pushed
         /\ Popped' = Popped + 1
         /\ requestQueue # <<>> /\ requestQueue' = Tail(requestQueue)
         /\ Len(requestQueue') = Len(requestQueue) - 1
         /\ mainpc = "popping" /\ mainpc' = "finish"
         /\ UNCHANGED <<total_jobs, pc, req, job, request, applied, finished_jobid, seen,
                        pDBContext>>
<1>1. /\ requestQueue' = Tail(requestQueue)
      /\ mainpc = "popping" /\ mainpc' = "finish"
      /\ UNCHANGED <<total_jobs, pc, req, job, request, applied, finished_jobid, seen,
                     pDBContext>>
  BY DEF Pop, clientVars, history
<1>2. requestQueue # <<>>
  BY <1>1 DEF RequestInv
<1>3. requestQueue \in Seq(UpdateRequest)
  BY DEF TypeOK
<1>4. Len(requestQueue') = Len(requestQueue) - 1
  BY <1>1, <1>2, <1>3, HeadTailProperties
<1>5. Pushed' = Pushed
  BY <1>1 DEF Pushed, Pushing
<1>6. Popped' = Popped + 1
  BY <1>3, <1>4, <1>5, LenProperties DEF Popped, Pushed, TypeOK
<1>7. QED
  BY <1>1, <1>2, <1>4, <1>5, <1>6

\* A new context starts with nothing pushed that has not been popped.
LEMMA NewContext ==
  ASSUME TypeOK, StopInv, GetDatabaseContext
  PROVE  /\ ~Pushing /\ ~Pushing'
         /\ Pushed' = Pushed /\ Popped' = Popped /\ Popped = total_jobs
         /\ requestQueue' = <<>>
         /\ mainpc \in {"none", "ended"} /\ mainpc' = "start"
         /\ \A c \in Clients : pc'[c] = "idle" /\ job'[c] = 0 /\ seen'[c] = 0
         /\ finished_jobid' = 0 /\ pDBContext'
         /\ UNCHANGED <<total_jobs, req, request, applied>>
<1>1. /\ ~pDBContext /\ pDBContext'
      /\ mainpc \in {"none", "ended"} /\ mainpc' = "start"
      /\ requestQueue' = <<>> /\ finished_jobid' = 0
      /\ \A c \in Clients : pc'[c] = "idle" /\ job'[c] = 0 /\ seen'[c] = 0
      /\ UNCHANGED <<total_jobs, req, request, applied>>
  BY DEF GetDatabaseContext
<1>2. requestQueue = <<>> /\ ~Pushing /\ ~Pushing'
  BY <1>1 DEF StopInv, Pushing, Outside
<1>3. Len(requestQueue) = 0 /\ Len(requestQueue') = 0
  BY <1>1, <1>2
<1>4. Pushed = total_jobs /\ Pushed' = total_jobs
  BY <1>1, <1>2 DEF Pushed
<1>5. Popped = total_jobs /\ Popped' = total_jobs
  BY <1>3, <1>4 DEF Popped, TypeOK
<1>6. QED
  BY <1>1, <1>2, <1>4, <1>5

-----------------------------------------------------------------------------
\* The counts are integers.
LEMMA CountTypes ==
  ASSUME TypeOK
  PROVE  Pushed \in Int /\ Popped \in Int /\ Len(requestQueue) \in Nat
         /\ Popped = Pushed - Len(requestQueue) /\ total_jobs \in Nat
         /\ (Pushing => Pushed = total_jobs - 1) /\ (~Pushing => Pushed = total_jobs)
  BY LenProperties DEF TypeOK, Pushed, Popped

\* The job ids in the queue stay consecutive.
LEMMA QueueStep ==
  ASSUME TypeOK, LockInv, QueueInv, RequestInv, StopInv, [Next]_vars
  PROVE  QueueInv'
<1>0. requestQueue \in Seq(UpdateRequest)
  BY DEF TypeOK
<1>1. CASE GetDatabaseContext
  <2>1. /\ Popped' \in Nat /\ requestQueue' = <<>>
        /\ \A c \in Clients : pc'[c] = "idle"
    BY <1>1, NewContext DEF QueueInv
  <2> QED
    BY <2>1 DEF QueueInv
<1>2. ASSUME NEW c \in Clients, Draw(c) PROVE QueueInv'
  <2>1. \A d \in Clients : pc'[d] = "push" => d = c
    BY <1>2, DrawKeepsPushed DEF Pushing
  <2> QED
    BY <1>2, <2>1, DrawKeepsPushed DEF QueueInv
<1>3. ASSUME NEW c \in Clients, Push(c) PROVE QueueInv'
  <2>1. pc[c] = "push"
    BY <1>3 DEF Push
  <2>2. req[c].jobid = total_jobs /\ Popped \in Nat
    BY <2>1 DEF QueueInv
  <2>3. total_jobs = Popped + Len(requestQueue) + 1
    BY <1>3, PushCounts, CountTypes
  <2>4. ASSUME NEW i \in 1..Len(requestQueue')
        PROVE  requestQueue'[i].jobid = Popped + i
    <3>1. CASE i \in 1..Len(requestQueue)
      <4>1. requestQueue'[i] = requestQueue[i]
        BY <1>0, <1>3, <3>1, PushCounts, CountTypes
      <4> QED
        BY <3>1, <4>1 DEF QueueInv
    <3>2. CASE i = Len(requestQueue) + 1
      <4>1. requestQueue'[i] = req[c]
        BY <1>0, <1>3, <3>2, PushCounts
      <4> QED
        BY <2>2, <2>3, <3>2, <4>1, CountTypes
    <3>3. Len(requestQueue') = Len(requestQueue) + 1 /\ Len(requestQueue) \in Nat
      BY <1>3, PushCounts, CountTypes
    <3>4. i \in 1..Len(requestQueue) \/ i = Len(requestQueue) + 1
      BY <3>3
    <3> QED
      BY <3>1, <3>2, <3>4
  <2> QED
    BY <1>3, <2>2, <2>4, PushCounts DEF QueueInv, Pushing
<1>4. CASE Pop
  <2>1. Popped' = Popped + 1 /\ Popped \in Nat
    BY <1>4, PopCounts DEF QueueInv
  <2>2. ASSUME NEW i \in 1..Len(requestQueue')
        PROVE  requestQueue'[i].jobid = Popped' + i
    <3>1. i \in Nat /\ i + 1 \in 1..Len(requestQueue)
      BY <1>4, PopCounts, CountTypes
    <3>2. requestQueue'[i] = requestQueue[i + 1]
      BY <1>0, <1>4, <3>1, PopCounts, HeadTailProperties
    <3> QED
      BY <2>1, <3>1, <3>2 DEF QueueInv
  <2> QED
    BY <1>4, <2>1, <2>2, PopCounts DEF QueueInv
<1>5. CASE Rest
  BY <1>5, RestFrame DEF QueueInv
<1>6. QED
  BY <1>1, <1>2, <1>3, <1>4, <1>5, FiveKinds

\* The head of a non-empty queue is the request of job Popped + 1.
LEMMA HeadIsNext ==
  ASSUME TypeOK, QueueInv, requestQueue # <<>>
  PROVE  Head(requestQueue).jobid = Popped + 1
<1>1. 1 \in 1..Len(requestQueue) /\ Head(requestQueue) = requestQueue[1]
  BY DEF TypeOK
<1>2. QED
  BY <1>1 DEF QueueInv

\* Each step keeps what is known of the requests drawn and queued.
LEMMA RequestStep ==
  ASSUME TypeOK, LockInv, QueueInv, RequestInv, StopInv, [Next]_vars
  PROVE  RequestInv'
<1> USE DEF mainVars, clientVars, lockVars, history
<1>0. requestQueue \in Seq(UpdateRequest)
  BY DEF TypeOK
<1>1. CASE GetDatabaseContext
  BY <1>1, NewContext DEF RequestInv
<1>2. ASSUME NEW c \in Clients, Draw(c) PROVE RequestInv'
  BY <1>2, DrawKeepsPushed DEF RequestInv
<1>3. ASSUME NEW c \in Clients, Push(c) PROVE RequestInv'
  <2>1. requestQueue # <<>> => requestQueue' # <<>> /\ Head(requestQueue') = Head(requestQueue)
    BY <1>0, <1>3, PushCounts
  <2> QED
    BY <1>3, <2>1, PushCounts DEF RequestInv
<1>4. CASE Pop
  <2>1. request = Head(requestQueue) /\ request' = request
    BY <1>4, PopCounts DEF RequestInv
  <2>2. request'.jobid = Popped'
    BY <1>4, <2>1, PopCounts, HeadIsNext
  <2> QED
    BY <1>4, <2>2, PopCounts DEF RequestInv
<1>5. CASE Rest
  <2>1. requestQueue' = requestQueue /\ Popped' = Popped
    BY <1>5, RestFrame
  <2>2. ASSUME NEW cr \in Carriers, Initialize(cr) \/ Process(cr) PROVE RequestInv'
    BY <2>1, <2>2 DEF Initialize, Process, ProcessGPS, ProcessCell, RequestInv
  <2>3. CASE Destroy
    BY <2>1, <2>3 DEF Destroy, RequestInv
  <2>4. ASSUME NEW c \in Clients, Waiting(c) PROVE RequestInv'
    BY <2>1, <2>4 DEF Waiting, Wait, CheckEmpty, CheckNotEmpty, Sleep, SpuriousWakeup,
                      Reacquire, GetFinishedJobid, Goto, ClientStep, RequestInv
  <2>5. CASE MainStart \/ Top \/ BeginPop \/ Finish \/ LockWait
    BY <2>1, <2>5 DEF MainStart, Top, BeginPop, Finish, LockWait, RequestInv
  <2>6. CASE Notify
    BY <2>1, <2>6 DEF Notify, NotifyFrame, Wake, EndIf, RequestInv
  <2>7. CASE UNCHANGED vars
    BY <2>1, <2>7 DEF vars, RequestInv
  <2> QED
    BY <1>5, <2>2, <2>3, <2>4, <2>5, <2>6, <2>7 DEF Rest
<1>6. QED
  BY <1>1, <1>2, <1>3, <1>4, <1>5, FiveKinds

\* What has been applied is exactly what has been popped, plus the head of the
\* queue while it is being popped; what is reported lags behind.
LEMMA AppliedStep ==
  ASSUME TypeOK, LockInv, QueueInv, RequestInv, AppliedInv, StopInv, [Next]_vars
  PROVE  AppliedInv'
<1> USE DEF mainVars, clientVars, lockVars, history
<1>1. CASE GetDatabaseContext
  BY <1>1, NewContext, CountTypes DEF AppliedInv, QueueInv
<1>2. ASSUME NEW c \in Clients, Draw(c) PROVE AppliedInv'
  <2>1. ASSUME NEW d \in Clients PROVE seen'[d] <= finished_jobid'
    <3>1. /\ finished_jobid' = finished_jobid /\ finished_jobid \in Nat
          /\ seen'[d] \in {0, seen[d]}
      BY <1>2, DrawKeepsPushed DEF TypeOK
    <3> QED
      BY <3>1 DEF AppliedInv
  <2> QED
    BY <1>2, <2>1, DrawKeepsPushed DEF AppliedInv
<1>3. ASSUME NEW c \in Clients, Push(c) PROVE AppliedInv'
  BY <1>3, PushCounts DEF AppliedInv
<1>4. CASE Pop
  <2>1. Popped' = Popped + 1 /\ Popped \in Nat /\ finished_jobid \in Nat
    BY <1>4, PopCounts DEF QueueInv, TypeOK
  <2> QED
    BY <1>4, <2>1, PopCounts DEF AppliedInv
<1>5. CASE Rest
  <2>1. Popped' = Popped
    BY <1>5, RestFrame
  <2>2. ASSUME NEW cr \in Carriers, Initialize(cr) \/ Process(cr) PROVE AppliedInv'
    BY <2>1, <2>2 DEF Initialize, Process, ProcessGPS, ProcessCell, AppliedInv
  <2>3. CASE Destroy
    BY <2>1, <2>3 DEF Destroy, AppliedInv
  <2>4. ASSUME NEW c \in Clients, Waiting(c) PROVE AppliedInv'
    <3>1. CASE GetFinishedJobid(c)
      <4>1. \A d \in Clients : seen'[d] <= finished_jobid
        BY <3>1 DEF GetFinishedJobid, AppliedInv, TypeOK
      <4> QED
        BY <2>1, <3>1, <4>1 DEF GetFinishedJobid, ClientStep, AppliedInv
    <3>2. CASE Wait(c)
      <4>1. \A d \in Clients : seen'[d] <= finished_jobid
        BY <3>2 DEF Wait, AppliedInv, TypeOK
      <4> QED
        BY <2>1, <3>2, <4>1 DEF Wait, ClientStep, AppliedInv
    <3>3. CASE ~GetFinishedJobid(c) /\ ~Wait(c)
      BY <2>1, <2>4, <3>3 DEF Waiting, CheckEmpty, CheckNotEmpty, Sleep,
                              SpuriousWakeup, Reacquire, Goto, ClientStep, AppliedInv
    <3> QED
      BY <3>1, <3>2, <3>3
  <2>5. CASE MainStart \/ Top \/ LockWait
    BY <2>1, <2>5 DEF MainStart, Top, LockWait, AppliedInv
  <2>6. CASE BeginPop
    <3>1. request.jobid = Popped + 1 /\ Popped \in Nat
      BY <2>6, HeadIsNext DEF BeginPop, RequestInv, QueueInv
    <3>2. applied' = (1..Popped) \cup {Popped + 1}
      BY <2>6, <3>1 DEF BeginPop, AppliedInv
    <3>3. applied' = 1..(Popped + 1)
      BY <3>1, <3>2
    <3> QED
      BY <2>1, <2>6, <3>3 DEF BeginPop, AppliedInv
  <2>7. CASE Finish
    <3>1. finished_jobid' = Popped /\ finished_jobid <= Popped /\ Popped \in Nat
      BY <2>7 DEF Finish, RequestInv, AppliedInv, QueueInv
    <3>2. \A c \in Clients : seen'[c] <= finished_jobid'
      BY <2>7, <3>1 DEF Finish, AppliedInv, TypeOK
    <3> QED
      BY <2>1, <2>7, <3>1, <3>2 DEF Finish, AppliedInv
  <2>8. CASE Notify
    BY <2>1, <2>8 DEF Notify, NotifyFrame, Wake, EndIf, AppliedInv
  <2>9. CASE UNCHANGED vars
    BY <2>1, <2>9 DEF vars, AppliedInv
  <2> QED
    BY <1>5, <2>2, <2>3, <2>4, <2>5, <2>6, <2>7, <2>8, <2>9 DEF Rest
<1>6. QED
  BY <1>1, <1>2, <1>3, <1>4, <1>5, FiveKinds

-----------------------------------------------------------------------------
\* How the steps of wait() and GetFinishedJobid() move a client: only a client
\* that is not in the destructor takes one, and it returns from wait() only if
\* the queue looked empty.
LEMMA WaitingMoves ==
  ASSUME TypeOK, StopInv, NEW c \in Clients, Waiting(c)
  PROVE  /\ pDBContext /\ ~Closing /\ ~Closing'
         /\ \A d \in Clients \ {c} : pc'[d] = pc[d]
         /\ pc'[c] \notin {"push", "join"} /\ pc[c] \notin {"push", "join"}
         /\ pc'[c] \in {"waited", "asked"} =>
               \/ pc[c] \in {"waited", "asked"}
               \/ pc[c] = "check" /\ TRUE \in EmptyReads
         /\ pc'[c] = "sleep" => pc[c] = "check" /\ FALSE \in EmptyReads
         /\ pc'[c] = "blocked" => pc[c] = "sleep"
         /\ UNCHANGED <<pDBContext, requestQueue, mainpc, request, req, job>>
<1> USE DEF mainVars, clientVars, lockVars, history
<1>0. pc \in [Clients -> Outside \cup {"push", "join", "check", "sleep", "blocked", "woken"}]
  BY DEF TypeOK
<1> DEFINE Moves ==
         /\ \A d \in Clients \ {c} : pc'[d] = pc[d]
         /\ pc'[c] \notin {"push", "join"} /\ pc[c] \notin {"push", "join"}
         /\ pc'[c] \in {"waited", "asked"} =>
               \/ pc[c] \in {"waited", "asked"}
               \/ pc[c] = "check" /\ TRUE \in EmptyReads
         /\ pc'[c] = "sleep" => pc[c] = "check" /\ FALSE \in EmptyReads
         /\ pc'[c] = "blocked" => pc[c] = "sleep"
         /\ UNCHANGED <<pDBContext, requestQueue, mainpc, request, req, job>>
<1>1. ASSUME Wait(c) \/ GetFinishedJobid(c)
      PROVE  pDBContext /\ ~Closing /\ Moves
  BY <1>0, <1>1 DEF Wait, GetFinishedJobid, ClientStep, MayCall, Outside
<1>2. ASSUME CheckEmpty(c) \/ CheckNotEmpty(c) \/ Sleep(c) \/ SpuriousWakeup(c) \/ Reacquire(c)
      PROVE  pc[c] \in {"check", "sleep", "blocked", "woken"} /\ Moves
  BY <1>0, <1>2 DEF CheckEmpty, CheckNotEmpty, Sleep, SpuriousWakeup, Reacquire, Goto,
                    ClientStep
<1>3. pc[c] \in {"check", "sleep", "blocked", "woken"} => pDBContext /\ ~Closing
  BY DEF StopInv, Closing, Outside
<1>4. pDBContext /\ ~Closing /\ Moves
  BY <1>1, <1>2, <1>3 DEF Waiting
<1>5. ~Closing'
  BY <1>4, ContextAssumption DEF Closing
<1>6. QED
  BY <1>4, <1>5

\* Notify moves sleepers only.
LEMMA NotifyMoves ==
  ASSUME TypeOK, Notify
  PROVE  /\ \A c \in Clients : \/ pc'[c] = pc[c]
                               \/ pc[c] = "blocked" /\ pc'[c] = "woken"
         /\ UNCHANGED <<pDBContext, requestQueue, request, req, job>>
         /\ mainpc = "notify"
         /\ mainpc' = IF request.type = "STOP" THEN "ended" ELSE "top"
  BY DEF Notify, NotifyFrame, Wake, EndIf, TypeOK, history

\* The remaining steps of mainLoop, and Initialize, move no client at all.
Quiet == \/ \E cr \in Carriers : Initialize(cr) \/ Process(cr)
         \/ MainStart \/ Top \/ BeginPop \/ Finish \/ LockWait
         \/ UNCHANGED vars

\* The quiet steps: those of mainLoop that only move on, and those that change no client.
LEMMA QuietMoves ==
  ASSUME Quiet
  PROVE  /\ UNCHANGED <<pDBContext, requestQueue, pc, req, job, total_jobs>>
         /\ \/ mainpc' = mainpc
            \/ mainpc = "start" /\ pDBContext /\ mainpc' = "top"
            \/ mainpc = "top" /\ mainpc' = "switch" /\ requestQueue # <<>>
            \/ mainpc = "switch" /\ mainpc' = "popping"
            \/ mainpc = "finish" /\ mainpc' = "lock"
            \/ mainpc = "lock" /\ mainpc' = "notify"
         /\ mainpc # "top" => request' = request
<1> USE DEF mainVars, clientVars, lockVars, history
<1> DEFINE Goal == /\ UNCHANGED <<pDBContext, requestQueue, pc, req, job, total_jobs>>
                   /\ \/ mainpc' = mainpc
                      \/ mainpc = "start" /\ pDBContext /\ mainpc' = "top"
                      \/ mainpc = "top" /\ mainpc' = "switch" /\ requestQueue # <<>>
                      \/ mainpc = "switch" /\ mainpc' = "popping"
                      \/ mainpc = "finish" /\ mainpc' = "lock"
                      \/ mainpc = "lock" /\ mainpc' = "notify"
                   /\ mainpc # "top" => request' = request
<1>1. ASSUME NEW cr \in Carriers, Initialize(cr) \/ Process(cr) PROVE Goal
  BY <1>1 DEF Initialize, Process, ProcessGPS, ProcessCell
<1>2. ASSUME MainStart \/ Top \/ BeginPop \/ Finish \/ LockWait PROVE Goal
  BY <1>2 DEF MainStart, Top, BeginPop, Finish, LockWait
<1>3. ASSUME UNCHANGED vars PROVE Goal
  BY <1>3 DEF vars
<1>4. QED
  BY <1>1, <1>2, <1>3 DEF Quiet

\* The steps that leave the queue alone.
LEMMA RestKinds ==
  ASSUME Rest
  PROVE  Destroy \/ (\E c \in Clients : Waiting(c)) \/ Notify \/ Quiet
  BY DEF Rest, Quiet

-----------------------------------------------------------------------------
\* Each step keeps what a client knows after wait().
LEMMA WaitedStep ==
  ASSUME TypeOK, LockInv, QueueInv, RequestInv, WaitedInv, StopInv, [Next]_vars
  PROVE  WaitedInv'
<1>0. total_jobs \in Nat /\ Popped \in Nat /\ job \in [Clients -> Nat]
  BY DEF TypeOK, QueueInv
<1>1. CASE GetDatabaseContext
  BY <1>0, <1>1, NewContext DEF WaitedInv
<1>2. ASSUME NEW c \in Clients, Draw(c) PROVE WaitedInv'
  <2>1. \A d \in Clients : job'[d] <= total_jobs'
    BY <1>0, <1>2, DrawKeepsPushed DEF WaitedInv
  <2> QED
    BY <1>2, <2>1, DrawKeepsPushed DEF WaitedInv
<1>3. ASSUME NEW c \in Clients, Push(c) PROVE WaitedInv'
  <2>1. pc'[c] \notin {"waited", "asked"}
    BY <1>3, PushCounts
  <2> QED
    BY <1>3, <2>1, PushCounts DEF WaitedInv
<1>4. CASE Pop
  BY <1>0, <1>4, PopCounts DEF WaitedInv
<1>5. CASE Rest
  <2>1. job' = job /\ total_jobs' = total_jobs /\ Popped' = Popped
    BY <1>5, RestFrame
  <2>2. CASE Destroy
    BY <2>1, <2>2 DEF Destroy, WaitedInv, TypeOK
  <2>3. ASSUME NEW c \in Clients, Waiting(c) PROVE WaitedInv'
    <3>1. ASSUME ~TornRead, pc[c] = "check", TRUE \in EmptyReads
          PROVE  job[c] <= Popped
      <4>1. requestQueue = <<>>
        BY <3>1 DEF EmptyReads
      <4>2. ~Pushing
        BY <3>1 DEF Pushing, LockInv
      <4>3. Popped = total_jobs
        BY <4>1, <4>2, CountTypes
      <4> QED
        BY <4>3 DEF WaitedInv
    <3>2. ~TornRead /\ pc'[c] \in {"waited", "asked"} => job[c] <= Popped
      BY <2>3, <3>1, WaitingMoves DEF WaitedInv
    <3>3. \A d \in Clients \ {c} : pc'[d] = pc[d]
      BY <2>3, WaitingMoves
    <3> QED
      BY <2>1, <3>2, <3>3 DEF WaitedInv
  <2>4. CASE Notify
    <3>1. \A d \in Clients : pc'[d] \in {"waited", "asked"} => pc'[d] = pc[d]
      BY <2>4, NotifyMoves
    <3> QED
      BY <2>1, <3>1 DEF WaitedInv
  <2>5. CASE Quiet
    BY <2>1, <2>5, QuietMoves DEF WaitedInv
  <2> QED
    BY <1>5, <2>2, <2>3, <2>4, <2>5, RestKinds
<1>6. QED
  BY <1>1, <1>2, <1>3, <1>4, <1>5, FiveKinds

\* Each step keeps a notification on its way for every sleeper on an empty queue.
LEMMA NotifyStep ==
  ASSUME TypeOK, LockInv, RequestInv, StopInv, NoLostNotify, [Next]_vars
  PROVE  NoLostNotify'
<1>1. CASE GetDatabaseContext
  BY <1>1, NewContext DEF NoLostNotify
<1>2. ASSUME NEW c \in Clients, Draw(c) PROVE NoLostNotify'
  BY <1>2, DrawKeepsPushed DEF NoLostNotify
<1>3. ASSUME NEW c \in Clients, Push(c) PROVE NoLostNotify'
  <2>1. requestQueue' # <<>>
    BY <1>3, PushCounts, CountTypes
  <2> QED
    BY <2>1 DEF NoLostNotify
<1>4. CASE Pop
  BY <1>4, PopCounts DEF NoLostNotify
<1>5. CASE Destroy
  <2>1. \A d \in Clients : pc'[d] = "idle" \/ pc'[d] = pc[d]
    BY <1>5 DEF Destroy, TypeOK
  <2> QED
    BY <1>5, <2>1 DEF Destroy, mainVars, NoLostNotify
<1>6. ASSUME NEW c \in Clients, Waiting(c) PROVE NoLostNotify'
  <2>1. pc'[c] = "sleep" => requestQueue # <<>>
    BY <1>6, WaitingMoves DEF EmptyReads, RequestInv
  <2> QED
    BY <1>6, <2>1, WaitingMoves DEF NoLostNotify
<1>7. CASE Notify
  <2>1. \A d \in Clients : pc[d] # "sleep"
    BY <1>7, ContextAssumption DEF Notify, NotifyFrame, Wake, EndIf, LockInv
  <2>2. requestQueue = <<>> => \A d \in Clients : pc'[d] \notin {"sleep", "blocked"}
    BY <1>7, <2>1 DEF Notify, NotifyFrame, Wake, EndIf
  <2> QED
    BY <1>7, <2>2, NotifyMoves DEF NoLostNotify
<1>8. CASE Quiet
  BY <1>8, QuietMoves DEF NoLostNotify
<1>9. QED
  BY <1>1, <1>2, <1>3, <1>4, <1>5, <1>6, <1>7, <1>8, FiveKinds, RestKinds

\* A STOP is drawn by Owner alone, with everybody else outside and, under
\* WaitBeforeDelete, after an upload of its own and a wait().
LEMMA StopDraw ==
  ASSUME TypeOK, NEW c \in Clients, Draw(c)
  PROVE  /\ pDBContext /\ ~Closing /\ pc[c] \in Outside
         /\ req'[c].type = "STOP" =>
               /\ c = Owner
               /\ \A d \in Clients : pc[d] \in Outside
               /\ WaitBeforeDelete => pc[c] \in {"waited", "asked"} /\ job[c] # 0
<1>1. PICK type \in RequestType, cr \in Carriers \cup {NoCarrier} :
         /\ DrawJobid(c, type, cr)
         /\ type = "STOP" => /\ c = Owner
                             /\ \A d \in Clients : pc[d] \in Outside
                             /\ WaitBeforeDelete =>
                                   pc[c] \in {"waited", "asked"} /\ job[c] # 0
  BY DEF Draw
<1>2. req'[c].type = type
  BY <1>1 DEF DrawJobid, TypeOK
<1>3. QED
  BY <1>1, <1>2 DEF Draw, MayCall

\* A STOP request is the last of its context: once Owner has drawn it, nobody
\* else can upload, so mainLoop ends with an empty queue.
LEMMA StopStep ==
  ASSUME TypeOK, LockInv, RequestInv, StopInv, [Next]_vars
  PROVE  StopInv'
<1>0. requestQueue \in Seq(UpdateRequest) /\ Owner \in Clients
  BY ContextAssumption DEF TypeOK
<1>1. CASE GetDatabaseContext
  <2>1. ~Closing'
    BY <1>0, <1>1, NewContext DEF Closing
  <2> QED
    BY <1>0, <1>1, <2>1, NewContext DEF StopInv, Outside
<1>2. ASSUME NEW c \in Clients, Draw(c) PROVE StopInv'
  <2>1. pDBContext /\ ~Closing /\ pc[Owner] # "join"
    BY <1>2, StopDraw DEF Closing
  <2>2. /\ \A i \in 1..Len(requestQueue) : requestQueue[i].type # "STOP"
        /\ mainpc \in {"finish", "lock", "notify"} => request.type # "STOP"
        /\ mainpc \notin {"none", "ended"}
    BY <2>1 DEF StopInv
  <2>3. \A d \in Clients : pc'[d] # "join"
    BY <1>2, <2>1, DrawKeepsPushed, ZenonT(40) DEF StopInv
  <2>4. \A d \in Clients : pc'[d] = "push" /\ req'[d].type = "STOP" => d = c
    BY <1>2, DrawKeepsPushed DEF Pushing
  <2>5. \A d \in Clients : pc'[d] = "push" /\ req'[d].type = "STOP" => d = Owner
    BY <1>2, <2>4, StopDraw
  <2>6. Closing' => c = Owner /\ \A d \in Clients \ {Owner} : pc'[d] \in Outside
    BY <1>0, <1>2, <2>3, <2>4, StopDraw, DrawKeepsPushed DEF Closing
  <2> QED
    BY <1>2, <2>1, <2>2, <2>3, <2>5, <2>6, DrawKeepsPushed DEF StopInv
<1>3. ASSUME NEW c \in Clients, Push(c) PROVE StopInv'
  <2>1. pc[c] = "push" /\ pc[c] \notin Outside
    BY <1>3 DEF Push, Outside
  <2>2. pDBContext /\ (Closing => c = Owner)
    BY <2>1 DEF StopInv
  <2>3. pc[Owner] # "join"
    BY <2>1, <2>2 DEF Closing
  <2>4. /\ \A i \in 1..Len(requestQueue) : requestQueue[i].type # "STOP"
        /\ mainpc \in {"finish", "lock", "notify"} => request.type # "STOP"
        /\ mainpc \notin {"none", "ended"}
    BY <2>2, <2>3 DEF StopInv
  <2>5. req[c].type = "STOP" => c = Owner
    BY <2>1 DEF StopInv
  <2>6. \A d \in Clients : pc'[d] = "join" => d = c /\ c = Owner /\ req[c].type = "STOP"
    BY <1>3, <2>3, <2>5, PushCounts DEF StopInv
  <2>7. \A d \in Clients : pc'[d] # "push"
    BY <1>3, PushCounts DEF Pushing
  <2>8. Closing' => \A d \in Clients \ {Owner} : pc'[d] \in Outside
    <3>1. ASSUME Closing' PROVE Closing /\ c = Owner
      BY <1>0, <2>1, <2>6, <2>7, <3>1 DEF Closing
    <3> QED
      BY <1>3, <3>1, PushCounts DEF StopInv
  <2>9. ASSUME NEW i \in 1..Len(requestQueue'), requestQueue'[i].type = "STOP"
        PROVE  i = Len(requestQueue') /\ pc'[Owner] = "join"
    <3>1. Len(requestQueue') = Len(requestQueue) + 1 /\ Len(requestQueue) \in Nat
      BY <1>3, PushCounts, CountTypes
    <3>2. i \notin 1..Len(requestQueue)
      BY <1>0, <1>3, <2>4, <2>9, PushCounts
    <3>3. i = Len(requestQueue) + 1
      BY <3>1, <3>2
    <3>4. req[c].type = "STOP"
      BY <1>0, <1>3, <2>9, <3>3, PushCounts
    <3> QED
      BY <1>3, <2>5, <3>1, <3>3, <3>4, PushCounts
  <2> QED
    BY <1>3, <2>2, <2>4, <2>6, <2>7, <2>8, <2>9, PushCounts DEF StopInv
<1>4. CASE Pop
  <2>1. Len(requestQueue) \in Nat \ {0} /\ Head(requestQueue) = requestQueue[1]
    BY <1>0, <1>4, PopCounts
  <2>2. ASSUME NEW i \in 1..Len(requestQueue'), requestQueue'[i].type = "STOP"
        PROVE  i = Len(requestQueue') /\ (pDBContext => pc[Owner] = "join")
    <3>1. i \in Nat /\ i + 1 \in 1..Len(requestQueue)
      BY <1>4, PopCounts, CountTypes
    <3>2. requestQueue'[i] = requestQueue[i + 1]
      BY <1>0, <1>4, <3>1, PopCounts, HeadTailProperties
    <3>3. i + 1 = Len(requestQueue) /\ (pDBContext => pc[Owner] = "join")
      BY <2>2, <3>1, <3>2 DEF StopInv
    <3> QED
      BY <1>4, <2>1, <3>1, <3>3, PopCounts
  <2>3. request.type = "STOP" => requestQueue' = <<>> /\ pc[Owner] = "join"
    <3>1. pDBContext /\ request = Head(requestQueue)
      BY <1>4, PopCounts DEF StopInv, RequestInv
    <3>2. request.type = "STOP" => 1 = Len(requestQueue) /\ pc[Owner] = "join"
      <4>1. 1 \in 1..Len(requestQueue) /\ request = requestQueue[1]
        BY <2>1, <3>1
      <4>2. \A i \in 1..Len(requestQueue) : requestQueue[i].type = "STOP" =>
                i = Len(requestQueue) /\ pc[Owner] = "join"
        BY <3>1 DEF StopInv
      <4> QED
        BY <4>1, <4>2
    <3>3. Len(requestQueue) = 1 => requestQueue' = <<>>
      BY <1>0, <1>4, PopCounts
    <3> QED
      BY <3>2, <3>3
  <2>4. Closing' <=> Closing
    BY <1>4, PopCounts DEF Closing
  <2>5. pDBContext
    BY <1>4, PopCounts DEF StopInv
  <2> QED
    BY <1>4, <2>2, <2>3, <2>4, <2>5, PopCounts DEF StopInv
<1>5. CASE Destroy
  <2>1. /\ pc[Owner] = "join" /\ mainpc \in {"none", "start", "ended"}
        /\ pDBContext' = FALSE /\ pc'[Owner] = "idle"
        /\ \A d \in Clients \ {Owner} : pc'[d] = pc[d]
        /\ UNCHANGED <<requestQueue, mainpc, request, req>>
    BY <1>0, <1>5, ContextAssumption DEF Destroy, mainVars, LockInv, TypeOK
  <2>2. \A d \in Clients : pc'[d] \in Outside
    BY <2>1 DEF StopInv, Closing, Outside
  <2>3. ~Closing'
    BY <2>1 DEF Closing
  <2> QED
    BY <2>1, <2>2, <2>3 DEF StopInv, Outside
<1>6. ASSUME NEW c \in Clients, Waiting(c) PROVE StopInv'
  <2>1. pDBContext /\ ~Closing /\ ~Closing' /\ pc[Owner] # "join"
    BY <1>6, WaitingMoves DEF Closing
  <2>2. /\ \A i \in 1..Len(requestQueue) : requestQueue[i].type # "STOP"
        /\ mainpc \in {"finish", "lock", "notify"} => request.type # "STOP"
        /\ mainpc \notin {"none", "ended"}
    BY <2>1 DEF StopInv
  <2> QED
    BY <1>6, <2>1, <2>2, WaitingMoves DEF StopInv
<1>7. CASE Notify
  <2>1. \A d \in Clients : /\ pc'[d] = "join" <=> pc[d] = "join"
                           /\ pc'[d] = "push" <=> pc[d] = "push"
                           /\ pc[d] \in Outside => pc'[d] \in Outside
    BY <1>7, NotifyMoves DEF Outside
  <2>2. Closing' <=> Closing
    BY <1>0, <1>7, <2>1, NotifyMoves DEF Closing
  <2>3. pDBContext /\ (request.type = "STOP" => requestQueue = <<>> /\ pc[Owner] = "join")
    BY <1>7, NotifyMoves DEF StopInv
  <2> QED
    BY <1>0, <1>7, <2>1, <2>2, <2>3, NotifyMoves DEF StopInv
<1>8. CASE Quiet
  <2>1. Closing' <=> Closing
    BY <1>8, QuietMoves DEF Closing
  <2>2. mainpc' \in {"finish", "lock", "notify"} =>
            request' = request /\ mainpc \in {"finish", "lock", "notify"}
    <3>1. mainpc' \in {"finish", "lock", "notify"} => mainpc \in {"finish", "lock", "notify"}
      BY <1>8, QuietMoves
    <3>2. mainpc # "top" => request' = request
      BY <1>8, QuietMoves
    <3> QED
      BY <3>1, <3>2
  <2>3. mainpc' \in {"none", "ended"} => mainpc' = mainpc
    BY <1>8, QuietMoves
  <2>4. mainpc' \notin {"none", "start", "ended"} => pDBContext
    BY <1>8, QuietMoves DEF StopInv
  <2>5. UNCHANGED <<pDBContext, requestQueue, pc, req>>
    BY <1>8, QuietMoves
  <2> QED
    BY <2>1, <2>2, <2>3, <2>4, <2>5 DEF StopInv
<1>9. QED
  BY <1>1, <1>2, <1>3, <1>4, <1>5, <1>6, <1>7, <1>8, FiveKinds, RestKinds

\* Until mainLoop runs, nothing is taken out of the queue: a wait() returns
\* only to a client that has uploaded nothing, and Owner may not delete.
LEMMA StartStep ==
  ASSUME TypeOK, LockInv, StopInv, StartInv, [Next]_vars
  PROVE  StartInv'
<1> SUFFICES ASSUME WaitBeforeDelete PROVE StartInv'
  BY DEF StartInv
<1>0. Owner \in Clients /\ requestQueue \in Seq(UpdateRequest)
  BY ContextAssumption DEF TypeOK
<1>1. CASE GetDatabaseContext
  <2>1. ~Closing'
    BY <1>0, <1>1, NewContext DEF Closing
  <2> QED
    BY <1>1, <2>1, NewContext DEF StartInv
<1>2. ASSUME mainpc = "start"
      PROVE  /\ pDBContext /\ ~Closing
             /\ requestQueue = <<>> => \A c \in Clients : pc[c] # "push" => job[c] = 0
             /\ \A c \in Clients : pc[c] \in {"waited", "asked"} => job[c] = 0
  BY <1>2 DEF StartInv
<1>3. ASSUME NEW c \in Clients, Draw(c), mainpc = "start"
      PROVE  StartInv'
  <2>1. req'[c].type # "STOP"
    BY <1>2, <1>3, StopDraw
  <2>2. pc'[Owner] # "join" /\ (pc'[Owner] = "push" => Owner = c)
    BY <1>0, <1>2, <1>3, DrawKeepsPushed DEF Closing, Pushing
  <2>3. ~Closing'
    BY <2>1, <2>2 DEF Closing
  <2> QED
    BY <1>2, <1>3, <2>3, DrawKeepsPushed DEF StartInv
<1>4. ASSUME NEW c \in Clients, Push(c), mainpc = "start"
      PROVE  StartInv'
  <2>1. pc[c] = "push" /\ req[c].type # "STOP"
    BY <1>2, <1>4 DEF Push, StopInv, Closing
  <2>2. requestQueue' # <<>>
    BY <1>0, <1>4, PushCounts
  <2>3. ~Closing'
    BY <1>0, <1>2, <1>4, <2>1, PushCounts DEF Closing
  <2> QED
    BY <1>2, <1>4, <2>1, <2>2, <2>3, PushCounts DEF StartInv
<1>5. ASSUME NEW c \in Clients, Waiting(c), mainpc = "start"
      PROVE  StartInv'
  <2>1. pc[c] = "check" /\ TRUE \in EmptyReads => job[c] = 0
    BY <1>2, <1>5 DEF EmptyReads
  <2>2. pc'[c] \in {"waited", "asked"} => job[c] = 0
    BY <1>2, <1>5, <2>1, WaitingMoves
  <2>3. \A d \in Clients : pc'[d] # "push" => pc[d] # "push"
    BY <1>5, WaitingMoves
  <2> QED
    BY <1>2, <1>5, <2>2, <2>3, WaitingMoves DEF StartInv
<1>6. CASE Destroy
  BY <1>2, <1>6 DEF Destroy, mainVars, Closing, StartInv
<1>7. CASE Pop \/ Notify
  BY <1>7 DEF Pop, Notify, NotifyFrame, Wake, EndIf, StartInv
<1>8. CASE Quiet
  <2>1. mainpc' = "start" =>
            mainpc = "start" /\ UNCHANGED <<pDBContext, requestQueue, pc, req, job>>
    BY <1>8, QuietMoves
  <2> QED
    BY <1>2, <2>1 DEF Closing, StartInv
<1>9. ASSUME NEW c \in Clients, Draw(c) \/ Push(c) \/ Waiting(c)
      PROVE  StartInv'
  <2>1. mainpc' = mainpc
    BY <1>9, DrawKeepsPushed, PushCounts, WaitingMoves
  <2>2. CASE mainpc = "start"
    BY <1>3, <1>4, <1>5, <1>9, <2>2
  <2>3. CASE mainpc # "start"
    BY <2>1, <2>3 DEF StartInv
  <2> QED
    BY <2>2, <2>3
<1>10. QED
  BY <1>1, <1>6, <1>7, <1>8, <1>9, FiveKinds, RestKinds

-----------------------------------------------------------------------------
\* The invariant holds before a context is created.
LEMMA Initially == Init => IInv
<1> SUFFICES ASSUME Init PROVE IInv
  OBVIOUS
<1> USE ContextAssumption DEF Init, NoRequest
<1>1. TypeOK
  <2>1. NoRequest \in UpdateRequest
    BY DEF UpdateRequest, RequestType
  <2>2. /\ requestQueue \in Seq(UpdateRequest) /\ log \in Seq(UpdateRequest)
        /\ request \in UpdateRequest /\ req \in [Clients -> UpdateRequest]
    BY <2>1
  <2>3. env \in [Carriers -> [current_cell : Nat, prev_location : Nat,
                             prediction : [cell : Nat, from : Nat, at : Nat]]]
    BY DEF NewEnv
  <2> QED
    BY <2>2, <2>3 DEF TypeOK, Outside
<1>2. LockInv
  BY DEF LockInv
<1>3. ~Pushing /\ Len(requestQueue) = 0
  BY DEF Pushing
<1>4. Popped = 0
  BY <1>3 DEF Popped, Pushed
<1>5. QueueInv /\ RequestInv /\ AppliedInv /\ WaitedInv
  BY <1>3, <1>4 DEF QueueInv, RequestInv, AppliedInv, WaitedInv
<1>6. StopInv /\ StartInv /\ NoLostNotify
  BY DEF StopInv, StartInv, NoLostNotify, Closing, Outside
<1>7. QED
  BY <1>1, <1>2, <1>5, <1>6 DEF IInv

\* The inductive invariant holds in every reachable state.
THEOREM Invariance == Spec => []IInv
<1>1. IInv /\ [Next]_vars => IInv'
  BY TypeStep, LockStep, QueueStep, RequestStep, AppliedStep, WaitedStep, StopStep,
     StartStep, NotifyStep DEF IInv
<1>2. QED
  BY Initially, <1>1, PTL DEF Spec

\* The variables keep their types, whatever the threads do.
THEOREM TypeCorrect == Spec => []TypeOK
<1>1. IInv => TypeOK
  BY DEF IInv
<1>2. QED
  BY <1>1, Invariance, PTL

\* The ids pushed, queued and applied are three adjacent intervals.
LEMMA Intervals ==
  ASSUME IInv
  PROVE  ExactlyOnce
<1> USE DEF IInv
<1> DEFINE L == Len(requestQueue)
<1>1. L \in Nat /\ Popped \in Nat /\ Pushed = Popped + L /\ total_jobs \in Nat
  BY CountTypes DEF QueueInv
<1>2. QueuedIds = (Popped + 1)..Pushed
  <2>1. \A i \in 1..L : requestQueue[i].jobid = Popped + i
    BY DEF QueueInv
  <2>2. ASSUME NEW k \in (Popped + 1)..Pushed PROVE k \in QueuedIds
    <3>1. k - Popped \in 1..L /\ Popped + (k - Popped) = k
      BY <1>1
    <3>2. requestQueue[k - Popped].jobid = k
      BY <2>1, <3>1
    <3> QED
      BY <3>1, <3>2 DEF QueuedIds
  <2>3. ASSUME NEW k \in QueuedIds PROVE k \in (Popped + 1)..Pushed
    <3>1. PICK i \in 1..L : k = requestQueue[i].jobid
      BY DEF QueuedIds
    <3>2. k = Popped + i
      BY <2>1, <3>1
    <3> QED
      BY <1>1, <3>2
  <2> QED
    BY <2>2, <2>3
<1>3. PushedIds = IF Pushing THEN {total_jobs} ELSE {}
  BY DEF PushedIds, Pushing, QueueInv
<1>4. Pushing => Pushed = total_jobs - 1
  BY CountTypes
<1>5. ~Pushing => Pushed = total_jobs
  BY CountTypes
<1>6. applied = 1..(IF mainpc = "popping" THEN Popped + 1 ELSE Popped)
  BY DEF AppliedInv
<1>7. mainpc = "popping" => L # 0 /\ Head(requestQueue).jobid = Popped + 1
  <2>1. mainpc = "popping" => requestQueue # <<>>
    BY DEF RequestInv
  <2>2. requestQueue # <<>> => L # 0
    BY DEF TypeOK
  <2> QED
    BY <2>1, <2>2, HeadIsNext
<1>8. PushedIds \cup QueuedIds \cup applied = 1..total_jobs
  BY <1>1, <1>2, <1>3, <1>4, <1>5, <1>6, <1>7
<1>9. PushedIds \cap (QueuedIds \cup applied) = {}
  BY <1>1, <1>2, <1>3, <1>4, <1>6, <1>7
<1>10. QueuedIds \cap applied \subseteq
           (IF mainpc = "popping" THEN {Head(requestQueue).jobid} ELSE {})
  BY <1>1, <1>2, <1>6, <1>7
<1>11. QED
  BY <1>8, <1>9, <1>10 DEF ExactlyOnce

\* No request is lost, queued twice or processed twice.
THEOREM EachRequestOnce == Spec => []ExactlyOnce
<1>1. IInv => ExactlyOnce
  BY Intervals
<1>2. QED
  BY <1>1, Invariance, PTL

\* Requests are processed in the order of their job ids, one at a time, also
\* when several clients race for the next id.
AppliedInOrder == \A j \in applied : 1..j \subseteq applied

\* The order holds even if a torn size() lets wait() return too early.
THEOREM InOrder == Spec => []AppliedInOrder
<1>1. IInv => AppliedInOrder
  BY DEF IInv, QueueInv, AppliedInv, AppliedInOrder
<1>2. QED
  BY <1>1, Invariance, PTL

\* The finished job id, and what any client has read of it, never run ahead of
\* what has been processed.
THEOREM ReportsAreTrue == Spec => []FinishedMeansApplied
<1>1. IInv => FinishedMeansApplied
  <2> SUFFICES ASSUME IInv PROVE FinishedMeansApplied
    OBVIOUS
  <2>1. /\ Popped \in Nat /\ finished_jobid \in Nat /\ seen \in [Clients -> Nat]
        /\ finished_jobid <= Popped /\ \A c \in Clients : seen[c] <= finished_jobid
    BY DEF IInv, QueueInv, AppliedInv, TypeOK
  <2>2. 1..Popped \subseteq applied
    BY <2>1 DEF IInv, AppliedInv
  <2> QED
    BY <2>1, <2>2 DEF FinishedMeansApplied
<1>2. QED
  BY <1>1, Invariance, PTL

\* The reported job id never goes back while a context lives.
THEOREM ReportsNeverGoBack == Spec => FinishedNeverGoesBack
<1>1. IInv /\ [Next]_vars => [pDBContext /\ pDBContext' => finished_jobid' >= finished_jobid]_vars
  <2> SUFFICES ASSUME IInv, [Next]_vars, pDBContext
               PROVE  finished_jobid' >= finished_jobid
    OBVIOUS
  <2>0. finished_jobid \in Nat /\ TypeOK /\ LockInv /\ RequestInv /\ StopInv
    BY DEF IInv, TypeOK
  <2>1. CASE Finish
    <3>1. finished_jobid' = Popped /\ finished_jobid <= Popped /\ Popped \in Nat
      BY <2>1 DEF IInv, Finish, RequestInv, AppliedInv, QueueInv
    <3> QED
      BY <2>0, <3>1
  <2>2. CASE GetDatabaseContext
    BY <2>2 DEF GetDatabaseContext
  <2>3. ASSUME NEW c \in Clients, Draw(c) \/ Push(c) \/ Waiting(c)
        PROVE  finished_jobid' = finished_jobid
    BY <2>0, <2>3, DrawKeepsPushed, PushCounts
       DEF Waiting, Wait, CheckEmpty, CheckNotEmpty, Sleep, SpuriousWakeup, Reacquire,
           GetFinishedJobid, ClientStep
  <2>4. ASSUME NEW cr \in Carriers, Initialize(cr) \/ Process(cr)
        PROVE  finished_jobid' = finished_jobid
    BY <2>4 DEF Initialize, Process, ProcessGPS, ProcessCell
  <2>5. ASSUME Destroy \/ MainStart \/ Top \/ BeginPop \/ Pop \/ LockWait \/ Notify
        PROVE  finished_jobid' = finished_jobid
    BY <2>5 DEF Destroy, MainStart, Top, BeginPop, Pop, LockWait,
       Notify, NotifyFrame, Wake, EndIf
  <2>6. ASSUME UNCHANGED vars PROVE finished_jobid' = finished_jobid
    BY <2>6 DEF vars
  <2>7. QED
    BY <2>0, <2>1, <2>2, <2>3, <2>4, <2>5, <2>6, StepCases
<1>2. QED
  BY <1>1, Invariance, PTL DEF Spec, FinishedNeverGoesBack

\* If a size() that overlaps a pop() reads the old or the new size, a client
\* returns from wait() only when everything it uploaded has been processed.
THEOREM WaitIsABarrier ==
  ASSUME ~TornRead
  PROVE  Spec => []WaitMeansApplied
<1>1. IInv => WaitMeansApplied
  <2> SUFFICES ASSUME IInv, NEW c \in Clients, pc[c] \in {"waited", "asked"}
               PROVE  1..job[c] \subseteq applied
    BY DEF WaitMeansApplied
  <2>1. job[c] <= Popped /\ job[c] \in Nat /\ Popped \in Nat
    BY DEF IInv, WaitedInv, QueueInv, TypeOK
  <2>2. 1..Popped \subseteq applied
    BY <2>1 DEF IInv, AppliedInv
  <2> QED
    BY <2>1, <2>2
<1>2. QED
  BY <1>1, Invariance, PTL

\* A client never sleeps in wait() on an empty queue without a notification on
\* its way, even if the size it read was torn.
THEOREM NotifiesAreNotLost == Spec => []NoLostNotify
<1>1. IInv => NoLostNotify
  BY DEF IInv
<1>2. QED
  BY <1>1, Invariance, PTL

\* With an empty queue and nobody about to push, everything has been processed.
LEMMA NothingLeft ==
  ASSUME IInv, requestQueue = <<>>, ~Pushing
  PROVE  applied = 1..total_jobs
<1>1. Len(requestQueue) = 0
  OBVIOUS
<1>2. Popped = total_jobs
  BY <1>1, CountTypes DEF IInv
<1>3. mainpc # "popping"
  BY DEF IInv, RequestInv
<1>4. QED
  BY <1>2, <1>3 DEF IInv, AppliedInv

\* A context that was deleted after an upload and a wait() has nothing left to do.
LEMMA ClosedIsDone ==
  ASSUME IInv, WaitBeforeDelete, ~pDBContext
  PROVE  mainpc \in {"none", "ended"} /\ applied = 1..total_jobs
<1>1. mainpc \in {"none", "ended"}
  BY DEF IInv, StopInv, StartInv
<1>2. requestQueue = <<>> /\ ~Pushing
  BY <1>1 DEF IInv, StopInv, Pushing, Outside
<1>3. QED
  BY <1>1, <1>2, NothingLeft

\* A context that is deleted right after an upload and a wait() outlives the
\* thread of its mainLoop, and has processed every request it accepted.
THEOREM DestructorIsSafe ==
  ASSUME WaitBeforeDelete
  PROVE  Spec => []DestructorWaits
<1>1. IInv => DestructorWaits
  BY ClosedIsDone DEF DestructorWaits
<1>2. QED
  BY <1>1, Invariance, PTL

-----------------------------------------------------------------------------
(* Predictions are made of the uploads they name.                          *)

\* The log holds every request pushed in this context, the queue is its end, and
\* a location is uploaded for all carriers.
LogInv ==
    /\ Len(requestQueue) <= Len(log)
    /\ \A i \in 1..Len(log) : /\ log[i].jobid = Pushed - Len(log) + i
                              /\ log[i].type = "GPS" => log[i].carrier = NoCarrier
    /\ \A i \in 1..Len(requestQueue) :
           requestQueue[i] = log[Len(log) - Len(requestQueue) + i]
    /\ \A c \in Clients : pc[c] = "push" /\ req[c].type = "GPS" => req[c].carrier = NoCarrier

\* LastBefore for any log, and the jobs it chooses from.
Ids(l, type, cr, j) == {l[i].jobid : i \in {k \in DOMAIN l :
                           /\ l[k].type = type
                           /\ l[k].carrier = cr
                           /\ l[k].jobid < j}}
LastIn(l, type, cr, j) ==
    CHOOSE m \in Ids(l, type, cr, j) \cup {0} : \A k \in Ids(l, type, cr, j) : k <= m

\* The first job that has not been applied to cr yet.
Due == [cr \in Carriers |-> IF mainpc = "popping" \/ (mainpc = "switch" /\ cr \notin todo)
                           THEN Popped + 2 ELSE Popped + 1]

\* The request at work is for the carriers it still has to be applied to.
TodoInv == mainpc = "switch" => todo \subseteq Targets(request)

\* A carrier has the newest cell and location of the jobs applied to it.
EnvInv ==
    \A cr \in carriers :
        /\ env[cr].current_cell = LastIn(log, "CELL", cr, Due[cr])
        /\ env[cr].prev_location = LastIn(log, "GPS", NoCarrier, Due[cr])
        /\ env[cr].prediction.at < Due[cr]

\* PredictionMatchesUploads, on the log.
MadeOf ==
    \A cr \in carriers :
        env[cr].prediction.at # 0 =>
            /\ env[cr].prediction.cell = LastIn(log, "CELL", cr, env[cr].prediction.at)
            /\ env[cr].prediction.from = LastIn(log, "GPS", NoCarrier, env[cr].prediction.at)

\* LastBefore is LastIn of the log.
LEMMA LastIs ==
  ASSUME NEW type, NEW cr, NEW j
  PROVE  LastBefore(type, cr, j) = LastIn(log, type, cr, j)
  BY DEF LastBefore, LastIn, Ids

\* The last request of a kind depends on nothing but the ids of that kind.
LEMMA LastIsSame ==
  ASSUME NEW l, NEW m, NEW type, NEW cr, NEW j, NEW k, Ids(l, type, cr, j) = Ids(m, type, cr, k)
  PROVE  LastIn(l, type, cr, j) = LastIn(m, type, cr, k)
  BY DEF LastIn

\* What Push makes of the log.
LEMMA PushLog ==
  ASSUME TypeOK, LockInv, QueueInv, LogInv, NEW c \in Clients, Push(c)
  PROVE  /\ Len(log) \in Nat /\ Len(log') = Len(log) + 1
         /\ DOMAIN log = 1..Len(log) /\ DOMAIN log' = 1..(Len(log) + 1)
         /\ \A i \in 1..Len(log) : log'[i] = log[i]
         /\ log'[Len(log) + 1] = req[c] /\ req[c].jobid = Pushed + 1
         /\ UNCHANGED <<carriers, env, mainpc, todo, req>>
<1>1. /\ log \in Seq(UpdateRequest) /\ req[c] \in UpdateRequest
      /\ log' = Append(log, req[c])
      /\ pc[c] = "push"
      /\ UNCHANGED <<carriers, env, mainpc, todo, req>>
  BY DEF Push, TypeOK, mainVars
<1>2. /\ Len(log) \in Nat /\ Len(log') = Len(log) + 1 /\ log' \in Seq(UpdateRequest)
      /\ \A i \in 1..Len(log) : log'[i] = log[i]
      /\ log'[Len(log) + 1] = req[c]
  BY <1>1, AppendProperties, LenProperties
<1>3. DOMAIN log = 1..Len(log) /\ DOMAIN log' = 1..(Len(log) + 1)
  BY <1>1, <1>2, LenProperties
<1>4. req[c].jobid = Pushed + 1
  <2>1. req[c].jobid = total_jobs /\ Pushing /\ total_jobs \in Nat
    BY <1>1 DEF QueueInv, Pushing, TypeOK
  <2> QED
    BY <2>1, CountTypes
<1> QED
  BY <1>1, <1>2, <1>3, <1>4

\* A push does not change what came before it.
LEMMA LastIsKept ==
  ASSUME TypeOK, LockInv, QueueInv, LogInv, NEW c \in Clients, Push(c),
         NEW type, NEW cr, NEW j \in Int, j <= Pushed + 1
  PROVE  LastIn(log', type, cr, j) = LastIn(log, type, cr, j)
<1> DEFINE Chosen(l, i) == l[i].type = type /\ l[i].carrier = cr /\ l[i].jobid < j
<1>1. Ids(log, type, cr, j) = {log[i].jobid : i \in {k \in 1..Len(log) : Chosen(log, k)}}
  BY PushLog DEF Ids
<1>2. Ids(log', type, cr, j) = {log'[i].jobid : i \in {k \in 1..(Len(log) + 1) : Chosen(log', k)}}
  BY PushLog DEF Ids
<1>3. ~Chosen(log', Len(log) + 1)
  BY PushLog, CountTypes
<1>4. {k \in 1..(Len(log) + 1) : Chosen(log', k)} = {k \in 1..Len(log) : Chosen(log, k)}
  <2> HIDE DEF Chosen
  <2>1. \A k \in 1..Len(log) : Chosen(log', k) <=> Chosen(log, k)
    BY PushLog DEF Chosen
  <2>2. Len(log) \in Nat
    BY PushLog
  <2> QED
    BY <1>3, <2>1, <2>2
<1>5. Ids(log', type, cr, j) = Ids(log, type, cr, j)
  <2> HIDE DEF Chosen
  <2>1. Ids(log', type, cr, j) = {log'[i].jobid : i \in {k \in 1..Len(log) : Chosen(log, k)}}
    BY <1>2, <1>4
  <2> QED
    BY <1>1, <2>1, PushLog
<1> QED
  BY <1>5, LastIsSame

\* An empty log has no last request.
LEMMA LastOfNothing ==
  ASSUME NEW type, NEW cr, NEW j
  PROVE  LastIn(<<>>, type, cr, j) = 0
<1>1. Ids(<<>>, type, cr, j) = {}
  BY DEF Ids
<1> QED
  BY <1>1 DEF LastIn

\* The request at the head of the queue is the job Popped + 1 of the log.
LEMMA HeadInLog ==
  ASSUME TypeOK, QueueInv, LogInv, requestQueue # <<>>
  PROVE  \E i \in DOMAIN log : /\ log[i] = Head(requestQueue)
                               /\ log[i].jobid = Popped + 1
                               /\ log[i].type = "GPS" => log[i].carrier = NoCarrier
                               /\ \A k \in DOMAIN log : log[k].jobid = Popped + 1 => k = i
<1> DEFINE i == Len(log) - Len(requestQueue) + 1
<1>1. log \in Seq(UpdateRequest) /\ requestQueue \in Seq(UpdateRequest)
  BY DEF TypeOK
<1>2. /\ Len(log) \in Nat /\ Len(requestQueue) \in Nat \ {0} /\ DOMAIN log = 1..Len(log)
      /\ Head(requestQueue) = requestQueue[1]
  BY <1>1, LenProperties, EmptySeq
<1>3. i \in 1..Len(log) /\ 1 \in 1..Len(requestQueue)
  BY <1>2 DEF LogInv
<1>4. log[i] = requestQueue[1]
  BY <1>2, <1>3 DEF LogInv
<1>5. Pushed \in Int /\ Popped = Pushed - Len(requestQueue)
  BY CountTypes
<1>6. \A k \in 1..Len(log) : log[k].jobid = Pushed - Len(log) + k
  BY DEF LogInv
<1>7. \A k \in 1..Len(log) : log[k].jobid = Popped + 1 => k = i
  BY <1>2, <1>5, <1>6
<1>8. log[i].jobid = Popped + 1
  BY <1>2, <1>3, <1>5, <1>6
<1> QED
  BY <1>2, <1>3, <1>4, <1>7, <1>8 DEF LogInv

\* How the head of the queue counts for what comes after it.
LEMMA LastAfterHead ==
  ASSUME TypeOK, QueueInv, LogInv, requestQueue # <<>>, NEW type, NEW cr
  PROVE  LastIn(log, type, cr, Popped + 2) =
             IF Head(requestQueue).type = type /\ Head(requestQueue).carrier = cr
             THEN Popped + 1 ELSE LastIn(log, type, cr, Popped + 1)
<1> DEFINE r == Head(requestQueue)
           Fits(k) == log[k].type = type /\ log[k].carrier = cr
<1>1. PICK i \in DOMAIN log : /\ log[i] = r /\ log[i].jobid = Popped + 1
                              /\ \A k \in DOMAIN log : log[k].jobid = Popped + 1 => k = i
  <2>1. \E i \in DOMAIN log : /\ log[i] = Head(requestQueue)
                              /\ log[i].jobid = Popped + 1
                              /\ log[i].type = "GPS" => log[i].carrier = NoCarrier
                              /\ \A k \in DOMAIN log : log[k].jobid = Popped + 1 => k = i
    BY HeadInLog
  <2> QED
    BY <2>1
<1>2. \A k \in DOMAIN log : log[k].jobid \in Nat
  <2>1. log \in Seq(UpdateRequest)
    BY DEF TypeOK
  <2>2. \A k \in DOMAIN log : log[k] \in UpdateRequest
    BY <2>1, LenProperties, ElementOfSeq
  <2> QED
    BY <2>2 DEF UpdateRequest
<1>3. Popped \in Nat
  BY DEF QueueInv
<1>4. \A k \in DOMAIN log : log[k].jobid < Popped + 2 <=> log[k].jobid < Popped + 1 \/ k = i
  BY <1>1, <1>2, <1>3
<1>5. Ids(log, type, cr, Popped + 1) = {log[k].jobid : k \in {n \in DOMAIN log : Fits(n) /\ log[n].jobid < Popped + 1}}
  BY DEF Ids
<1>6. Ids(log, type, cr, Popped + 2) = {log[k].jobid : k \in {n \in DOMAIN log : Fits(n) /\ log[n].jobid < Popped + 2}}
  BY DEF Ids
<1>7. CASE ~Fits(i)
  <2>1. {n \in DOMAIN log : Fits(n) /\ log[n].jobid < Popped + 2}
          = {n \in DOMAIN log : Fits(n) /\ log[n].jobid < Popped + 1}
    <3> HIDE DEF Fits
    <3> QED
      BY <1>4, <1>7
  <2>2. Ids(log, type, cr, Popped + 2) = Ids(log, type, cr, Popped + 1)
    BY <1>5, <1>6, <2>1
  <2> QED
    BY <1>1, <1>7, <2>2, LastIsSame
<1>8. CASE Fits(i)
  <2>1. \A k \in Ids(log, type, cr, Popped + 2) : k \in Nat /\ k <= Popped + 1
    BY <1>2, <1>3, <1>6
  <2>2. Popped + 1 \in Ids(log, type, cr, Popped + 2)
    BY <1>1, <1>3, <1>6, <1>8
  <2>3. ASSUME NEW m \in Ids(log, type, cr, Popped + 2) \cup {0},
               \A k \in Ids(log, type, cr, Popped + 2) : k <= m
        PROVE  m = Popped + 1
    BY <1>3, <2>1, <2>2, <2>3
  <2>4. \A k \in Ids(log, type, cr, Popped + 2) : k <= Popped + 1
    BY <2>1
  <2>5. LastIn(log, type, cr, Popped + 2) = Popped + 1
    <3> HIDE DEF Fits
    <3> QED
      BY <2>2, <2>3, <2>4 DEF LastIn
  <2> QED
    BY <1>1, <1>8, <2>5
<1> QED
  BY <1>7, <1>8

-----------------------------------------------------------------------------
\* Each step keeps the log in the order of the job ids.
LEMMA LogStep ==
  ASSUME TypeOK, LockInv, QueueInv, RequestInv, StopInv, LogInv, [Next]_vars
  PROVE  LogInv'
<1> USE DEF mainVars, clientVars, lockVars, history
<1>0. /\ log \in Seq(UpdateRequest) /\ requestQueue \in Seq(UpdateRequest)
      /\ req \in [Clients -> UpdateRequest]
      /\ Len(log) \in Nat /\ Len(requestQueue) \in Nat
  BY LenProperties DEF TypeOK
<1>1. CASE GetDatabaseContext
  <2>1. log' = <<>> /\ requestQueue' = <<>> /\ \A c \in Clients : pc'[c] = "idle"
    BY <1>1 DEF GetDatabaseContext
  <2> QED
    BY <2>1 DEF LogInv
<1>2. ASSUME NEW c \in Clients, Draw(c) PROVE LogInv'
  <2>1. PICK type \in RequestType, cr \in Carriers \cup {NoCarrier} :
             DrawJobid(c, type, cr) /\ (type = "GPS" => cr = NoCarrier)
    BY <1>2 DEF Draw
  <2>2. log' = log /\ requestQueue' = requestQueue /\ Pushed' = Pushed
    BY <1>2, <2>1, DrawKeepsPushed DEF DrawJobid
  <2>3. req' = [req EXCEPT ![c] = [type |-> type, carrier |-> cr, jobid |-> total_jobs + 1]]
    BY <2>1 DEF DrawJobid
  <2>4. \A d \in Clients : pc'[d] = "push" => d = c
    BY <1>2, DrawKeepsPushed DEF Pushing
  <2>5. \A d \in Clients : pc'[d] = "push" /\ req'[d].type = "GPS" => req'[d].carrier = NoCarrier
    BY <1>0, <2>1, <2>3, <2>4
  <2> QED
    BY <2>2, <2>5 DEF LogInv
<1>3. ASSUME NEW c \in Clients, Push(c) PROVE LogInv'
  <2>1. /\ Pushed' = Pushed + 1 /\ Pushed \in Int
        /\ requestQueue' = Append(requestQueue, req[c])
        /\ Len(requestQueue') = Len(requestQueue) + 1
        /\ \A d \in Clients \ {c} : pc'[d] = pc[d]
        /\ req' = req /\ pc'[c] # "push"
    BY <1>3, PushCounts, CountTypes
  <2>2. /\ \A i \in 1..Len(requestQueue) : requestQueue'[i] = requestQueue[i]
        /\ requestQueue'[Len(requestQueue) + 1] = req[c]
    BY <1>0, <2>1, AppendProperties
  <2>3. /\ Len(log') = Len(log) + 1
        /\ \A i \in 1..Len(log) : log'[i] = log[i]
        /\ log'[Len(log) + 1] = req[c] /\ req[c].jobid = Pushed + 1
    BY <1>3, PushLog
  <2>4. ASSUME NEW i \in 1..Len(log')
        PROVE  /\ log'[i].jobid = Pushed' - Len(log') + i
               /\ log'[i].type = "GPS" => log'[i].carrier = NoCarrier
    <3>1. CASE i = Len(log) + 1
      <4>1. req[c].type = "GPS" => req[c].carrier = NoCarrier
        BY <1>3 DEF Push, LogInv
      <4> QED
        BY <1>0, <2>1, <2>3, <3>1, <4>1
    <3>2. CASE i \in 1..Len(log)
      BY <1>0, <2>1, <2>3, <3>2 DEF LogInv
    <3> QED
      BY <1>0, <2>3, <3>1, <3>2
  <2>5. ASSUME NEW i \in 1..Len(requestQueue')
        PROVE  requestQueue'[i] = log'[Len(log') - Len(requestQueue') + i]
    <3>1. CASE i = Len(requestQueue) + 1
      BY <1>0, <2>1, <2>2, <2>3, <3>1
    <3>2. CASE i \in 1..Len(requestQueue)
      <4>1. Len(log) - Len(requestQueue) + i \in 1..Len(log)
        BY <1>0, <3>2 DEF LogInv
      <4>2. Len(log') - Len(requestQueue') + i = Len(log) - Len(requestQueue) + i
        BY <1>0, <2>1, <2>3
      <4> QED
        BY <2>2, <2>3, <3>2, <4>1, <4>2 DEF LogInv
    <3> QED
      BY <1>0, <2>1, <3>1, <3>2
  <2>6. Len(requestQueue') <= Len(log')
    BY <1>0, <2>1, <2>3 DEF LogInv
  <2>7. \A d \in Clients : pc'[d] = "push" /\ req'[d].type = "GPS" => req'[d].carrier = NoCarrier
    BY <2>1 DEF LogInv
  <2> QED
    BY <2>4, <2>5, <2>6, <2>7 DEF LogInv
<1>4. CASE Pop
  <2>1. /\ requestQueue # <<>> /\ requestQueue' = Tail(requestQueue)
        /\ Len(requestQueue') = Len(requestQueue) - 1
        /\ Pushed' = Pushed /\ log' = log /\ req' = req /\ pc' = pc
    BY <1>4, PopCounts DEF Pop
  <2>2. \A i \in 1..Len(requestQueue') : requestQueue'[i] = requestQueue[i + 1]
    BY <1>0, <2>1, HeadTailProperties
  <2>3. ASSUME NEW i \in 1..Len(requestQueue')
        PROVE  requestQueue'[i] = log'[Len(log') - Len(requestQueue') + i]
    <3>1. i + 1 \in 1..Len(requestQueue)
      BY <1>0, <2>1
    <3>2. requestQueue[i + 1] = log[Len(log) - Len(requestQueue) + (i + 1)]
      BY <3>1 DEF LogInv
    <3>3. Len(log) - Len(requestQueue) + (i + 1) = Len(log') - Len(requestQueue') + i
      BY <1>0, <2>1
    <3> QED
      BY <2>1, <2>2, <3>2, <3>3
  <2>4. Len(requestQueue') <= Len(log')
    BY <1>0, <2>1 DEF LogInv
  <2> QED
    BY <2>1, <2>3, <2>4 DEF LogInv
<1>5. CASE Rest
  <2>1. log' = log
    BY <1>5 DEF Rest, Initialize, Destroy, Waiting, Wait, CheckEmpty, CheckNotEmpty, Sleep,
                SpuriousWakeup, Reacquire, GetFinishedJobid, ClientStep, MainStart, Top,
                Process, ProcessGPS, ProcessCell, BeginPop, Finish, LockWait, Notify,
                NotifyFrame, vars
  <2> QED
    BY <1>5, <2>1, RestFrame DEF LogInv
<1>6. QED
  BY <1>1, <1>2, <1>3, <1>4, <1>5, FiveKinds
-----------------------------------------------------------------------------
\* The steps that change neither the log, nor a carrier, nor how far its
\* environment is.
LEMMA SameEnv ==
  ASSUME EnvInv, MadeOf, UNCHANGED <<log, carriers, env>>,
         \A cr \in carriers : Due'[cr] = Due[cr]
  PROVE  EnvInv' /\ MadeOf'
  BY DEF EnvInv, MadeOf

\* How far the environments are depends on mainLoop and the queue only.
LEMMA SameDue ==
  ASSUME UNCHANGED <<mainpc, todo>>, Popped' = Popped
  PROVE  Due' = Due
  BY DEF Due

\* A step of mainLoop or of a client that neither uploads nor applies a request
\* to a carrier.
IdleStep == \/ \E c \in Clients : Draw(c) \/ Waiting(c)
        \/ Destroy \/ MainStart \/ BeginPop \/ Pop \/ Finish \/ LockWait \/ Notify
        \/ UNCHANGED vars

\* The steps outside of processGPS and processCell change nothing of what a carrier is due.
LEMMA IdleDue ==
  ASSUME TypeOK, LockInv, QueueInv, RequestInv, StopInv, IdleStep
  PROVE  Due' = Due
<1> USE DEF mainVars, clientVars, lockVars, history
<1>1. CASE \/ \E c \in Clients : Draw(c) \/ Waiting(c)
           \/ Destroy \/ UNCHANGED vars
  <2>1. UNCHANGED <<mainpc, todo>>
    BY <1>1 DEF Draw, DrawJobid, Destroy, Waiting, Wait, CheckEmpty, CheckNotEmpty, Sleep,
         SpuriousWakeup, Reacquire, GetFinishedJobid, ClientStep, vars
  <2>2. Popped' = Popped
    BY <1>1, DrawKeepsPushed, RestFrame DEF Rest
  <2> QED
    BY <2>1, <2>2, SameDue
<1>2. CASE Pop
  <2>1. mainpc = "popping" /\ mainpc' = "finish" /\ Popped' = Popped + 1 /\ Popped \in Nat
    BY <1>2, PopCounts DEF QueueInv, Pop
  <2> HIDE DEF Popped
  <2> QED
    BY <2>1 DEF Due
<1>3. CASE MainStart \/ BeginPop \/ Finish \/ LockWait \/ Notify
  <2>1. Popped' = Popped
    BY <1>3, RestFrame DEF Rest
  <2>2. /\ todo' = todo
        /\ \/ mainpc' \notin {"switch", "popping"} /\ mainpc \notin {"switch", "popping"}
           \/ mainpc = "switch" /\ todo = {} /\ mainpc' = "popping"
    BY <1>3 DEF MainStart, BeginPop, Finish, LockWait, Notify, NotifyFrame, EndIf
  <2> HIDE DEF Popped
  <2> QED
    BY <2>1, <2>2 DEF Due
<1> QED
  BY <1>1, <1>2, <1>3 DEF IdleStep

\* The steps outside of processGPS and processCell keep the carriers as they are due.
LEMMA IdleEnv ==
  ASSUME TypeOK, LockInv, QueueInv, RequestInv, StopInv, EnvInv, MadeOf, IdleStep
  PROVE  EnvInv' /\ MadeOf'
<1>1. UNCHANGED <<log, carriers, env>>
  BY DEF IdleStep, Draw, DrawJobid, Destroy, Waiting, Wait, CheckEmpty, CheckNotEmpty, Sleep,
         SpuriousWakeup, Reacquire, GetFinishedJobid, ClientStep, MainStart, BeginPop, Pop,
         Finish, LockWait, Notify, NotifyFrame, vars, history, clientVars, mainVars
<1>2. Due' = Due
  BY IdleDue
<1> QED
  BY <1>1, <1>2, SameEnv

\* The environments when mainLoop is between two requests, and while it is at
\* work on one.
LEMMA DueIs ==
  ASSUME TypeOK, QueueInv
  PROVE  /\ Popped \in Nat /\ carriers \subseteq Carriers
         /\ \A cr \in carriers : Due[cr] \in {Popped + 1, Popped + 2}
         /\ mainpc \notin {"switch", "popping"} => \A cr \in carriers : Due[cr] = Popped + 1
         /\ mainpc = "switch" => \A cr \in carriers :
                Due[cr] = IF cr \in todo THEN Popped + 1 ELSE Popped + 2
  BY DEF TypeOK, QueueInv, Due

\* Each step keeps every carrier at the requests it is due, and its prediction made of
\* matching ones.
LEMMA EnvStep ==
  ASSUME TypeOK, LockInv, QueueInv, RequestInv, StopInv, LogInv, TodoInv,
         EnvInv, MadeOf, [Next]_vars
  PROVE  EnvInv' /\ MadeOf'
<1> USE DEF mainVars, clientVars, lockVars, history
<1>0. /\ Popped \in Nat /\ carriers \subseteq Carriers
      /\ env \in [Carriers -> [current_cell : Nat, prev_location : Nat,
                              prediction : [cell : Nat, from : Nat, at : Nat]]]
  BY DueIs DEF TypeOK
<1>1. CASE GetDatabaseContext
  BY <1>1 DEF GetDatabaseContext, EnvInv, MadeOf
<1>2. ASSUME NEW cr \in Carriers, Initialize(cr) PROVE EnvInv' /\ MadeOf'
  <2>1. /\ carriers' = carriers \cup {cr} /\ log' = log /\ log = <<>>
        /\ env' = [env EXCEPT ![cr] = IF cr \in carriers THEN @ ELSE NewEnv]
        /\ UNCHANGED <<mainpc, todo>>
    BY <1>2 DEF Initialize
  <2>2. Due' = Due
    <3>1. Popped' = Popped
      BY <1>2, RestFrame DEF Rest
    <3> QED
      BY <2>1, <3>1, SameDue
  <2>3. \A d \in carriers' : (d \in carriers /\ env'[d] = env[d]) \/ env'[d] = NewEnv
    BY <1>0, <2>1
  <2>4. \A d \in carriers' : Due[d] > 0
    BY <1>0, <2>1 DEF Due
  <2>5. \A type, d, j : LastIn(log, type, d, j) = 0
    BY <2>1, LastOfNothing
  <2>6. EnvInv'
    BY <2>1, <2>2, <2>3, <2>4, <2>5 DEF EnvInv, NewEnv
  <2>7. MadeOf'
    BY <2>1, <2>3 DEF MadeOf, NewEnv
  <2> QED
    BY <2>6, <2>7
<1>3. ASSUME NEW c \in Clients, Push(c) PROVE EnvInv' /\ MadeOf'
  <2>1. UNCHANGED <<carriers, env, mainpc, todo>> /\ Popped' = Popped
    BY <1>3, PushLog, PushCounts
  <2>2. Due' = Due
    BY <2>1, SameDue
  <2>3. ASSUME NEW d \in carriers PROVE Due[d] \in Int /\ Due[d] <= Pushed + 1
    <3>1. CASE mainpc \in {"switch", "popping"}
      <4>1. Len(requestQueue) # 0
        BY <3>1 DEF RequestInv, TypeOK
      <4>2. Due[d] \in {Popped + 1, Popped + 2}
        BY DueIs
      <4>3. Popped = Pushed - Len(requestQueue) /\ Len(requestQueue) \in Nat /\ Pushed \in Int
        BY CountTypes
      <4> QED
        BY <1>0, <4>1, <4>2, <4>3
    <3>2. CASE mainpc \notin {"switch", "popping"}
      BY <1>0, <3>2, DueIs, CountTypes, SMTT(30)
    <3> QED
      BY <3>1, <3>2
  <2>4. \A d \in carriers : env[d].prediction.at \in Nat
    BY <1>0
  <2>5. \A d \in carriers : env[d].prediction.at <= Pushed + 1
    BY <2>3, <2>4, CountTypes DEF EnvInv
  <2>6. EnvInv'
    BY <1>3, <2>1, <2>2, <2>3, LastIsKept DEF EnvInv
  <2>7. MadeOf'
    BY <1>3, <2>1, <2>4, <2>5, LastIsKept DEF MadeOf
  <2> QED
    BY <2>6, <2>7
<1>4. CASE Top
  <2>1. /\ UNCHANGED <<carriers, env, log>> /\ requestQueue # <<>>
        /\ mainpc = "top" /\ mainpc' = "switch" /\ todo' = Targets(Head(requestQueue))
    BY <1>4 DEF Top
  <2>2. Popped' = Popped
    BY <1>4, RestFrame DEF Rest
  <2>3. ASSUME NEW d \in carriers
        PROVE  /\ env[d].current_cell = LastIn(log, "CELL", d, Due'[d])
               /\ env[d].prev_location = LastIn(log, "GPS", NoCarrier, Due'[d])
               /\ env[d].prediction.at < Due'[d]
    <3>1. /\ env[d].current_cell = LastIn(log, "CELL", d, Popped + 1)
          /\ env[d].prev_location = LastIn(log, "GPS", NoCarrier, Popped + 1)
          /\ env[d].prediction.at < Popped + 1
      BY <2>1, DueIs DEF EnvInv
    <3>2. CASE d \in todo'
      BY <1>0, <2>1, <2>2, <3>1, <3>2 DEF Due
    <3>3. CASE d \notin todo'
      <4>1. Due'[d] = Popped + 2
        BY <1>0, <2>1, <2>2, <3>3 DEF Due
      <4>2. /\ Head(requestQueue).type # "GPS"
            /\ ~(Head(requestQueue).type = "CELL" /\ Head(requestQueue).carrier = d)
        BY <2>1, <3>3 DEF Targets
      <4>3. /\ LastIn(log, "CELL", d, Popped + 2) = LastIn(log, "CELL", d, Popped + 1)
            /\ LastIn(log, "GPS", NoCarrier, Popped + 2) = LastIn(log, "GPS", NoCarrier, Popped + 1)
        BY <2>1, <4>2, LastAfterHead
      <4>4. env[d].prediction.at < Popped + 2
        BY <1>0, <3>1
      <4> QED
        BY <3>1, <4>1, <4>3, <4>4
    <3> QED
      BY <3>2, <3>3
  <2>4. EnvInv'
    BY <2>1, <2>3 DEF EnvInv
  <2>5. MadeOf'
    BY <2>1 DEF MadeOf
  <2> QED
    BY <2>4, <2>5
<1>5. ASSUME NEW cr \in Carriers, Process(cr) PROVE EnvInv' /\ MadeOf'
  <2>1. /\ UNCHANGED <<carriers, log, mainpc>>
        /\ mainpc = "switch" /\ cr \in todo /\ todo' = todo \ {cr}
        /\ requestQueue # <<>> /\ request = Head(requestQueue)
    BY <1>5 DEF Process, ProcessGPS, ProcessCell, RequestInv
  <2>2. Popped' = Popped
    BY <1>5, RestFrame DEF Rest
  <2>3. request.jobid = Popped + 1
    BY <2>1, HeadIsNext
  <2>4. \A d \in carriers \ {cr} : Due'[d] = Due[d] /\ env'[d] = env[d]
    BY <1>0, <1>5, <2>1, <2>2 DEF Due, Process, ProcessGPS, ProcessCell
  <2>5. Due'[cr] = Popped + 2 /\ Due[cr] = Popped + 1
    BY <2>1, <2>2 DEF Due
  <2> DEFINE Fits(e) ==
        /\ e.current_cell = LastIn(log, "CELL", cr, Popped + 2)
        /\ e.prev_location = LastIn(log, "GPS", NoCarrier, Popped + 2)
        /\ e.prediction.at < Popped + 2
        /\ e.prediction.at # 0 =>
            /\ e.prediction.cell = LastIn(log, "CELL", cr, e.prediction.at)
            /\ e.prediction.from = LastIn(log, "GPS", NoCarrier, e.prediction.at)
  <2>6. ASSUME cr \in carriers PROVE Fits(env'[cr])
    <3>1. /\ env[cr].current_cell = LastIn(log, "CELL", cr, Popped + 1)
          /\ env[cr].prev_location = LastIn(log, "GPS", NoCarrier, Popped + 1)
          /\ env[cr].prediction.at < Popped + 1
          /\ env[cr].prediction.at # 0 =>
                /\ env[cr].prediction.cell = LastIn(log, "CELL", cr, env[cr].prediction.at)
                /\ env[cr].prediction.from = LastIn(log, "GPS", NoCarrier, env[cr].prediction.at)
      BY <2>5, <2>6 DEF EnvInv, MadeOf
    <3>2. env[cr].prediction.at \in Nat
      BY <1>0
    <3>3. CASE ProcessGPS(cr)
      <4>1. PICK found \in BOOLEAN :
              env' = [env EXCEPT
                        ![cr].prev_location = request.jobid,
                        ![cr].prediction =
                            IF found THEN [cell |-> env[cr].current_cell,
                                           from |-> env[cr].prev_location,
                                           at |-> request.jobid]
                                     ELSE @]
        BY <3>3 DEF ProcessGPS
      <4>2. /\ env'[cr].current_cell = env[cr].current_cell
            /\ env'[cr].prev_location = Popped + 1
            /\ \/ env'[cr].prediction = env[cr].prediction
               \/ env'[cr].prediction = [cell |-> env[cr].current_cell,
                                         from |-> env[cr].prev_location,
                                         at |-> Popped + 1]
        BY <1>0, <2>3, <4>1
      <4>3. Head(requestQueue).type = "GPS" /\ Head(requestQueue).carrier = NoCarrier
        BY <2>1, <3>3, HeadInLog DEF ProcessGPS
      <4>4. /\ LastIn(log, "CELL", cr, Popped + 2) = LastIn(log, "CELL", cr, Popped + 1)
            /\ LastIn(log, "GPS", NoCarrier, Popped + 2) = Popped + 1
        BY <2>1, <4>3, LastAfterHead
      <4>5. CASE env'[cr].prediction = env[cr].prediction
        BY <1>0, <3>1, <3>2, <4>2, <4>4, <4>5
      <4>6. CASE env'[cr].prediction = [cell |-> env[cr].current_cell,
                                        from |-> env[cr].prev_location,
                                        at |-> Popped + 1]
        BY <1>0, <3>1, <4>2, <4>4, <4>6
      <4> QED
        BY <4>2, <4>5, <4>6
    <3>4. CASE ProcessCell(cr)
      <4>1. /\ env'[cr].current_cell = Popped + 1
            /\ env'[cr].prev_location = env[cr].prev_location
            /\ env'[cr].prediction = env[cr].prediction
        BY <1>0, <2>3, <3>4 DEF ProcessCell
      <4>2. Head(requestQueue).type = "CELL" /\ Head(requestQueue).carrier = cr
        BY <2>1, <3>4 DEF ProcessCell, TodoInv, Targets
      <4>3. /\ LastIn(log, "CELL", cr, Popped + 2) = Popped + 1
            /\ LastIn(log, "GPS", NoCarrier, Popped + 2) = LastIn(log, "GPS", NoCarrier, Popped + 1)
        BY <2>1, <4>2, LastAfterHead
      <4> QED
        BY <1>0, <3>1, <3>2, <4>1, <4>3
    <3> QED
      BY <1>5, <3>3, <3>4 DEF Process
  <2>7. EnvInv'
    BY <2>1, <2>4, <2>5, <2>6 DEF EnvInv
  <2>8. MadeOf'
    BY <2>1, <2>4, <2>6 DEF MadeOf
  <2> QED
    BY <2>7, <2>8
<1> QED
  BY <1>1, <1>2, <1>3, <1>4, <1>5, IdleEnv, StepCases DEF IdleStep

\* Each step keeps the carriers left to update among the targets of the request.
LEMMA TodoStep ==
  ASSUME TypeOK, LockInv, StopInv, RequestInv, TodoInv, [Next]_vars
  PROVE  TodoInv'
<1> USE DEF mainVars, clientVars, lockVars, history
<1>1. ASSUME mainpc' = "switch", mainpc = "switch", todo' \subseteq todo,
             request' = request, carriers \subseteq carriers'
      PROVE  TodoInv'
  BY <1>1 DEF TodoInv, Targets
<1>2. ASSUME NEW c \in Clients, Draw(c) \/ Push(c) \/ Waiting(c) PROVE TodoInv'
  BY <1>1, <1>2 DEF Draw, DrawJobid, Push, Waiting, Wait, CheckEmpty, CheckNotEmpty, Sleep,
         SpuriousWakeup, Reacquire, GetFinishedJobid, ClientStep, TodoInv
<1>3. CASE Top
  BY <1>3 DEF Top, TodoInv, Targets
<1>4. ASSUME NEW cr \in Carriers, Initialize(cr) \/ Process(cr) PROVE TodoInv'
  BY <1>1, <1>4 DEF Initialize, Process, ProcessGPS, ProcessCell, TodoInv
<1>5. CASE \/ GetDatabaseContext \/ MainStart \/ BeginPop \/ Pop \/ Finish \/ LockWait \/ Notify
  BY <1>5 DEF GetDatabaseContext, MainStart, BeginPop, Pop, Finish, LockWait, Notify,
         NotifyFrame, EndIf, TodoInv
<1>6. CASE Destroy \/ UNCHANGED vars
  BY <1>1, <1>6 DEF Destroy, vars, TodoInv
<1> QED
  BY <1>2, <1>3, <1>4, <1>5, <1>6, StepCases

PredictionInv == LogInv /\ TodoInv /\ EnvInv /\ MadeOf

\* A new carrier has no prediction and no report.
LEMMA PredictionInitially == Init => PredictionInv
<1> SUFFICES ASSUME Init PROVE PredictionInv
  OBVIOUS
<1>1. /\ log = <<>> /\ requestQueue = <<>> /\ mainpc = "none" /\ carriers = {}
      /\ \A c \in Clients : pc[c] = "idle"
  BY DEF Init
<1> QED
  BY <1>1 DEF PredictionInv, LogInv, TodoInv, EnvInv, MadeOf

\* A published prediction is made of the location it names and of the cell and the
\* location uploaded last before it, however uploads and processing interleave.
THEOREM PredictionsAreConsistent == Spec => []PredictionMatchesUploads
<1>1. IInv /\ PredictionInv /\ [Next]_vars => PredictionInv'
  BY LogStep, TodoStep, EnvStep DEF IInv, PredictionInv
<1>2. Spec => []PredictionInv
  BY <1>1, Invariance, PredictionInitially, PTL DEF Spec
<1>3. PredictionInv => PredictionMatchesUploads
  BY LastIs DEF PredictionInv, MadeOf, PredictionMatchesUploads
<1> QED
  BY <1>2, <1>3, PTL

-----------------------------------------------------------------------------
(* The database is the service that UpdateService describes.               *)

\* What its clients see of a context.
Visible == <<pDBContext, total_jobs, applied, finished_jobid, seen, Returned>>

\* A client that is at most inside an operation it was inside before has returned
\* from no other wait().
LEMMA SameReturned ==
  ASSUME \A c \in Clients : pc'[c] \in {"waited", "asked"} <=> pc[c] \in {"waited", "asked"}
  PROVE  Returned' = Returned
  BY DEF Returned

\* A client enters an operation, or returns from wait().
LEMMA EnteredOrReturned ==
  ASSUME NEW c \in Clients, \A d \in Clients \ {c} : pc'[d] = pc[d]
  PROVE  /\ pc'[c] \notin {"waited", "asked"} => Returned' = Returned \ {c}
         /\ pc'[c] \in {"waited", "asked"} => Returned' = Returned \cup {c}
  BY DEF Returned

\* The steps of wait() and GetFinishedJobid().
LEMMA WaitingServes ==
  ASSUME ~TornRead, IInv, NEW c \in Clients, Waiting(c)
  PROVE  \/ Service!Ask(c) \/ Service!Wait(c) \/ Service!Return(c)
         \/ UNCHANGED Visible
<1>1. /\ pc \in [Clients -> Outside \cup {"push", "join", "check", "sleep", "blocked", "woken"}]
      /\ LockInv /\ StopInv
  BY DEF IInv, TypeOK
<1>2. UNCHANGED <<pDBContext, total_jobs, applied, finished_jobid>>
  BY DEF Waiting, Wait, CheckEmpty, CheckNotEmpty, Sleep, SpuriousWakeup, Reacquire,
         GetFinishedJobid, ClientStep, history
<1>3. ASSUME GetFinishedJobid(c) PROVE Service!Ask(c)
  <2>1. \A d \in Clients : pc'[d] \in {"waited", "asked"} <=> pc[d] \in {"waited", "asked"}
    BY <1>1, <1>3 DEF GetFinishedJobid, MayCall, Outside
  <2>2. QED
    BY <1>2, <1>3, <2>1, SameReturned DEF GetFinishedJobid, MayCall, Service!Ask
<1>4. ASSUME Wait(c) PROVE Service!Wait(c)
  <2>1. pc'[c] = "check" /\ \A d \in Clients \ {c} : pc'[d] = pc[d]
    BY <1>1, <1>4 DEF Wait
  <2>2. QED
    BY <1>2, <1>4, <2>1, EnteredOrReturned DEF Wait, MayCall, Service!Wait
<1>5. ASSUME CheckEmpty(c) PROVE Service!Return(c)
  <2>1. /\ pc[c] = "check" /\ pc'[c] = "waited" /\ seen' = seen
        /\ \A d \in Clients \ {c} : pc'[d] = pc[d]
    BY <1>1, <1>5 DEF CheckEmpty, Goto
  <2>2. requestQueue = <<>>
    BY <1>5 DEF CheckEmpty, EmptyReads
  <2>3. ~Pushing
    BY <1>1, <2>1 DEF Pushing, LockInv
  <2>4. applied = 1..total_jobs
    BY <2>2, <2>3, NothingLeft
  <2>5. pDBContext
    BY <1>1, <2>1 DEF StopInv, Outside
  <2>6. QED
    BY <1>2, <2>1, <2>4, <2>5, EnteredOrReturned DEF Service!Return, Service!AllDone
<1>6. ASSUME CheckNotEmpty(c) \/ Sleep(c) \/ SpuriousWakeup(c) \/ Reacquire(c)
      PROVE  UNCHANGED Visible
  <2>1. /\ \A d \in Clients : pc'[d] \in {"waited", "asked"} <=> pc[d] \in {"waited", "asked"}
        /\ seen' = seen
    BY <1>1, <1>6 DEF CheckNotEmpty, Sleep, SpuriousWakeup, Reacquire, Goto
  <2>2. QED
    BY <1>2, <2>1, SameReturned DEF Visible
<1>7. QED
  BY <1>3, <1>4, <1>5, <1>6 DEF Waiting

\* The steps of mainLoop.
LEMMA MainServes ==
  ASSUME IInv, \/ MainStart \/ Top \/ BeginPop \/ Pop \/ Finish \/ LockWait \/ Notify
               \/ \E cr \in Carriers : Process(cr)
  PROVE  Service!Process \/ Service!Report \/ UNCHANGED Visible
<1>0. /\ TypeOK /\ QueueInv /\ RequestInv /\ AppliedInv /\ StopInv
      /\ Popped \in Nat /\ finished_jobid \in Nat
  BY DEF IInv, QueueInv, TypeOK
<1> USE DEF mainVars, clientVars, lockVars, history
<1>1. UNCHANGED <<pDBContext, total_jobs, seen>> /\ Returned' = Returned
  <2>1. UNCHANGED <<pDBContext, total_jobs, seen>>
    BY DEF MainStart, Top, BeginPop, Pop, Finish, LockWait, Notify, NotifyFrame, EndIf,
           Process, ProcessGPS, ProcessCell
  <2>2. ASSUME ~Notify PROVE pc' = pc
    BY <2>2 DEF MainStart, Top, BeginPop, Pop, Finish, LockWait, Process, ProcessGPS, ProcessCell
  <2>3. ASSUME Notify
        PROVE  \A c \in Clients : pc'[c] \in {"waited", "asked"} <=> pc[c] \in {"waited", "asked"}
    BY <2>3 DEF Notify, Wake
  <2>4. QED
    BY <2>1, <2>2, <2>3, SameReturned
<1>2. ASSUME BeginPop PROVE Service!Process
  <2>1. /\ mainpc = "switch" /\ finished_jobid' = finished_jobid
        /\ applied' = applied \cup {request.jobid}
    BY <1>2 DEF BeginPop
  <2>2. requestQueue # <<>> /\ request.jobid = Popped + 1
    BY <1>0, <2>1, HeadIsNext DEF RequestInv
  <2>3. Popped + 1 <= total_jobs
    <3>1. Len(requestQueue) # 0
      BY <1>0, <2>2 DEF TypeOK
    <3>2. Pushed <= total_jobs
      BY <1>0, CountTypes
    <3>3. QED
      BY <1>0, <3>1, <3>2, CountTypes
  <2>4. applied = 1..Popped /\ pDBContext
    BY <1>0, <2>1 DEF AppliedInv, StopInv
  <2> DEFINE j == Popped + 1
  <2>5. j \in 1..total_jobs /\ j \notin applied /\ 1 .. j - 1 \subseteq applied
    BY <1>0, <2>3, <2>4, CountTypes
  <2>6. applied' = applied \cup {j}
    BY <2>1, <2>2
  <2> HIDE DEF j
  <2>7. QED
    BY <1>1, <2>1, <2>4, <2>5, <2>6 DEF Service!Process
<1>3. ASSUME Finish PROVE Service!Report \/ UNCHANGED Visible
  <2>1. mainpc = "finish" /\ finished_jobid' = request.jobid /\ applied' = applied
    BY <1>3 DEF Finish
  <2>2. finished_jobid' = Popped /\ applied = 1..Popped /\ pDBContext
    BY <1>0, <2>1 DEF RequestInv, AppliedInv, StopInv
  <2>3. finished_jobid <= Popped
    BY <1>0 DEF AppliedInv
  <2>4. CASE finished_jobid = Popped
    BY <1>1, <2>1, <2>2, <2>4 DEF Visible
  <2>5. CASE finished_jobid < Popped
    BY <1>0, <1>1, <2>1, <2>2, <2>5 DEF Service!Report
  <2>6. QED
    BY <1>0, <2>3, <2>4, <2>5
<1>4. ASSUME \/ MainStart \/ Top \/ Pop \/ LockWait \/ Notify
             \/ \E cr \in Carriers : Process(cr)
      PROVE  UNCHANGED Visible
  <2>1. UNCHANGED <<applied, finished_jobid>>
    BY <1>4 DEF MainStart, Top, Pop, LockWait, Notify, NotifyFrame, Process, ProcessGPS, ProcessCell
  <2>2. QED
    BY <1>1, <2>1 DEF Visible
<1>5. QED
  BY <1>2, <1>3, <1>4

\* Each step of the database is one of the service, or invisible to the clients.
LEMMA ServiceStep ==
  ASSUME ~TornRead, WaitBeforeDelete, IInv, [Next]_vars
  PROVE  [Service!Next]_Visible
<1>0. /\ TypeOK /\ LockInv /\ StopInv
      /\ pc \in [Clients -> Outside \cup {"push", "join", "check", "sleep", "blocked", "woken"}]
  BY DEF IInv, TypeOK
<1> USE DEF mainVars, clientVars, lockVars, history
<1>1. ASSUME GetDatabaseContext PROVE Service!Open
  <2>1. /\ ~pDBContext /\ pDBContext' = TRUE /\ finished_jobid' = 0
        /\ pc' = [c \in Clients |-> "idle"] /\ seen' = [c \in Clients |-> 0]
        /\ UNCHANGED <<total_jobs, applied>>
    BY <1>1 DEF GetDatabaseContext
  <2>2. Returned' = {}
    BY <2>1 DEF Returned
  <2>3. QED
    BY <2>1, <2>2, ClosedIsDone DEF Service!Open, Service!AllDone
<1>2. ASSUME NEW c \in Clients, Draw(c) PROVE Service!Accept(c)
  <2>1. /\ pDBContext /\ seen' = [seen EXCEPT ![c] = 0] /\ total_jobs' = total_jobs + 1
        /\ UNCHANGED <<pDBContext, applied, finished_jobid>>
    BY <1>2 DEF Draw, MayCall, DrawJobid
  <2>2. Returned' = Returned \ {c}
    BY <1>0, <1>2, DrawKeepsPushed, EnteredOrReturned
  <2>3. QED
    BY <2>1, <2>2 DEF Service!Accept
<1>3. ASSUME NEW c \in Clients, Push(c) PROVE UNCHANGED Visible
  <2>1. pc[c] = "push"
    BY <1>3 DEF Push
  <2>2. \A d \in Clients : pc'[d] \in {"waited", "asked"} <=> pc[d] \in {"waited", "asked"}
    BY <1>0, <1>3, <2>1, PushCounts
  <2>3. QED
    BY <1>0, <1>3, <2>2, PushCounts, SameReturned DEF Visible
<1>4. ASSUME NEW cr \in Carriers, Initialize(cr) PROVE UNCHANGED Visible
  BY <1>4 DEF Initialize, Visible, Returned
<1>5. ASSUME Destroy PROVE Service!Close
  <2>1. /\ pc[Owner] = "join" /\ pDBContext' = FALSE
        /\ pc' = [pc EXCEPT ![Owner] = "idle"]
        /\ UNCHANGED <<total_jobs, applied, finished_jobid, seen>>
    BY <1>5 DEF Destroy
  <2>2. pDBContext
    BY <1>0, <2>1 DEF StopInv, Closing
  <2>3. applied = 1..total_jobs
    <3>1. mainpc \in {"none", "ended"}
      <4>1. run_lock = Free /\ Closing /\ StartInv
        BY <1>5, <2>1 DEF Destroy, IInv, Closing
      <4>2. mainpc \in {"none", "start", "ended"}
        BY <1>0, <4>1, ContextAssumption DEF TypeOK, LockInv
      <4>3. QED
        BY <4>1, <4>2 DEF StartInv
    <3>2. requestQueue = <<>>
      BY <1>0, <3>1 DEF StopInv
    <3>3. ~Pushing
      BY <1>0, <2>1 DEF StopInv, Closing, Pushing, Outside
    <3>4. QED
      BY <3>2, <3>3, NothingLeft
  <2>4. Returned' = Returned
    BY <1>0, <2>1, SameReturned
  <2>5. QED
    BY <2>1, <2>2, <2>3, <2>4 DEF Service!Close, Service!AllDone
<1>6. ASSUME UNCHANGED vars PROVE UNCHANGED Visible
  BY <1>6 DEF vars, Visible, Returned
<1>7. QED
  BY <1>1, <1>2, <1>3, <1>4, <1>5, <1>6, WaitingServes, MainServes, StepCases
     DEF Service!Next

\* If a size() that overlaps a pop() reads the old or the new size, and the owner
\* deletes after an upload and a wait(), the database is UpdateService to its
\* clients: wait() returns when the requests of all of them have been processed.
THEOREM Serves ==
  ASSUME ~TornRead, WaitBeforeDelete
  PROVE  Spec => ServiceSpec
<1>1. Init => Service!Init
  BY DEF Init, Service!Init, Returned
<1>2. IInv /\ [Next]_vars => [Service!Next]_Visible
  BY ServiceStep
<1>3. Spec => [][Service!Next]_Visible
  BY <1>2, Invariance, PTL DEF Spec
<1> QED
  BY <1>1, <1>3, PTL DEF Spec, ServiceSpec, Service!Spec, Service!vars, Visible
=============================================================================
