-------------------------- MODULE DatabaseContext --------------------------
(***************************************************************************)
(* The running database of src/DatabaseContext.cc.  Client threads call    *)
(* the blocking and non-blocking operations; one detached thread per       *)
(* context runs mainLoop.  Owner is the client that creates the context,   *)
(* initializes its carriers and deletes it, as main.cc and the tests do;   *)
(* contexts follow one another, the static job counter survives them.      *)
(*                                                                         *)
(* run_lock and wait_mutex are modelled as locks.  requestQueue is the     *)
(* FIFO that RequestQueue.tla shows ConsumerProducerQueue to be, except    *)
(* that isEmpty() reads it without its mutex.  jobid_mutex and pred_lock   *)
(* protect one read or write each here: those are single steps.            *)
(* A request's payload is its job id: "the cell of job 3".                 *)
(*                                                                         *)
(* A definition whose comment starts with "Bug:" is no part of the model:  *)
(* it is a mutated form of the definition after it.                        *)
(***************************************************************************)
EXTENDS Naturals, Sequences, FiniteSets

CONSTANTS
    Clients,            \* the threads that use the database
    Owner,              \* the client that creates and deletes contexts
    Carriers,           \* Carrier_t
    NoCarrier,          \* the carrier of a request that has none
    MainLoop,           \* the thread that runs mainLoop
    Free,               \* a lock without a holder
    MaxJobs,            \* bound on total_jobs, STOP requests aside
    WaitBeforeDelete,   \* TRUE: Owner deletes as testsys.cc:51 does, and main.cc
                        \* for a trace with a fast row: right after an upload
                        \* of its own and a wait()
    TornRead            \* TRUE: a size() that overlaps a pop() may read any
                        \* mixture of its words; FALSE: the old or the new size

ASSUME ContextAssumption ==
    /\ Owner \in Clients
    /\ IsFiniteSet(Carriers)
    /\ NoCarrier \notin Carriers
    /\ MainLoop \notin Clients
    /\ Free \notin Clients \cup {MainLoop}
    /\ MaxJobs \in Nat
    /\ WaitBeforeDelete \in BOOLEAN
    /\ TornRead \in BOOLEAN

VARIABLES
    pDBContext,     \* does a context exist (pDBContext # NULL)
    carriers,       \* the initialized carriers
    env,            \* per carrier: its CarrierEnv
    requestQueue,
    run_lock,
    wait_mutex,
    total_jobs,     \* addRequest's static counter
    finished_jobid,
    mainpc,         \* where mainLoop is
    request,        \* mainLoop's copy of the request at the head of the queue
    todo,           \* the carriers that request still has to be applied to
    pc,             \* per client: what it is doing
    req,            \* per client: the request it uploads or uploaded last
    job,            \* per client: the job id of its last upload to this context
    seen,           \* per client: what GetFinishedJobid() returned last, 0 from
                    \* its next upload or wait() on
    log,            \* history: the requests queued in this context, in order
    applied         \* history: the job ids whose request has been processed

mainVars == <<run_lock, mainpc, request, todo>>
clientVars == <<pc, req, job, seen>>
lockVars == <<run_lock, wait_mutex>>
history == <<log, applied>>
vars == <<pDBContext, carriers, env, requestQueue, run_lock, wait_mutex,
          total_jobs, finished_jobid, mainpc, request, todo,
          pc, req, job, seen, log, applied>>
-----------------------------------------------------------------------------
RequestType == {"GPS", "CELL", "STOP"}
UpdateRequest == [type : RequestType, carrier : Carriers \cup {NoCarrier}, jobid : Nat]
NoRequest == [type |-> "GPS", carrier |-> NoCarrier, jobid |-> 0]

\* current_cell is the CELL job it was taken from, prev_location the GPS job;
\* a prediction is the cell, the previous and the new location it was made of.
\* Job 0 stands for what the constructor leaves there.
NewEnv == [current_cell |-> 0, prev_location |-> 0,
           prediction |-> [cell |-> 0, from |-> 0, at |-> 0]]

\* A client that is not inside an operation; it remembers whether the last one
\* was a wait(), or a wait() and then GetFinishedJobid().
Outside == {"idle", "waited", "asked"}

\* Owner is inside the destructor.
Closing == \/ pc[Owner] = "join"
           \/ pc[Owner] = "push" /\ req[Owner].type = "STOP"

\* c may start an operation on the context.
MayCall(c) == pDBContext /\ ~Closing /\ pc[c] \in Outside

\* What requestQueue.isEmpty() may return to a client.
EmptyReads == {requestQueue = <<>>}
                \cup (IF TornRead /\ mainpc = "popping" THEN BOOLEAN ELSE {})

\* Bug: processCell ignores the carrier of its request.
TargetsAll(r) == IF r.type = "STOP" THEN {} ELSE carriers

\* The carriers processGPS or processCell applies r to.
Targets(r) == {cr \in carriers : \/ r.type = "GPS"
                                 \/ r.type = "CELL" /\ r.carrier = cr}

Init ==
    /\ pDBContext = FALSE
    /\ carriers = {}
    /\ env = [cr \in Carriers |-> NewEnv]
    /\ requestQueue = <<>>
    /\ run_lock = Free
    /\ wait_mutex = Free
    /\ total_jobs = 0
    /\ finished_jobid = 0
    /\ mainpc = "none"
    /\ request = NoRequest
    /\ todo = {}
    /\ pc = [c \in Clients |-> "idle"]
    /\ req = [c \in Clients |-> NoRequest]
    /\ job = [c \in Clients |-> 0]
    /\ seen = [c \in Clients |-> 0]
    /\ log = <<>>
    /\ applied = {}
-----------------------------------------------------------------------------
(* Owner: the life of a context.                                           *)

\* The constructor runs start(), which detaches the thread of mainLoop.  A
\* context whose predecessor's thread has not ended is not modelled further.
GetDatabaseContext ==
    /\ ~pDBContext
    /\ mainpc \in {"none", "ended"}
    /\ total_jobs < MaxJobs
    /\ pDBContext' = TRUE
    /\ carriers' = {}
    /\ env' = [cr \in Carriers |-> NewEnv]
    /\ requestQueue' = <<>>
    /\ run_lock' = Free
    /\ wait_mutex' = Free
    /\ finished_jobid' = 0
    /\ mainpc' = "start"
    /\ pc' = [c \in Clients |-> "idle"]
    /\ job' = [c \in Clients |-> 0]
    /\ seen' = [c \in Clients |-> 0]
    /\ log' = <<>>
    /\ UNCHANGED <<total_jobs, request, todo, req, applied>>

\* map::emplace, which leaves an existing entry alone.  Every caller in the
\* tree initializes its carriers before the first upload.
Initialize(cr) ==
    /\ MayCall(Owner)
    /\ log = <<>> /\ \A c \in Clients : pc[c] # "push"
    /\ carriers' = carriers \cup {cr}
    /\ env' = [env EXCEPT ![cr] = IF cr \in carriers THEN @ ELSE NewEnv]
    /\ UNCHANGED <<pDBContext, requestQueue, wait_mutex, total_jobs, finished_jobid>>
    /\ UNCHANGED <<mainVars, clientVars, history>>

\* Bug: addRequest does not lock wait_mutex.
DrawJobidUnlocked(c, type, cr) ==
    /\ total_jobs' = total_jobs + 1
    /\ job' = [job EXCEPT ![c] = total_jobs + 1]
    /\ req' = [req EXCEPT ![c] = [type |-> type, carrier |-> cr, jobid |-> total_jobs + 1]]
    /\ pc' = [pc EXCEPT ![c] = "push"]
    /\ UNCHANGED <<pDBContext, carriers, env, requestQueue, wait_mutex, finished_jobid>>
    /\ seen' = [seen EXCEPT ![c] = 0]
    /\ UNCHANGED <<mainVars, history>>

\* addRequest up to the push: lock wait_mutex, draw the job id.
DrawJobid(c, type, cr) ==
    /\ wait_mutex = Free
    /\ wait_mutex' = c
    /\ total_jobs' = total_jobs + 1
    /\ job' = [job EXCEPT ![c] = total_jobs + 1]
    /\ req' = [req EXCEPT ![c] = [type |-> type, carrier |-> cr, jobid |-> total_jobs + 1]]
    /\ pc' = [pc EXCEPT ![c] = "push"]
    /\ UNCHANGED <<pDBContext, carriers, env, requestQueue, finished_jobid>>
    /\ seen' = [seen EXCEPT ![c] = 0]
    /\ UNCHANGED <<mainVars, history>>

UpdateGPS(c) ==
    /\ MayCall(c) /\ total_jobs < MaxJobs
    /\ DrawJobid(c, "GPS", NoCarrier)

UpdateCellID(c, cr) ==
    /\ MayCall(c) /\ total_jobs < MaxJobs
    /\ DrawJobid(c, "CELL", cr)

\* The destructor's first half.  No other thread is inside the object.
DeleteDatabaseContext ==
    /\ MayCall(Owner)
    /\ \A c \in Clients : pc[c] \in Outside
    /\ WaitBeforeDelete => pc[Owner] \in {"waited", "asked"} /\ job[Owner] # 0
    /\ DrawJobid(Owner, "STOP", NoCarrier)

\* The rest of addRequest: push, unlock wait_mutex.
Push(c) ==
    /\ pc[c] = "push"
    /\ requestQueue' = Append(requestQueue, req[c])
    /\ log' = Append(log, req[c])
    /\ wait_mutex' = Free
    /\ pc' = [pc EXCEPT ![c] = IF req[c].type = "STOP" THEN "join" ELSE "idle"]
    /\ UNCHANGED <<pDBContext, carriers, env, total_jobs, finished_jobid>>
    /\ UNCHANGED <<mainVars, req, job, seen, applied>>

\* Bug: the destructor does not wait for run_lock.
DestroyAtOnce ==
    /\ pc[Owner] = "join"
    /\ pDBContext' = FALSE
    /\ pc' = [pc EXCEPT ![Owner] = "idle"]
    /\ UNCHANGED <<carriers, env, requestQueue, wait_mutex, total_jobs, finished_jobid>>
    /\ UNCHANGED <<mainVars, req, job, seen, history>>

\* Bug: the destructor never unlocks run_lock.
DestroyKeepingLock ==
    /\ pc[Owner] = "join"
    /\ run_lock = Free
    /\ run_lock' = Owner
    /\ pDBContext' = FALSE
    /\ pc' = [pc EXCEPT ![Owner] = "idle"]
    /\ UNCHANGED <<carriers, env, requestQueue, wait_mutex, total_jobs, finished_jobid>>
    /\ UNCHANGED <<mainpc, request, todo, req, job, seen, history>>

\* The destructor's second half: run_lock is free, the object goes away.
Destroy ==
    /\ pc[Owner] = "join"
    /\ run_lock = Free
    /\ pDBContext' = FALSE
    /\ pc' = [pc EXCEPT ![Owner] = "idle"]
    /\ UNCHANGED <<carriers, env, requestQueue, wait_mutex, total_jobs, finished_jobid>>
    /\ UNCHANGED <<mainVars, req, job, seen, history>>
-----------------------------------------------------------------------------
(* Any client: wait() and GetFinishedJobid().  getPrediction() changes     *)
(* nothing; what it may read is any env[cr].prediction.                    *)

Goto(c, from, to) == pc[c] = from /\ pc' = [pc EXCEPT ![c] = to]

ClientStep == /\ UNCHANGED <<pDBContext, carriers, env, requestQueue, total_jobs,
                             finished_jobid, req, job>>
              /\ UNCHANGED <<mainVars, history>>

\* Bug: wait() evaluates its predicate without wait_mutex.
WaitUnlocked(c) ==
    /\ MayCall(c)
    /\ pc' = [pc EXCEPT ![c] = "check"]
    /\ seen' = [seen EXCEPT ![c] = 0]
    /\ ClientStep /\ UNCHANGED wait_mutex

\* wait() locks wait_mutex, ...
Wait(c) ==
    /\ MayCall(c)
    /\ wait_mutex = Free
    /\ wait_mutex' = c
    /\ pc' = [pc EXCEPT ![c] = "check"]
    /\ seen' = [seen EXCEPT ![c] = 0]
    /\ ClientStep

\* ... evaluates the predicate, and returns if the queue looks empty ...
CheckEmpty(c) ==
    /\ TRUE \in EmptyReads
    /\ Goto(c, "check", "waited")
    /\ wait_mutex' = Free
    /\ ClientStep /\ UNCHANGED seen

CheckNotEmpty(c) ==
    /\ FALSE \in EmptyReads
    /\ Goto(c, "check", "sleep")
    /\ ClientStep /\ UNCHANGED <<wait_mutex, seen>>

\* ... or sleeps, releasing wait_mutex, until it is woken ...
Sleep(c) ==
    /\ Goto(c, "sleep", "blocked")
    /\ wait_mutex' = Free
    /\ ClientStep /\ UNCHANGED seen

SpuriousWakeup(c) ==
    /\ Goto(c, "blocked", "woken")
    /\ ClientStep /\ UNCHANGED <<wait_mutex, seen>>

\* ... and has wait_mutex again.
Reacquire(c) ==
    /\ wait_mutex = Free
    /\ wait_mutex' = c
    /\ Goto(c, "woken", "check")
    /\ ClientStep /\ UNCHANGED seen

GetFinishedJobid(c) ==
    /\ MayCall(c)
    /\ seen' = [seen EXCEPT ![c] = finished_jobid]
    /\ pc' = [pc EXCEPT ![c] = IF @ = "idle" THEN "idle" ELSE "asked"]
    /\ ClientStep /\ UNCHANGED wait_mutex
-----------------------------------------------------------------------------
(* mainLoop: "start" -> "top" -> "switch" -> "popping" -> "finish" ->      *)
(* "lock" -> "notify" -> "top" again, or "ended" after a STOP.             *)

MainStart ==
    /\ mainpc = "start"
    /\ pDBContext
    /\ run_lock = Free
    /\ run_lock' = MainLoop
    /\ mainpc' = "top"
    /\ UNCHANGED <<pDBContext, carriers, env, requestQueue, wait_mutex, total_jobs,
                   finished_jobid, request, todo>>
    /\ UNCHANGED <<clientVars, history>>

\* Bug: the request is popped before it is processed.
TopRemoving ==
    /\ mainpc = "top"
    /\ requestQueue # <<>>
    /\ request' = Head(requestQueue)
    /\ todo' = Targets(Head(requestQueue))
    /\ requestQueue' = Tail(requestQueue)
    /\ mainpc' = "switch"
    /\ UNCHANGED <<pDBContext, carriers, env, lockVars, total_jobs, finished_jobid>>
    /\ UNCHANGED <<clientVars, history>>

\* Bug: the job is reported as finished before it is processed.
TopReporting ==
    /\ mainpc = "top"
    /\ requestQueue # <<>>
    /\ request' = Head(requestQueue)
    /\ todo' = Targets(Head(requestQueue))
    /\ finished_jobid' = Head(requestQueue).jobid
    /\ mainpc' = "switch"
    /\ UNCHANGED <<pDBContext, carriers, env, requestQueue, lockVars, total_jobs>>
    /\ UNCHANGED <<clientVars, history>>

\* requestQueue.top()
Top ==
    /\ mainpc = "top"
    /\ requestQueue # <<>>
    /\ request' = Head(requestQueue)
    /\ todo' = Targets(Head(requestQueue))
    /\ mainpc' = "switch"
    /\ UNCHANGED <<pDBContext, carriers, env, requestQueue, lockVars, total_jobs,
                   finished_jobid>>
    /\ UNCHANGED <<clientVars, history>>

\* Bug: the early return without a prediction skips prev_location.
ProcessGPSForgetting(cr) ==
    /\ mainpc = "switch"
    /\ request.type = "GPS"
    /\ cr \in todo
    /\ \/ UNCHANGED env
       \/ env' = [env EXCEPT
                    ![cr].prev_location = request.jobid,
                    ![cr].prediction = [cell |-> env[cr].current_cell,
                                        from |-> env[cr].prev_location,
                                        at |-> request.jobid]]
    /\ todo' = todo \ {cr}
    /\ UNCHANGED <<pDBContext, carriers, requestQueue, lockVars, total_jobs,
                   finished_jobid, mainpc, request>>
    /\ UNCHANGED <<clientVars, history>>

\* updateLocation on another carrier of processGPS's loop (whose order is left
\* open: the carriers are independent).  Whether the historical data yield a
\* prediction is left open too.
ProcessGPS(cr) ==
    /\ mainpc = "switch"
    /\ request.type = "GPS"
    /\ cr \in todo
    /\ \E found \in BOOLEAN :
           env' = [env EXCEPT
                     ![cr].prev_location = request.jobid,
                     ![cr].prediction =
                         IF found THEN [cell |-> env[cr].current_cell,
                                        from |-> env[cr].prev_location,
                                        at |-> request.jobid]
                                  ELSE @]
    /\ todo' = todo \ {cr}
    /\ UNCHANGED <<pDBContext, carriers, requestQueue, lockVars, total_jobs,
                   finished_jobid, mainpc, request>>
    /\ UNCHANGED <<clientVars, history>>

ProcessCell(cr) ==
    /\ mainpc = "switch"
    /\ request.type = "CELL"
    /\ cr \in todo
    /\ env' = [env EXCEPT ![cr].current_cell = request.jobid]
    /\ todo' = todo \ {cr}
    /\ UNCHANGED <<pDBContext, carriers, requestQueue, lockVars, total_jobs,
                   finished_jobid, mainpc, request>>
    /\ UNCHANGED <<clientVars, history>>

\* The switch is over; requestQueue.pop() starts ...
BeginPop ==
    /\ mainpc = "switch"
    /\ todo = {}
    /\ mainpc' = "popping"
    /\ applied' = applied \cup {request.jobid}
    /\ UNCHANGED <<pDBContext, carriers, env, requestQueue, lockVars, total_jobs,
                   finished_jobid, request, todo, log>>
    /\ UNCHANGED clientVars

\* ... and ends.  The request it returns is discarded.
Pop ==
    /\ mainpc = "popping"
    /\ requestQueue' = Tail(requestQueue)
    /\ mainpc' = "finish"
    /\ UNCHANGED <<pDBContext, carriers, env, lockVars, total_jobs,
                   finished_jobid, request, todo>>
    /\ UNCHANGED <<clientVars, history>>

Finish ==
    /\ mainpc = "finish"
    /\ finished_jobid' = request.jobid
    /\ mainpc' = "lock"
    /\ UNCHANGED <<pDBContext, carriers, env, requestQueue, lockVars, total_jobs,
                   request, todo>>
    /\ UNCHANGED <<clientVars, history>>

\* Bug: mainLoop checks the queue and notifies without wait_mutex.
LockWaitNot ==
    /\ mainpc = "lock"
    /\ mainpc' = "notify"
    /\ UNCHANGED <<pDBContext, carriers, env, requestQueue, lockVars, total_jobs,
                   finished_jobid, request, todo>>
    /\ UNCHANGED <<clientVars, history>>

LockWait ==
    /\ mainpc = "lock"
    /\ wait_mutex = Free
    /\ wait_mutex' = MainLoop
    /\ mainpc' = "notify"
    /\ UNCHANGED <<pDBContext, carriers, env, requestQueue, run_lock, total_jobs,
                   finished_jobid, request, todo>>
    /\ UNCHANGED <<clientVars, history>>

\* Waking the waiting clients, releasing wait_mutex, leaving the loop.
NotifyFrame == /\ mainpc = "notify"
               /\ wait_mutex' = Free
               /\ UNCHANGED <<pDBContext, carriers, env, requestQueue, total_jobs,
                              finished_jobid, request, todo, req, job, seen>>
               /\ UNCHANGED history
Wake == [c \in Clients |-> IF pc[c] = "blocked" THEN "woken" ELSE pc[c]]
EndIf(stop) == /\ mainpc' = IF stop THEN "ended" ELSE "top"
               /\ run_lock' = IF stop THEN Free ELSE run_lock

\* Bug: the waiting clients are not woken.
NotifyNobody == NotifyFrame /\ pc' = pc /\ EndIf(request.type = "STOP")

\* Bug: the loop ends when the queue is empty.
NotifyEndingEarly ==
    /\ NotifyFrame
    /\ pc' = IF requestQueue = <<>> THEN Wake ELSE pc
    /\ EndIf(requestQueue = <<>>)

\* Bug: the loop does not end after a STOP.
NotifyNeverEnding ==
    /\ NotifyFrame
    /\ pc' = IF requestQueue = <<>> THEN Wake ELSE pc
    /\ EndIf(FALSE)

\* Wake the waiting clients if the queue is empty; then loop, or return and so
\* release run_lock if the request was a STOP.
Notify ==
    /\ NotifyFrame
    /\ pc' = IF requestQueue = <<>> THEN Wake ELSE pc
    /\ EndIf(request.type = "STOP")
-----------------------------------------------------------------------------
OwnerNext ==
    \/ GetDatabaseContext
    \/ \E cr \in Carriers : Initialize(cr)
    \/ DeleteDatabaseContext
    \/ Destroy

ClientNext(c) ==
    \/ UpdateGPS(c)
    \/ \E cr \in Carriers : UpdateCellID(c, cr)
    \/ Push(c)
    \/ Wait(c)
    \/ CheckEmpty(c) \/ CheckNotEmpty(c) \/ Sleep(c)
    \/ SpuriousWakeup(c) \/ Reacquire(c)
    \/ GetFinishedJobid(c)

MainNext ==
    \/ MainStart
    \/ Top
    \/ \E cr \in Carriers : ProcessGPS(cr) \/ ProcessCell(cr)
    \/ BeginPop \/ Pop
    \/ Finish
    \/ LockWait
    \/ Notify

\* The program may end between two contexts.
Exit == ~pDBContext /\ mainpc \in {"none", "ended", "start"} /\ UNCHANGED vars

Next == OwnerNext \/ (\E c \in Clients : ClientNext(c)) \/ MainNext \/ Exit

Spec == Init /\ [][Next]_vars

\* Threads inside an operation keep running and get, in the end, a mutex that
\* is released again and again.  Nobody has to call anything.
Fairness ==
    /\ WF_vars(MainNext)
    /\ SF_vars(LockWait)
    /\ WF_vars(Destroy)
    /\ \A c \in Clients :
          /\ WF_vars(Push(c) \/ CheckEmpty(c) \/ CheckNotEmpty(c) \/ Sleep(c))
          /\ SF_vars(Reacquire(c))

FairSpec == Spec /\ Fairness
-----------------------------------------------------------------------------
\* The variables stay in their types.
TypeOK ==
    /\ pDBContext \in BOOLEAN
    /\ carriers \subseteq Carriers
    /\ env \in [Carriers -> [current_cell : Nat, prev_location : Nat,
                              prediction : [cell : Nat, from : Nat, at : Nat]]]
    /\ requestQueue \in Seq(UpdateRequest)
    /\ run_lock \in {MainLoop, Free}
    /\ wait_mutex \in Clients \cup {MainLoop, Free}
    /\ total_jobs \in Nat
    /\ finished_jobid \in Nat
    /\ mainpc \in {"none", "start", "top", "switch", "popping", "finish", "lock",
                   "notify", "ended"}
    /\ request \in UpdateRequest
    /\ todo \subseteq Carriers
    /\ pc \in [Clients -> Outside \cup {"push", "join", "check", "sleep", "blocked",
                                       "woken"}]
    /\ req \in [Clients -> UpdateRequest]
    /\ job \in [Clients -> Nat]
    /\ seen \in [Clients -> Nat]
    /\ log \in Seq(UpdateRequest)
    /\ applied \subseteq Nat

\* Every job id ever drawn is being pushed, queued or processed, and an id in
\* two of these places is the head of the queue while mainLoop pops it: no
\* request is lost, queued twice or processed twice.
QueuedIds == {requestQueue[i].jobid : i \in 1..Len(requestQueue)}
PushedIds == {req[c].jobid : c \in {d \in Clients : pc[d] = "push"}}

ExactlyOnce ==
    /\ PushedIds \cup QueuedIds \cup applied = 1..total_jobs
    /\ PushedIds \cap (QueuedIds \cup applied) = {}
    /\ QueuedIds \cap applied \subseteq
           (IF mainpc = "popping" THEN {Head(requestQueue).jobid} ELSE {})

\* GetFinishedJobid() never runs ahead: a client that polls until it sees its
\* job id, or a later one, knows its request and all earlier ones have been
\* processed.  (The value may lag, and is 0 in a new context.)
FinishedMeansApplied ==
    /\ 1..finished_jobid \subseteq applied
    /\ \A c \in Clients : 1..seen[c] \subseteq applied

\* A client that returns from wait() finds every request it uploaded before,
\* and every request with a smaller job id, processed: mainLoop keeps a request
\* in the queue until it is done with it.
WaitMeansApplied ==
    \A c \in Clients : pc[c] \in {"waited", "asked"} => 1..job[c] \subseteq applied

\* No client sleeps in wait() with the queue empty and nobody left to notify it.
NoLostNotify ==
    \A c \in Clients :
        pc[c] \in {"sleep", "blocked"} /\ requestQueue = <<>>
            => mainpc \in {"finish", "lock", "notify"}

\* The last job of this context before job j that is a type request (for
\* carrier cr), or 0.
LastBefore(type, cr, j) ==
    LET ids == {log[i].jobid : i \in {k \in DOMAIN log :
                    /\ log[k].type = type
                    /\ log[k].carrier = cr
                    /\ log[k].jobid < j}}
    IN  CHOOSE m \in ids \cup {0} : \A k \in ids : k <= m

\* A published prediction is made of the location it names, the location
\* uploaded just before it and the cell its carrier had been given last before
\* it, never of a mixture with later uploads.
PredictionMatchesUploads ==
    \A cr \in carriers :
        LET p == env[cr].prediction IN
        p.at # 0 => /\ p.cell = LastBefore("CELL", cr, p.at)
                    /\ p.from = LastBefore("GPS", NoCarrier, p.at)

\* DatabaseContext.cc:157, "wait until mainLoop ends": when the destructor has
\* returned the thread of mainLoop has ended, so it touches no freed member, and
\* every request the context accepted has been processed.
DestructorWaits ==
    ~pDBContext => /\ mainpc \in {"none", "ended"}
                   /\ applied = 1..total_jobs

\* testsys.cc:51-55: after an upload and a wait(), GetFinishedJobid() returns at
\* least the upload's job id.
ReportedAfterWait ==
    \A c \in Clients : pc[c] = "asked" => seen[c] >= job[c]

\* The reported job id never goes back during the life of a context.
FinishedNeverGoesBack ==
    [][pDBContext /\ pDBContext' => finished_jobid' >= finished_jobid]_vars

\* Every accepted request is processed in the end.
EveryRequestApplied == \A j \in 1..MaxJobs : (total_jobs >= j) ~> (j \in applied)

\* wait() returns, once uploads pause (here: at the bound).
WaitReturns == \A c \in Clients : (pc[c] = "check") ~> (pc[c] = "waited")

\* The destructor returns.
DeleteReturns == (pc[Owner] = "join") ~> ~pDBContext

\* The clients that have called wait() and made no request since.
Returned == {c \in Clients : pc[c] \in {"waited", "asked"}}
Service == INSTANCE UpdateService WITH
    open <- pDBContext,
    accepted <- total_jobs,
    processed <- applied,
    reported <- finished_jobid,
    told <- seen,
    returned <- Returned

\* To its clients the database is UpdateService, if a size() that overlaps a pop()
\* is not torn and the owner waits before it deletes: in particular wait() returns
\* only when the requests of all clients are done, not only the caller's own.
ServiceSpec == Service!Spec
=============================================================================
