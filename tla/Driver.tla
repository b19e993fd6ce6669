------------------------------- MODULE Driver -------------------------------
(***************************************************************************)
(* src/main.cc: the program evaluates the predictions of one carrier after *)
(* another, with the whole database below it.  A step of the database is a *)
(* step of DatabaseContext, whose only client is the main thread, together *)
(* with what it does to the values that DatabaseContext leaves out: the    *)
(* reported cells and locations, the carriers' rows, the histories.        *)
(*                                                                         *)
(* That the queue and the copying of a prediction are atomic is what       *)
(* RequestQueue and CarrierEnv show.                                       *)
(*                                                                         *)
(* A definition whose comment starts with "Bug:" is no part of the model:  *)
(* it is a mutated form of the definition after it.                        *)
(***************************************************************************)
EXTENDS DatabaseContext, Handover

CONSTANTS
    Programs,       \* main(): sequences of calls of run_one_carrier
    Places,         \* what an uninitialized prev_location may hold
    MinSpeed,       \* 220
    Window,         \* 30, the seconds of the removed sampling
    NearTime,       \* 100 seconds
    StartError,     \* 1e6 seconds
    MaxError,       \* 1e5 seconds
    MinCid          \* what (Cid_t) makes of NaN

\* The input files of an evaluation; the directory stands for the files it names too.
Inputs == {"directory", "truth", "trace"}

TruthLabels == <<"index", "longtitude", "latitude", "speed", "handover", "time", "cell-id">>

ASSUME DriverAssumption ==
    /\ Clients = {Owner}
    /\ TruthLabels \in Seq(STRING)
    /\ Programs \subseteq Seq([carrier : Carriers, trace : File, truth : File,
                              ho_files : Seq(File), missing : SUBSET Inputs])
    /\ \A program \in Programs : \A i \in DOMAIN program :
          /\ Len(program[i].ho_files) <= 1
          /\ \A k \in DOMAIN program[i].trace :
                 LET line == program[i].trace[k] IN
                 Len(line) >= 8 => {line[1], line[2], line[8]} \subseteq Int
    /\ Places \subseteq [lng : Int, lat : Int, time : Int]
    /\ {MinSpeed, Window, NearTime, MinCid} \subseteq Int
    /\ {MaxError, StartError} \subseteq Nat /\ MaxError < StartError
    /\ NaN \notin [x : Int, q : Fraction] /\ Inf \notin [x : Int, q : Fraction]

VARIABLES
    program,        \* the calls of run_one_carrier
    run,            \* the call the main thread is in
    dpc,            \* where in it
    row,            \* the row of the trace it is at
    val,            \* history: the last row looked at and the prediction read
    result,         \* the accepted rows, predictions and their errors
    warn_result,    \* the rows whose handover failed
    values,         \* per job id: the value of its request
    ce              \* per carrier: its CarrierEnv

localVars == <<row, val, result, warn_result>>
mainThread == <<program, run, dpc, localVars>>
database == <<vars, values, ce>>
driverVars == <<mainThread, database>>
-----------------------------------------------------------------------------
call == program[run]
df == Load(call.trace)
block == df.data[row]
gt == setLabels(Load(call.truth), TruthLabels)

Move(from, to) == dpc = from /\ dpc' = to

\* An exception that nobody catches, or a fault: the process is gone.
Terminate == /\ dpc' = "terminated"
             /\ UNCHANGED <<program, run, localVars, database>>

DInit ==
    /\ Init
    /\ program \in Programs
    /\ run = 1
    /\ dpc = "create"
    /\ row = 1
    /\ val = None
    /\ result = <<>>
    /\ warn_result = <<>>
    /\ values = <<>>
    /\ ce = [cr \in Carriers |-> None]
-----------------------------------------------------------------------------
(* The main thread.                                                        *)

Create ==
    /\ run <= Len(program)
    /\ Move("create", "initialize")
    /\ GetDatabaseContext
    /\ UNCHANGED <<program, run, localVars, values, ce>>

\* input_helper throws for a file that is not there, in Initialize or below it.
InitializeFails ==
    /\ dpc = "initialize"
    /\ "directory" \in call.missing
    /\ Terminate

InitializeCarrier ==
    /\ Move("initialize", "open")
    /\ "directory" \notin call.missing
    /\ Initialize(call.carrier)
    /\ \E place \in Places :
           ce' = [cr \in Carriers |->
                     IF cr = call.carrier
                     THEN [ho_files |-> call.ho_files, current_cell |-> 0,
                           prev_location |-> place, ho_prediction |-> Reserved]
                     ELSE None]
    /\ UNCHANGED <<program, run, localVars, values>>

\* Bug: the constructor of a DataFrame takes a missing file for an empty one.
OpenAnyway ==
    /\ Move("open", IF rows(df) = Window THEN "terminated" ELSE "row")
    /\ UNCHANGED <<program, run, localVars, database>>

\* The frames of the ground truth and of the trace; their constructors throw too.
\* rand() % (df.rows() - 30) is a division by zero for a trace of 30 rows.
Open ==
    /\ \/ Move("open", "terminated") /\ ({"truth", "trace"} \cap call.missing # {} \/ rows(df) = Window)
       \/ Move("open", "row") /\ {"truth", "trace"} \cap call.missing = {} /\ rows(df) # Window
    /\ UNCHANGED <<program, run, localVars, database>>

\* The loop's condition and the test for a low speed; NaN is not low.
NextRow ==
    /\ dpc = "row"
    /\ \/ /\ row > rows(df)
          /\ dpc' = "close"
          /\ UNCHANGED row
       \/ /\ row <= rows(df)
          /\ \E speed \in get(block, 3) :
                \/ speed = Failed /\ dpc' = "terminated" /\ UNCHANGED row
                \/ speed = NaN /\ dpc' = "cell" /\ UNCHANGED row
                \/ speed \in Int /\ speed < MinSpeed /\ dpc' = "row" /\ row' = row + 1
                \/ speed \in Int /\ speed >= MinSpeed /\ dpc' = "cell" /\ UNCHANGED row
    /\ UNCHANGED <<program, run, val, result, warn_result, database>>

ToCid(d) == IF d = NaN THEN MinCid ELSE d

UploadCell ==
    /\ dpc = "cell"
    /\ \E cell \in get(block, 10) :
          \/ cell = Failed /\ Terminate
          \/ /\ cell # Failed
             /\ UpdateCellID(Owner, call.carrier)
             /\ values' = Append(values, ToCid(cell))
             /\ dpc' = "gps"
             /\ UNCHANGED <<program, run, localVars, ce>>

\* Bug: the prediction is looked at without waiting for it.
UploadGPSOnly ==
    /\ Move("gps", "look")
    /\ UpdateGPS(Owner)
    /\ values' = Append(values, [lng |-> block[2], lat |-> block[3], time |-> block[9]])
    /\ UNCHANGED <<program, run, localVars, ce>>

UploadGPS ==
    /\ Move("gps", "wait")
    /\ UpdateGPS(Owner)
    /\ values' = Append(values, [lng |-> block[2], lat |-> block[3], time |-> block[9]])
    /\ UNCHANGED <<program, run, localVars, ce>>

\* pdbc->wait(), after an upload and at the end.
CallWait ==
    /\ \/ Move("wait", "look")
       \/ Move("close", "delete")
    /\ Wait(Owner)
    /\ UNCHANGED <<program, run, localVars, values, ce>>

\* Inside addRequest() and wait().
InsideCall ==
    /\ \/ Push(Owner) \/ CheckEmpty(Owner) \/ CheckNotEmpty(Owner) \/ Sleep(Owner)
       \/ Reacquire(Owner)
    /\ UNCHANGED <<mainThread, values, ce>>

WakeUp == SpuriousWakeup(Owner) /\ UNCHANGED <<mainThread, values, ce>>

\* A double of the loop is NaN, Inf or the distance of x from the root of q.
Number(b) == [x |-> b, q |-> Zero]

\* std::fabs(t - m), for a time t and a moment m.
Distance(t, m) == IF m.remain \in {NaN, Inf} THEN m.remain
                  ELSE [x |-> t - m.time - m.shift, q |-> m.remain]

Abs(x) == IF x < 0 THEN -x ELSE x

\* d <= b and d < b, for a number b of at least 0.
AtMost(d, b) ==
    /\ d \notin {NaN, Inf}
    /\ LET below == d.x - b
           above == d.x + b
       IN  /\ below <= 0 \/ below * below * d.q.den <= d.q.num
           /\ above >= 0 /\ d.q.num <= above * above * d.q.den

Under(d, b) ==
    /\ d \notin {NaN, Inf}
    /\ LET below == d.x - b
           above == d.x + b
       IN  /\ below < 0 \/ below * below * d.q.den < d.q.num
           /\ above > 0 /\ d.q.num < above * above * d.q.den

\* a < b for doubles one of which is a Number; nothing is less or greater than NaN.
Less(a, b) ==
    /\ a \notin {NaN, Inf} /\ b # NaN
    /\ \/ b = Inf
       \/ IF a.q.num = 0 THEN ~AtMost(b, Abs(a.x)) ELSE Under(a, Abs(b.x))

\* std::min
min(a, b) == IF Less(b, a) THEN b ELSE a

\* Bug: the arguments of std::min are swapped.
ErrorSwapped(t, m) == min(Distance(t, m), Number(StartError))

\* err, which starts at 1e6, after the one handover at time t.
Error(t, m) == min(Number(StartError), Distance(t, m))

\* err > 1e5
ErrorTooLarge(err) == Less(Number(MaxError), err)

\* Bug: the handovers are those of the cell at any time.
MatchesOfCell(curr_cell, curr_time) ==
    Then(selectNames(gt, <<"cell-id", "time", "handover">>),
         LAMBDA f : where(f, 0, {curr_cell}))

\* tempdf: the handovers from that cell around that time.
Matches(curr_cell, curr_time) ==
    Then(Then(selectNames(gt, <<"cell-id", "time", "handover">>),
              LAMBDA f : where(f, 0, {curr_cell})),
         LAMBDA f : where(f, 1, {d \in Int : d - curr_time < NearTime
                                           /\ curr_time - d < NearTime}))

\* getPrediction(), and what the rest of the loop's body makes of it.
Look ==
    /\ dpc = "look"
    /\ pc[Owner] \in Outside
    /\ \E curr_cell \in get(block, 10), curr_time \in get(block, 8) :
       LET prediction == ce[call.carrier].ho_prediction
           accepted(error) == result' = Append(result, [row |-> row, prediction |-> prediction,
                                                        error |-> error])
           done == dpc' = "row" /\ row' = row + 1
       IN  /\ val' = [row |-> row, prediction |-> prediction]
           /\ \/ prediction[2] # curr_cell /\ done /\ UNCHANGED <<result, warn_result>>
              \/ /\ prediction[2] = curr_cell
                 /\ \E tempdf \in Matches(curr_cell, curr_time) :
                    \/ /\ tempdf = Failed
                       /\ dpc' = "terminated"
                       /\ UNCHANGED <<row, result, warn_result>>
                    \/ /\ tempdf # Failed /\ rows(tempdf) # 1
                       /\ done /\ accepted(None) /\ UNCHANGED warn_result
                    \/ /\ tempdf # Failed /\ rows(tempdf) = 1
                       /\ LET v == tempdf.data[1] IN
                          /\ warn_result' = IF v[3] = 1 THEN warn_result
                                            ELSE Append(warn_result, row)
                          /\ LET err == Error(v[2], prediction[1])
                             IN  accepted(IF ErrorTooLarge(err) THEN None ELSE err)
                       /\ done
    /\ UNCHANGED <<program, run, database>>

Delete ==
    /\ Move("delete", "join")
    /\ DeleteDatabaseContext
    /\ values' = Append(values, None)
    /\ UNCHANGED <<program, run, localVars, ce>>

\* The end of the destructor and of run_one_carrier with its locals.  If
\* mainLoop has not ended its thread goes on in freed memory.
Join ==
    /\ Destroy
    /\ \/ /\ mainpc = "ended"
          /\ Move("join", "create")
          /\ run' = run + 1
          /\ row' = 1
          /\ val' = None
          /\ result' = <<>>
          /\ warn_result' = <<>>
       \/ /\ mainpc # "ended"
          /\ Move("join", "undefined")
          /\ UNCHANGED <<run, localVars>>
    /\ UNCHANGED <<program, values, ce>>
-----------------------------------------------------------------------------
(* The thread of mainLoop.                                                 *)

\* Bug: the early return without a prediction forgets the location.
RememberFound(env1, to, outcome) ==
    IF outcome = None THEN env1
    ELSE [env1 EXCEPT !.prev_location = to, !.ho_prediction = outcome]

\* What updateLocation leaves in a carrier.
Remember(env1, to, outcome) ==
    [env1 EXCEPT !.prev_location = to,
                 !.ho_prediction = IF outcome = None THEN @ ELSE outcome]

\* updateLocation finds a prediction, in the sense of DatabaseContext, if the
\* history has one.
UpdateLocation(cr) ==
    LET to == values[request.jobid] IN
    /\ mainpc = "switch" /\ request.type = "GPS" /\ cr \in todo
    /\ \E outcome \in Predict(HoFrame(ce[cr].ho_files), ce[cr].current_cell,
                              ce[cr].prev_location, to) :
          \/ outcome = Failed /\ Terminate
          \/ /\ outcome # Failed
             /\ ProcessGPS(cr)
             /\ (env'[cr].prediction.at = request.jobid) <=> (outcome # None)
             /\ ce' = [ce EXCEPT ![cr] = Remember(@, to, outcome)]
             /\ UNCHANGED <<mainThread, values>>

UpdateCell(cr) ==
    /\ ProcessCell(cr)
    /\ ce' = [ce EXCEPT ![cr].current_cell = values[request.jobid]]
    /\ UNCHANGED <<mainThread, values>>

\* The rest of mainLoop.
LoopStep ==
    /\ MainStart \/ Top \/ BeginPop \/ Pop \/ Finish \/ LockWait \/ Notify
    /\ UNCHANGED <<mainThread, values, ce>>

Running == dpc \notin {"terminated", "undefined"}

LoopNext == Running /\ (LoopStep \/ \E cr \in Carriers : UpdateLocation(cr) \/ UpdateCell(cr))

MainThreadNext ==
    /\ Running
    /\ \/ Create \/ InitializeFails \/ InitializeCarrier \/ Open \/ NextRow \/ UploadCell \/ UploadGPS
       \/ CallWait \/ InsideCall \/ Delete \/ Join

LookNext == Running /\ Look

\* main() has returned, or the process has ended otherwise.
Stopped == ~Running \/ (dpc = "create" /\ run > Len(program))

DNext == \/ LoopNext
         \/ MainThreadNext \/ LookNext
         \/ Running /\ WakeUp
         \/ Stopped /\ UNCHANGED driverVars

\* Both threads run, and each gets a mutex that is released again and again.
\* Nobody is woken from wait() without a notification.  mainLoop's steps are
\* named as in DatabaseContext, and Look, which blocks on nothing, by where it
\* leads: whether the computations are ENABLED is dear to evaluate.
DFairness ==
    /\ WF_vars(Running /\ MainNext)
    /\ SF_vars(Running /\ LockWait)
    /\ WF_driverVars(MainThreadNext)
    /\ SF_driverVars(MainThreadNext /\ wait_mutex = Free)
    /\ WF_dpc(/\ Running /\ dpc = "look" /\ pc[Owner] \in Outside
              /\ dpc' \in {"row", "terminated"})

DSpec == DInit /\ [][DNext]_driverVars /\ DFairness
-----------------------------------------------------------------------------
FullLines == /\ FiveFields(call.ho_files)
             /\ \A k \in DOMAIN call.trace : Len(call.trace[k]) = 10
             /\ \A k \in DOMAIN call.truth : Len(call.truth[k]) = 6

Cell(k) == ToCid(call.trace[k][10])
Place(k) == [lng |-> call.trace[k][1], lat |-> call.trace[k][2], time |-> call.trace[k][8]]
FastRows(n) == {k \in 1..n : call.trace[k][3] = NaN \/ call.trace[k][3] >= MinSpeed}
Latest(S) == CHOOSE k \in S : \A j \in S : j <= k

\* What the main thread reads for a row is what a program without threads would
\* compute: the prediction of the last row so far whose cell had a handover
\* nearby, made with the place of the fast row before it, and of nothing else:
\* no older request, no other context, no memory that was there before (except
\* for the first fast row of a trace).
AnswersAreSequential ==
    dpc = "row" /\ val # None /\ FullLines =>
        LET found == {k \in FastRows(val.row) :
                         Handovers(call.ho_files, Cell(k), Place(k)) # {}}
            k == Latest(found)
        IN  IF found = {} THEN val.prediction = Reserved
            ELSE \E from \in IF FastRows(k - 1) = {} THEN Places
                             ELSE {Place(Latest(FastRows(k - 1)))} :
                     val.prediction \in Predict(HoFrame(call.ho_files), Cell(k), from, Place(k))

\* The lines of the ground truth with the cell of row k and a time around its own.
NearTruth(k) == {i \in DOMAIN call.truth :
                    LET line == call.truth[i] IN
                    /\ line[6] = Cell(k) /\ line[5] \in Int
                    /\ line[5] - Place(k).time \in -NearTime + 1 .. NearTime - 1}

\* The rows for which there is one such line, and it says that the handover failed.
FailedHandovers == {k \in DOMAIN call.trace : \E i \in DOMAIN call.truth :
                                            NearTruth(k) = {i} /\ call.truth[i][4] # 1}

\* A warning is given for the accepted rows that have exactly one handover from
\* their cell in the ground truth within 100 seconds, and that one failed; the
\* warnings come in the order of the rows.
WarningsAreFailures ==
    dpc = "row" /\ FullLines =>
        /\ {warn_result[i] : i \in DOMAIN warn_result}
             = {result[i].row : i \in DOMAIN result} \cap FailedHandovers
        /\ \A i \in 2 .. Len(warn_result) : warn_result[i - 1] < warn_result[i]

\* An accepted row has its error column exactly if the ground truth has one
\* handover of its cell nearby and the time predicted for it is a number within
\* 1e5 seconds of that one; the column is their distance.  Every other accepted
\* row is one column short, what its prediction says and whatever came before.
ErrorColumn ==
    dpc = "row" /\ FullLines =>
        \A i \in DOMAIN result :
            LET m == result[i].prediction[1]
                near == {n \in DOMAIN call.truth : NearTruth(result[i].row) = {n}}
                measured == {n \in near : AtMost(Distance(call.truth[n][5], m), MaxError)}
            IN  IF measured = {} THEN result[i].error = None
                ELSE \A n \in measured : result[i].error = Distance(call.truth[n][5], m)

\* With full lines only a missing file or a trace of exactly 30 rows ends the
\* process, and only a trace without a row of high speed lets the destructor of
\* main.cc:94 overtake its thread: one upload and one wait() are enough to
\* prevent it.  Nothing is evaluated if a file is missing.
OnlyBadInputStops ==
    run <= Len(program) /\ FullLines =>
        /\ dpc = "terminated" => call.missing # {} \/ Len(call.trace) = Window
        /\ dpc = "undefined" => FastRows(Len(call.trace)) = {}
        /\ call.missing # {} => dpc \in {"create", "initialize", "open", "terminated"}

\* main() comes to its end, or the process ends otherwise: no wait() and no
\* destructor hangs, however the threads interleave.
DriverFinishes == <>Stopped
=============================================================================
