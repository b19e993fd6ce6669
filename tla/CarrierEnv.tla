----------------------------- MODULE CarrierEnv -----------------------------
(***************************************************************************)
(* One carrier of the database (src/CarrierEnv.cc).  The thread of         *)
(* mainLoop calls updateCell and updateLocation; client threads call       *)
(* getPrediction.  They share ho_prediction, a DataFrame of one row of     *)
(* four doubles, under pred_lock.                                          *)
(*                                                                         *)
(* A definition whose comment starts with "Bug:" is no part of the model:  *)
(* it is a mutated form of the definition after it.                        *)
(***************************************************************************)
EXTENDS Handover

CONSTANTS
    Readers,        \* the client threads that call getPrediction
    MainLoop,       \* the thread of mainLoop
    Free,           \* a lock without a holder
    HoFiles,        \* the lists of handover files a carrier may be created with
    Cells,          \* Cid_t: the cell ids that are reported
    Locations       \* GPS_t: the places and times that are reported

\* An updateLocation: its arguments and what it came to.
Update == [cell : Int, from : Locations, to : Locations,
           outcome : Prediction \cup {None, Failed}]

ASSUME CarrierEnvAssumption ==
    /\ MainLoop \notin Readers
    /\ Free \notin Readers \cup {MainLoop}
    /\ HoFiles \subseteq Seq(File)
    /\ \A files \in HoFiles : Len(files) <= 1  \* or the constructor throws
    /\ Cells \subseteq Int
    /\ Locations \subseteq [lng : Int, lat : Int, time : Int]
    /\ None \notin Update

VARIABLES
    ho_files,       \* the files the carrier was created with
    current_cell,
    prev_location,
    ho_prediction,  \* the row of four doubles, as columns 1 to 4
    pred_lock,
    mainpc,         \* "idle", "lock", "store" or "terminated"
    pending,        \* the prediction to be stored
    stored,         \* how many of its columns are
    rpc,            \* per reader: "out", "lock" or "copy"
    ret,            \* per reader: the columns it has copied
    got,            \* per reader: what its last getPrediction returned
    committed,      \* history: the last prediction stored completely
    made            \* history: the last updateLocation and what it came to

mainVars == <<current_cell, prev_location, ho_prediction, mainpc, pending, stored,
              committed, made>>
readerVars == <<rpc, ret, got>>
vars == <<ho_files, pred_lock, mainVars, readerVars>>
-----------------------------------------------------------------------------
(* The constructor.                                                        *)

ho_df == HoFrame(ho_files)

\* prev_location is not initialized: it may be any location.
Init ==
    /\ ho_files \in HoFiles
    /\ current_cell = 0
    /\ prev_location \in Locations
    /\ ho_prediction = Reserved
    /\ pred_lock = Free
    /\ mainpc = "idle"
    /\ pending = None
    /\ stored = 0
    /\ rpc = [r \in Readers |-> "out"]
    /\ ret = [r \in Readers |-> <<>>]
    /\ got = [r \in Readers |-> Reserved]
    /\ committed = Reserved
    /\ made = None
-----------------------------------------------------------------------------
(* The thread of mainLoop.                                                 *)

MainStep == UNCHANGED <<ho_files, readerVars>>

updateCell(cell) ==
    /\ mainpc = "idle"
    /\ current_cell' = cell
    /\ MainStep
    /\ UNCHANGED <<prev_location, ho_prediction, pred_lock, mainpc, pending, stored,
                   committed, made>>

\* updateLocation up to pred_lock; nothing of this is shared.  An exception
\* ends the process: nobody catches it on this thread.
updateLocation(to) ==
    /\ mainpc = "idle"
    /\ \E outcome \in Predict(ho_df, current_cell, prev_location, to) :
          /\ made' = [cell |-> current_cell, from |-> prev_location, to |-> to,
                      outcome |-> outcome]
          /\ \/ /\ outcome = Failed
                /\ mainpc' = "terminated"
                /\ UNCHANGED <<prev_location, pending>>
             \/ /\ outcome = None
                /\ prev_location' = to
                /\ UNCHANGED <<mainpc, pending>>
             \/ /\ outcome \notin {Failed, None}
                /\ pending' = outcome
                /\ mainpc' = "lock"
                /\ UNCHANGED prev_location
    /\ MainStep
    /\ UNCHANGED <<current_cell, ho_prediction, pred_lock, stored, committed>>

\* Bug: the prediction is stored without pred_lock.
LockNothing ==
    /\ mainpc = "lock"
    /\ mainpc' = "store"
    /\ MainStep
    /\ UNCHANGED <<current_cell, prev_location, ho_prediction, pred_lock, pending, stored,
                   committed, made>>

Lock ==
    /\ mainpc = "lock"
    /\ pred_lock = Free
    /\ pred_lock' = MainLoop
    /\ mainpc' = "store"
    /\ MainStep
    /\ UNCHANGED <<current_cell, prev_location, ho_prediction, pending, stored,
                   committed, made>>

\* getData()[0].set(stored, ...)
Store ==
    /\ mainpc = "store"
    /\ stored < 4
    /\ ho_prediction' = [ho_prediction EXCEPT ![stored + 1] = pending[stored + 1]]
    /\ stored' = stored + 1
    /\ MainStep
    /\ UNCHANGED <<current_cell, prev_location, pred_lock, mainpc, pending,
                   committed, made>>

\* Bug: pred_lock is never unlocked.
UnlockNothing ==
    /\ mainpc = "store"
    /\ stored = 4
    /\ stored' = 0
    /\ committed' = ho_prediction
    /\ prev_location' = made.to
    /\ pending' = None
    /\ mainpc' = "idle"
    /\ MainStep
    /\ UNCHANGED <<current_cell, ho_prediction, pred_lock, made>>

\* Unlock pred_lock, and remember the location.
Unlock ==
    /\ mainpc = "store"
    /\ stored = 4
    /\ stored' = 0
    /\ pred_lock' = Free
    /\ committed' = ho_prediction
    /\ prev_location' = made.to
    /\ pending' = None
    /\ mainpc' = "idle"
    /\ MainStep
    /\ UNCHANGED <<current_cell, ho_prediction, made>>

MainNext ==
    \/ \E cell \in Cells : updateCell(cell)
    \/ \E to \in Locations : updateLocation(to)
    \/ Lock \/ Store \/ Unlock
-----------------------------------------------------------------------------
(* A client thread: getPrediction.                                         *)

ReaderStep == mainpc # "terminated" /\ UNCHANGED <<ho_files, mainVars>>

getPrediction(r) ==
    /\ rpc[r] = "out"
    /\ rpc' = [rpc EXCEPT ![r] = "lock"]
    /\ ReaderStep
    /\ UNCHANGED <<pred_lock, ret, got>>

ReadLock(r) ==
    /\ rpc[r] = "lock"
    /\ pred_lock = Free
    /\ pred_lock' = r
    /\ rpc' = [rpc EXCEPT ![r] = "copy"]
    /\ ReaderStep
    /\ UNCHANGED <<ret, got>>

\* ret = ho_prediction, double by double
Copy(r) ==
    /\ rpc[r] = "copy"
    /\ Len(ret[r]) < 4
    /\ ret' = [ret EXCEPT ![r] = Append(@, ho_prediction[Len(@) + 1])]
    /\ ReaderStep
    /\ UNCHANGED <<pred_lock, rpc, got>>

ReadUnlock(r) ==
    /\ rpc[r] = "copy"
    /\ Len(ret[r]) = 4
    /\ pred_lock' = Free
    /\ rpc' = [rpc EXCEPT ![r] = "out"]
    /\ got' = [got EXCEPT ![r] = ret[r]]
    /\ ret' = [ret EXCEPT ![r] = <<>>]
    /\ ReaderStep

ReaderNext(r) == getPrediction(r) \/ ReadLock(r) \/ Copy(r) \/ ReadUnlock(r)

Next == MainNext \/ \E r \in Readers : ReaderNext(r)

Spec == Init /\ [][Next]_vars

\* A thread inside an operation keeps running, and gets in the end a mutex that
\* is released again and again.  Nobody has to call anything.
Fairness ==
    /\ WF_vars(Store \/ Unlock)
    /\ SF_vars(Lock)
    /\ \A r \in Readers : /\ WF_vars(Copy(r) \/ ReadUnlock(r))
                          /\ SF_vars(ReadLock(r))

FairSpec == Spec /\ Fairness
-----------------------------------------------------------------------------
\* The variables stay in their types.
TypeOK ==
    /\ ho_files \in HoFiles
    /\ current_cell \in Cells \cup {0}
    /\ prev_location \in Locations
    /\ ho_prediction \in Prediction
    /\ pred_lock \in Readers \cup {MainLoop, Free}
    /\ mainpc \in {"idle", "lock", "store", "terminated"}
    /\ pending \in Prediction \cup {None}
    /\ stored \in 0..4
    /\ rpc \in [Readers -> {"out", "lock", "copy"}]
    /\ \A r \in Readers : Len(ret[r]) <= 4
    /\ got \in [Readers -> Prediction]
    /\ committed \in Prediction
    /\ made \in Update \cup {None}

\* A reader returns all four numbers of one prediction, the newest at one point
\* of its call; so it never sees a handover time with another prediction's
\* failure time, and never goes back to an older prediction.
Atomic == INSTANCE AtomicPrediction WITH First <- Reserved, latest <- committed
AtomicSpec == Atomic!Spec

\* An updateLocation that finds no handover of the current cell nearby leaves
\* the prediction alone; any other predicts for that cell, with the share of
\* successes among the handovers nearby, one second after the handover if fewer
\* than two failures are known.
PredictsFromHistory ==
    made # None /\ FiveFields(ho_files) =>
        LET near == Handovers(ho_files, made.cell, made.to)
            With(T(_)) == Cardinality({k \in near : ho_files[1][k][4] \in Int /\ T(ho_files[1][k][4])})
        IN  IF near = {} THEN made.outcome = None
            ELSE /\ made.outcome[2] = made.cell
                 /\ made.outcome[3] = [num |-> With(LAMBDA h : h = 1), den |-> Cardinality(near)]
                 /\ made.outcome[1].time = made.to.time
                 /\ made.outcome[4] =
                       IF With(LAMBDA h : h > 1) < 2
                       THEN [made.outcome[1] EXCEPT !.shift = 1]
                       ELSE [made.outcome[4] EXCEPT !.shift = -1]

\* A file whose lines all have five fields, numbers or not, cannot make
\* updateLocation throw and so end the process.
FullLinesNeverTerminate == FiveFields(ho_files) => mainpc # "terminated"

Moving == /\ made.from.time # made.to.time
          /\ <<made.from.lng, made.from.lat>> # <<made.to.lng, made.to.lat>>

\* As long as time passes and the place changes between two updates, the times
\* of a prediction are numbers: no NaN of the file, no division by zero and no
\* infinity reaches them.  They are the distance to the mean place of the
\* handovers nearby, or of the failed ones, over the speed.
TimesAreDistanceOverSpeed ==
    made # None /\ FiveFields(ho_files) /\ made.outcome # None /\ Moving =>
        LET near == Handovers(ho_files, made.cell, made.to)
            Total(S, i) == Sum([k \in DOMAIN ho_files[1] |->
                                  IF k \in S THEN ho_files[1][k][i] ELSE 0])
            Squares(dx, dy) == dx * dx + dy * dy
            IsTimeTo(S, remain) ==
                /\ remain \in Fraction
                /\ remain.num * Cardinality(S) * Cardinality(S)
                      * Squares(made.to.lng - made.from.lng, made.to.lat - made.from.lat)
                   = remain.den * (made.to.time - made.from.time) * (made.to.time - made.from.time)
                      * Squares(Total(S, 1) - Cardinality(S) * made.to.lng,
                                Total(S, 2) - Cardinality(S) * made.to.lat)
        IN  /\ IsTimeTo(near, made.outcome[1].remain)
            /\ made.outcome[4].shift = -1 =>
                   IsTimeTo({k \in near : ho_files[1][k][4] \in Int /\ ho_files[1][k][4] > 1},
                            made.outcome[4].remain)

\* getPrediction returns.
ReadReturns == \A r \in Readers : (rpc[r] = "lock") ~> (rpc[r] = "out")
=============================================================================
