-------------------------- MODULE CarrierEnvProofs --------------------------
(***************************************************************************)
(* Reads of a carrier's prediction are atomic, for any number of readers,  *)
(* any history and any updates: CarrierEnv implements AtomicPrediction.    *)
(*                                                                         *)
(* The invariant says who holds pred_lock, that the row outside a store is *)
(* the last complete prediction, and that what a reader has copied so far  *)
(* is the beginning of that prediction.                                    *)
(***************************************************************************)
EXTENDS CarrierEnv, FramesProofs, TLAPS

Row(p) == DOMAIN p = 1..4 /\ p = [i \in 1..4 |-> p[i]]

LockInv ==
    /\ pred_lock = MainLoop <=> mainpc = "store"
    /\ \A r \in Readers : pred_lock = r <=> rpc[r] = "copy"

RowInv ==
    /\ Row(ho_prediction) /\ Row(committed)
    /\ mainpc # "store" => ho_prediction = committed

CopyInv ==
    /\ DOMAIN rpc = Readers /\ DOMAIN ret = Readers /\ DOMAIN got = Readers
    /\ got = [r \in Readers |-> got[r]]
    /\ \A r \in Readers :
          \E n \in 0..4 : /\ ret[r] = [i \in 1..n |-> committed[i]]
                          /\ rpc[r] # "copy" => n = 0

IInv == LockInv /\ RowInv /\ CopyInv

-----------------------------------------------------------------------------
\* What a prefix of a row is after one more column, and with all four.
LEMMA Prefixes ==
    ASSUME NEW p, Row(p), NEW n \in 0..4, NEW s, s = [i \in 1..n |-> p[i]]
    PROVE  /\ Len(s) = n
           /\ n < 4 => Append(s, p[n + 1]) = [i \in 1 .. n + 1 |-> p[i]]
           /\ n = 4 => s = p
           /\ n = 0 => s = <<>>
<1>1. s \in Seq({p[i] : i \in 1..4}) /\ Len(s) = n
  OBVIOUS
<1>2. ASSUME n < 4 PROVE Append(s, p[n + 1]) = [i \in 1 .. n + 1 |-> p[i]]
  BY <1>1, <1>2
<1>3. ASSUME n = 4 PROVE s = p
  BY <1>3 DEF Row
<1>4. ASSUME n = 0 PROVE s = <<>>
  BY <1>1, <1>4
<1> QED
  BY <1>1, <1>2, <1>3, <1>4

\* The invariant of the locks holds when the carrier is created.
LEMMA Initially == Init => IInv
<1> SUFFICES ASSUME Init PROVE IInv
  OBVIOUS
<1> USE CarrierEnvAssumption DEF Init
<1>1. LockInv
  BY DEF LockInv
<1>2. Row(Reserved)
  BY DEF Row, Reserved
<1>3. RowInv
  BY <1>2 DEF RowInv
<1>4. CopyInv
  BY DEF CopyInv
<1> QED
  BY <1>1, <1>3, <1>4 DEF IInv

\* The invariant survives every step.
LEMMA Inductive == IInv /\ [Next]_vars => IInv'
<1> SUFFICES ASSUME IInv, [Next]_vars PROVE IInv'
  OBVIOUS
<1> USE CarrierEnvAssumption DEF IInv
<1>1. CASE UNCHANGED vars
  BY <1>1 DEF vars, mainVars, readerVars, LockInv, RowInv, Row, CopyInv
<1>2. ASSUME NEW cell \in Cells, updateCell(cell) PROVE IInv'
  BY <1>2 DEF updateCell, MainStep, readerVars, LockInv, RowInv, Row, CopyInv
<1>3. ASSUME NEW to \in Locations, updateLocation(to) PROVE IInv'
  <2>1. /\ mainpc = "idle" /\ mainpc' \in {"idle", "lock", "terminated"}
        /\ UNCHANGED <<ho_prediction, pred_lock, committed, rpc, ret, got>>
    BY <1>3 DEF updateLocation, MainStep, readerVars
  <2> QED
    BY <2>1 DEF LockInv, RowInv, Row, CopyInv
<1>4. CASE Lock
  BY <1>4 DEF Lock, MainStep, readerVars, LockInv, RowInv, Row, CopyInv
<1>5. CASE Store
  <2>1. /\ mainpc = "store" /\ stored < 4
        /\ ho_prediction' = [ho_prediction EXCEPT ![stored + 1] = pending[stored + 1]]
        /\ UNCHANGED <<pred_lock, mainpc, committed, rpc, ret, got>>
    BY <1>5 DEF Store, MainStep, readerVars
  <2>2. RowInv'
    BY <2>1 DEF RowInv, Row
  <2> QED
    BY <2>1, <2>2 DEF LockInv, CopyInv
<1>6. CASE Unlock
  <2>1. /\ mainpc = "store" /\ mainpc' = "idle"
        /\ pred_lock' = Free /\ committed' = ho_prediction
        /\ UNCHANGED <<ho_prediction, rpc, ret, got>>
    BY <1>6 DEF Unlock, MainStep, readerVars
  <2>2. LockInv' /\ RowInv'
    BY <2>1 DEF LockInv, RowInv, Row
  <2>3. \A r \in Readers : rpc[r] # "copy"
    BY <2>1 DEF LockInv
  <2>4. CopyInv'
    BY <2>1, <2>3 DEF CopyInv
  <2> QED
    BY <2>2, <2>4
<1>7. ASSUME NEW r \in Readers, getPrediction(r) PROVE IInv'
  BY <1>7 DEF getPrediction, ReaderStep, mainVars, LockInv, RowInv, Row, CopyInv
<1>8. ASSUME NEW r \in Readers, ReadLock(r) PROVE IInv'
  BY <1>8 DEF ReadLock, ReaderStep, mainVars, LockInv, RowInv, Row, CopyInv
<1>9. ASSUME NEW r \in Readers, Copy(r) PROVE IInv'
  <2>1. /\ rpc[r] = "copy" /\ Len(ret[r]) < 4
        /\ ret' = [ret EXCEPT ![r] = Append(ret[r], ho_prediction[Len(ret[r]) + 1])]
        /\ UNCHANGED <<ho_prediction, pred_lock, mainpc, committed, rpc, got>>
    BY <1>9 DEF Copy, ReaderStep, mainVars
  <2>2. LockInv' /\ RowInv'
    BY <2>1 DEF LockInv, RowInv, Row
  <2>3. ho_prediction = committed
    BY <2>1 DEF LockInv, RowInv
  <2>4. PICK n \in 0..4 : ret[r] = [i \in 1..n |-> committed[i]]
    BY DEF CopyInv
  <2>5. n < 4 /\ ret'[r] = [i \in 1 .. n + 1 |-> committed[i]]
    BY <2>1, <2>3, <2>4, Prefixes DEF RowInv, CopyInv
  <2>6. ASSUME NEW q \in Readers
        PROVE  \E m \in 0..4 : /\ ret'[q] = [i \in 1..m |-> committed[i]]
                               /\ rpc[q] # "copy" => m = 0
    <3>1. CASE q = r
      <4>1. n + 1 \in 0..4
        BY <2>5
      <4> QED
        BY <4>1, <2>1, <2>5, <3>1
    <3>2. CASE q # r
      <4>1. ret'[q] = ret[q]
        BY <2>1, <3>2
      <4> QED
        BY <4>1 DEF CopyInv
    <3> QED
      BY <3>1, <3>2
  <2>7. CopyInv'
    BY <2>1, <2>6, SMTT(30) DEF CopyInv
  <2> QED
    BY <2>2, <2>7
<1>10. ASSUME NEW r \in Readers, ReadUnlock(r) PROVE IInv'
  <2>1. /\ pred_lock' = Free
        /\ rpc[r] = "copy" /\ rpc' = [rpc EXCEPT ![r] = "out"]
        /\ got' = [got EXCEPT ![r] = ret[r]]
        /\ ret' = [ret EXCEPT ![r] = <<>>]
        /\ UNCHANGED <<mainpc, ho_prediction, committed>>
    BY <1>10 DEF ReadUnlock, ReaderStep, mainVars
  <2>2. LockInv'
    BY <2>1 DEF LockInv, CopyInv
  <2>3. RowInv'
    BY <2>1 DEF RowInv, Row
  <2>4. <<>> = [i \in 1..0 |-> committed'[i]]
    OBVIOUS
  <2>5. ASSUME NEW s \in Readers
        PROVE  \E n \in 0..4 : /\ ret'[s] = [i \in 1..n |-> committed'[i]]
                               /\ rpc'[s] # "copy" => n = 0
    <3>1. CASE s = r
      BY <2>1, <2>4, <3>1 DEF CopyInv
    <3>2. CASE s # r
      BY <2>1, <3>2 DEF CopyInv
    <3> QED
      BY <3>1, <3>2
  <2>6. CopyInv'
    BY <2>1, <2>5 DEF CopyInv
  <2> QED
    BY <2>2, <2>3, <2>6
<1> QED
  BY <1>1, <1>2, <1>3, <1>4, <1>5, <1>6, <1>7, <1>8, <1>9, <1>10
     DEF Next, MainNext, ReaderNext

-----------------------------------------------------------------------------
\* A step that ends a store publishes, a step that ends a read reads all of the
\* newest prediction, and no other step is visible.
LEMMA Step == IInv /\ [Next]_vars => [Atomic!Next]_<<committed, got>>
<1> SUFFICES ASSUME IInv, [Next]_vars PROVE [Atomic!Next]_<<committed, got>>
  OBVIOUS
<1> USE DEF IInv, Atomic!Next, Atomic!Publish, Atomic!getPrediction
<1>1. CASE UNCHANGED vars
  BY <1>1 DEF vars, mainVars, readerVars
<1>2. ASSUME NEW cell \in Cells, updateCell(cell) PROVE UNCHANGED <<committed, got>>
  BY <1>2 DEF updateCell, MainStep, readerVars
<1>3. ASSUME NEW to \in Locations, updateLocation(to) PROVE UNCHANGED <<committed, got>>
  BY <1>3 DEF updateLocation, MainStep, readerVars
<1>4. ASSUME Lock \/ Store PROVE UNCHANGED <<committed, got>>
  BY <1>4 DEF Lock, Store, MainStep, readerVars
<1>5. ASSUME Unlock PROVE UNCHANGED got
  BY <1>5 DEF Unlock, MainStep, readerVars
<1>6. ASSUME NEW r \in Readers, getPrediction(r) \/ ReadLock(r) \/ Copy(r)
      PROVE  UNCHANGED <<committed, got>>
  BY <1>6 DEF getPrediction, ReadLock, Copy, ReaderStep, mainVars
<1>7. ASSUME NEW r \in Readers, ReadUnlock(r) PROVE Atomic!getPrediction(r)
  <2>1. /\ Len(ret[r]) = 4
        /\ got' = [got EXCEPT ![r] = ret[r]]
        /\ UNCHANGED committed
    BY <1>7 DEF ReadUnlock, ReaderStep, mainVars
  <2>2. PICK n \in 0..4 : ret[r] = [i \in 1..n |-> committed[i]]
    BY DEF CopyInv
  <2>3. Row(committed)
    BY DEF RowInv
  <2> HIDE DEF IInv, Atomic!Next, Atomic!Publish, Atomic!getPrediction
  <2>4. Len(ret[r]) = n
    BY <2>2, <2>3, Prefixes
  <2>5. n = 4 => ret[r] = committed
    BY <2>2, <2>3, Prefixes, Zenon
  <2>6. ret[r] = committed
    BY <2>1, <2>4, <2>5
  <2> QED
    BY <2>1, <2>6 DEF Atomic!getPrediction
<1> QED
  BY <1>1, <1>2, <1>3, <1>4, <1>5, <1>6, <1>7 DEF Next, MainNext, ReaderNext

\* getPrediction() returns one whole prediction, the newest at one point of the
\* call, however its copy and the four set() calls of predict_handover
\* interleave.
THEOREM ReadsAreAtomic == Spec => AtomicSpec
<1>1. Init => Atomic!Init
  BY DEF Init, Atomic!Init, Reserved
<1>2. Spec => []IInv
  BY Initially, Inductive, PTL DEF Spec
<1>3. Spec => [][Atomic!Next]_<<committed, got>>
  BY <1>2, Step, PTL DEF Spec
<1> QED
  BY <1>1, <1>3, PTL DEF Spec, AtomicSpec, Atomic!Spec

\* Only the holder of pred_lock is between the first and the last of its
\* accesses to ho_prediction, and outside a store the row is complete.
THEOREM PredLockExcludes == Spec => [](LockInv /\ RowInv)
  BY Initially, Inductive, PTL DEF Spec, IInv

-----------------------------------------------------------------------------
(* What is predicted.                                                      *)

\* The last update came to what predict_handover computes of its arguments, and
\* what is about to be stored is a prediction.
MadeInv ==
    /\ made \in Update \cup {None}
    /\ made # None => made.outcome \in Predict(ho_df, made.cell, made.from, made.to)
    /\ mainpc = "terminated" => made # None /\ made.outcome = Failed
    /\ mainpc \in {"lock", "store"} => pending \in Prediction /\ made \in Update

TypeInv == TypeOK /\ MadeInv

\* A carrier has at most one handover file, and its history is a frame with the six
\* labels, unless it is empty.
LEMMA Histories ==
  ASSUME ho_files \in HoFiles
  PROVE  /\ ho_files \in Seq(File) /\ Len(ho_files) <= 1
         /\ ho_df \in Frame
         /\ rows(ho_df) = 0 \/ ho_df.label = HoLabels
<1>1. ho_files \in Seq(File) /\ Len(ho_files) <= 1
  BY CarrierEnvAssumption
<1>2. /\ HoFrame(ho_files) \in Frame
      /\ rows(HoFrame(ho_files)) = 0 \/ HoFrame(ho_files).label = HoLabels
  BY <1>1, HistoryIs
<1>3. QED
  BY <1>1, <1>2 DEF ho_df

\* One more column of a prediction is that of another.
LEMMA ColumnStored ==
  ASSUME NEW p \in Prediction, NEW q \in Prediction, NEW i \in 1..4
  PROVE  [p EXCEPT ![i] = q[i]] \in Prediction
<1>1. /\ p = <<p[1], p[2], p[3], p[4]>> /\ q = <<q[1], q[2], q[3], q[4]>>
      /\ p[1] \in MomentType /\ p[2] \in Int /\ p[3] \in Fraction /\ p[4] \in MomentType
      /\ q[1] \in MomentType /\ q[2] \in Int /\ q[3] \in Fraction /\ q[4] \in MomentType
  BY DEF Prediction
<1> DEFINE r == [p EXCEPT ![i] = q[i]]
<1>2. r = <<r[1], r[2], r[3], r[4]>>
  BY <1>1
<1>3. r[1] \in MomentType /\ r[2] \in Int /\ r[3] \in Fraction /\ r[4] \in MomentType
  BY <1>1
<1> HIDE DEF r
<1>4. r \in Prediction
  BY <1>2, <1>3 DEF Prediction
<1>5. QED
  BY <1>4 DEF r

\* The types hold when the carrier is created.
LEMMA TypesInitially == Init => TypeInv
<1> SUFFICES ASSUME Init PROVE TypeInv
  OBVIOUS
<1> USE DEF Init
<1>1. TypeOK
  BY ReservedIs DEF TypeOK
<1>2. MadeInv
  BY DEF MadeInv
<1>3. QED
  BY <1>1, <1>2 DEF TypeInv

\* Types of the variables that the main loop and the readers change.
LEMMA TypesStay == IInv /\ TypeInv /\ [Next]_vars => TypeInv'
<1> SUFFICES ASSUME IInv, TypeInv, [Next]_vars PROVE TypeInv'
  OBVIOUS
<1>0. TypeOK /\ MadeInv
  BY DEF TypeInv
<1> USE DEF TypeOK, MadeInv, ho_df
<1>1. CASE UNCHANGED vars
  BY <1>0, <1>1 DEF vars, mainVars, readerVars, TypeInv
<1>2. ASSUME NEW cell \in Cells, updateCell(cell) PROVE TypeInv'
  BY <1>0, <1>2 DEF updateCell, MainStep, readerVars, TypeInv
<1>3. ASSUME NEW to \in Locations, updateLocation(to) PROVE TypeInv'
  <2>1. PICK outcome \in Predict(ho_df, current_cell, prev_location, to) :
          /\ made' = [cell |-> current_cell, from |-> prev_location, to |-> to,
                      outcome |-> outcome]
          /\ \/ /\ outcome = Failed
                /\ mainpc' = "terminated"
                /\ UNCHANGED <<prev_location, pending>>
             \/ /\ outcome = None
                /\ prev_location' = to
                /\ UNCHANGED <<mainpc, pending>>
             \/ /\ outcome \notin {Failed, None}
                /\ pending' = outcome
                /\ mainpc' = "lock"
                /\ UNCHANGED prev_location
    BY <1>3 DEF updateLocation
  <2>2. /\ mainpc = "idle"
        /\ UNCHANGED <<current_cell, ho_prediction, pred_lock, stored, committed, ho_files,
                       rpc, ret, got>>
    BY <1>3 DEF updateLocation, MainStep, readerVars
  <2>3. current_cell \in Int /\ prev_location \in Location /\ to \in Location
    BY <1>0, CarrierEnvAssumption DEF Location
  <2>4. outcome \in Prediction \cup {None, Failed}
    <3> HIDE DEF ho_df, TypeOK, MadeInv
    <3>1. ho_df \in Frame /\ (rows(ho_df) = 0 \/ ho_df.label = HoLabels)
      BY <1>0, Histories DEF TypeOK
    <3>2. QED
      BY <2>3, <3>1, PredictType
  <2> HIDE DEF ho_df, Predict
  <2>5. made' \in Update
    BY <1>0, <2>1, <2>3, <2>4 DEF Update
  <2>6. ho_df' = ho_df
    BY <2>2 DEF ho_df
  <2>7. MadeInv'
    <3>1. made'.outcome \in Predict(ho_df', made'.cell, made'.from, made'.to)
      BY <2>1, <2>6
    <3>2. mainpc' = "terminated" => made' # None /\ made'.outcome = Failed
      <4>1. mainpc' = "terminated" => outcome = Failed
        BY <2>1, <2>2
      <4>2. made' # None
        BY <2>5, CarrierEnvAssumption
      <4>3. QED
        BY <2>1, <4>1, <4>2
    <3>3. mainpc' \in {"lock", "store"} => pending' \in Prediction /\ made' \in Update
      BY <2>1, <2>2, <2>4, <2>5
    <3>4. QED
      BY <2>5, <3>1, <3>2, <3>3
  <2>8. TypeOK'
    BY <1>0, <2>1, <2>2, <2>4, <2>5
  <2>9. QED
    BY <2>7, <2>8 DEF TypeInv
<1>4. CASE Lock
  BY <1>0, <1>4 DEF Lock, MainStep, readerVars, TypeInv
<1>5. CASE Store
  <2>1. /\ mainpc = "store" /\ stored < 4 /\ stored' = stored + 1
        /\ ho_prediction' = [ho_prediction EXCEPT ![stored + 1] = pending[stored + 1]]
        /\ UNCHANGED <<current_cell, prev_location, pred_lock, mainpc, pending, committed,
                       made, ho_files, rpc, ret, got>>
    BY <1>5 DEF Store, MainStep, readerVars
  <2>2. stored + 1 \in 1..4 /\ pending \in Prediction /\ ho_prediction \in Prediction
    BY <1>0, <2>1
  <2>3. ho_prediction' \in Prediction
    BY <2>1, <2>2, ColumnStored
  <2>4. QED
    BY <1>0, <2>1, <2>2, <2>3 DEF TypeInv
<1>6. CASE Unlock
  <2>1. made \in Update /\ made.to \in Locations
    BY <1>0, <1>6 DEF Unlock, Update
  <2>2. QED
    BY <1>0, <1>6, <2>1 DEF Unlock, MainStep, readerVars, TypeInv
<1>7. ASSUME NEW r \in Readers, ReaderNext(r) PROVE TypeInv'
  <2>1. mainpc # "terminated" /\ UNCHANGED <<ho_files, mainVars>>
    BY <1>7 DEF ReaderNext, getPrediction, ReadLock, Copy, ReadUnlock, ReaderStep
  <2>2. MadeInv'
    BY <1>0, <2>1 DEF mainVars
  <2>3. TypeOK'
    <3>1. CASE getPrediction(r) \/ ReadLock(r)
      BY <1>0, <2>1, <3>1 DEF getPrediction, ReadLock, mainVars
    <3>2. CASE Copy(r)
      <4>1. /\ Len(ret[r]) < 4 /\ UNCHANGED <<pred_lock, rpc, got>>
            /\ ret' = [ret EXCEPT ![r] = Append(ret[r], ho_prediction[Len(ret[r]) + 1])]
        BY <3>2 DEF Copy
      <4>2. PICK n \in 0..4 : ret[r] = [i \in 1..n |-> committed[i]]
        BY DEF IInv, CopyInv
      <4>3. DOMAIN ret = Readers /\ Row(committed)
        BY DEF IInv, CopyInv, RowInv
      <4>4. Len(ret[r]) = n
        BY <4>2, <4>3, Prefixes
      <4>5. Len(Append(ret[r], ho_prediction[Len(ret[r]) + 1])) = n + 1
        BY <4>2
      <4>6. \A q \in Readers : Len(ret'[q]) <= 4
        BY <1>0, <4>1, <4>3, <4>4, <4>5
      <4>7. QED
        BY <1>0, <2>1, <4>1, <4>6 DEF mainVars
    <3>3. CASE ReadUnlock(r)
      <4>1. /\ Len(ret[r]) = 4 /\ pred_lock' = Free
            /\ rpc' = [rpc EXCEPT ![r] = "out"]
            /\ got' = [got EXCEPT ![r] = ret[r]] /\ ret' = [ret EXCEPT ![r] = <<>>]
        BY <3>3 DEF ReadUnlock
      <4>2. PICK n \in 0..4 : ret[r] = [i \in 1..n |-> committed[i]]
        BY DEF IInv, CopyInv
      <4>3. DOMAIN ret = Readers /\ Row(committed)
        BY DEF IInv, CopyInv, RowInv
      <4>4. ret[r] = committed
        <5>1. Len(ret[r]) = n
          BY <4>2, <4>3, Prefixes
        <5>2. n = 4 => ret[r] = committed
          BY <4>2, <4>3, Prefixes, Zenon
        <5>3. QED
          BY <4>1, <5>1, <5>2
      <4>5. got' \in [Readers -> Prediction]
        BY <1>0, <4>1, <4>4
      <4>6. \A q \in Readers : Len(ret'[q]) <= 4
        BY <1>0, <4>1, <4>3
      <4>7. QED
        BY <1>0, <2>1, <4>1, <4>5, <4>6 DEF mainVars
    <3>4. QED
      BY <1>7, <3>1, <3>2, <3>3 DEF ReaderNext
  <2>4. QED
    BY <2>2, <2>3 DEF TypeInv
<1>8. QED
  BY <1>1, <1>2, <1>3, <1>4, <1>5, <1>6, <1>7 DEF Next, MainNext

\* The parameters of updateLocation, the row that is stored and what getPrediction
\* returns stay in their types, whatever the handover file looks like: ragged
\* rows, NaN fields and memory behind the end of a row included.
THEOREM TypeCorrect == Spec => []TypeOK
<1>1. Spec => []IInv
  BY Initially, Inductive, PTL DEF Spec
<1>2. Spec => []TypeInv
  BY <1>1, TypesInitially, TypesStay, PTL DEF Spec
<1>3. TypeInv => TypeOK
  BY DEF TypeInv
<1>4. QED
  BY <1>2, <1>3, PTL

\* An update on a file of five fields a line, by PredictIs.
LEMMA UpdateIs ==
  ASSUME TypeInv, made # None, FiveFields(ho_files)
  PROVE  /\ HistoryOf(ho_files, ho_df)
         /\ made.cell \in Int /\ made.from \in Location /\ made.to \in Location
         /\ PredictsFrom(ho_df, made.cell, made.from, made.to, made.outcome)
<1>1. /\ made \in Update /\ ho_files \in HoFiles
      /\ made.outcome \in Predict(ho_df, made.cell, made.from, made.to)
  BY DEF TypeInv, TypeOK, MadeInv
<1>2. made.cell \in Int /\ made.from \in Location /\ made.to \in Location
  BY <1>1, CarrierEnvAssumption DEF Update, Location
<1>3. ho_files \in Seq(File) /\ Len(ho_files) <= 1
  BY <1>1, Histories
<1>4. HistoryOf(ho_files, ho_df)
  BY <1>3, FiveFieldsFit DEF ho_df
<1> HIDE DEF ho_df
<1>5. SixColumns(ho_df)
  BY <1>4 DEF HistoryOf
<1>6. QED
  BY <1>1, <1>2, <1>4, <1>5, PredictIs

\* No line of five fields, however wrong its values, ends the process.
THEOREM FullLinesAreSafe == Spec => []FullLinesNeverTerminate
<1>1. Spec => []IInv
  BY Initially, Inductive, PTL DEF Spec
<1>2. Spec => []TypeInv
  BY <1>1, TypesInitially, TypesStay, PTL DEF Spec
<1>3. TypeInv => FullLinesNeverTerminate
  <2> SUFFICES ASSUME TypeInv, FiveFields(ho_files), mainpc = "terminated" PROVE FALSE
    BY DEF FullLinesNeverTerminate
  <2>1. made # None /\ made.outcome = Failed
    BY DEF TypeInv, MadeInv
  <2>2. made.outcome # Failed
    BY <2>1, UpdateIs DEF PredictsFrom
  <2>3. QED
    BY <2>1, <2>2
<1>4. QED
  BY <1>2, <1>3, PTL

\* The prediction of the code is the one of the specification in its own words:
\* the current cell, the share of successes among the handovers nearby, and
\* which of the times is estimated from failures.
THEOREM HistoryPredicts == Spec => []PredictsFromHistory
<1>1. Spec => []IInv
  BY Initially, Inductive, PTL DEF Spec
<1>2. Spec => []TypeInv
  BY <1>1, TypesInitially, TypesStay, PTL DEF Spec
<1>3. TypeInv => PredictsFromHistory
  <2> SUFFICES ASSUME TypeInv, made # None, FiveFields(ho_files)
               PROVE  PredictsFromHistory
    BY DEF PredictsFromHistory
  <2> DEFINE near == Handovers(ho_files, made.cell, made.to)
             R == NearRows(made.cell, made.to)
             ok == HandoversIn(ho_files, made.cell, made.to, {1})
             bad == HandoversIn(ho_files, made.cell, made.to, {d \in Int : d > 1})
  <2>1. /\ HistoryOf(ho_files, ho_df) /\ made.to \in Location /\ made.cell \in Int
        /\ PredictsFrom(ho_df, made.cell, made.from, made.to, made.outcome)
    BY UpdateIs
  <2>2. /\ Count(ho_df, R) = Cardinality(near)
        /\ Count(ho_df, R \cap Having(5, {1})) = Cardinality(ok)
        /\ Count(ho_df, R \cap Having(5, {d \in Int : d > 1})) = Cardinality(bad)
    BY <2>1, HandoversAre
  <2>3. Cardinality(near) = 0 <=> near = {}
    BY <2>1, NoHandovers
  <2>4. /\ ok = {k \in near : ho_files[1][k][4] \in Int /\ ho_files[1][k][4] = 1}
        /\ bad = {k \in near : ho_files[1][k][4] \in Int /\ ho_files[1][k][4] > 1}
    BY DEF HandoversIn
  <2> HIDE DEF ok, bad, near, R
  <2>5. near = {} => made.outcome = None
    BY <2>1, <2>2, <2>3 DEF PredictsFrom, R
  <2>6. near # {} =>
           \E r1, r4 \in Fraction \cup {NaN, Inf} :
              /\ made.outcome = <<Moment(made.to.time, r1, 0),
                                  made.cell,
                                  [num |-> Cardinality(ok), den |-> Cardinality(near)],
                                  Moment(made.to.time, r4,
                                         IF Cardinality(bad) > 1 THEN -1 ELSE 1)>>
              /\ Cardinality(bad) < 2 => r4 = r1
    BY <2>1, <2>2, <2>3 DEF PredictsFrom, R
  <2>7. Cardinality(bad) \in Nat
    BY <2>1, <2>2, CountIs DEF HistoryOf
  <2>8. near # {} =>
           /\ made.outcome[2] = made.cell
           /\ made.outcome[3] = [num |-> Cardinality(ok), den |-> Cardinality(near)]
           /\ made.outcome[1].time = made.to.time
           /\ made.outcome[4] = IF Cardinality(bad) < 2
                                THEN [made.outcome[1] EXCEPT !.shift = 1]
                                ELSE [made.outcome[4] EXCEPT !.shift = -1]
    <3> SUFFICES ASSUME near # {}
                 PROVE  /\ made.outcome[2] = made.cell
                        /\ made.outcome[3] = [num |-> Cardinality(ok), den |-> Cardinality(near)]
                        /\ made.outcome[1].time = made.to.time
                        /\ made.outcome[4] = IF Cardinality(bad) < 2
                                             THEN [made.outcome[1] EXCEPT !.shift = 1]
                                             ELSE [made.outcome[4] EXCEPT !.shift = -1]
      OBVIOUS
    <3> DEFINE x == made.outcome
               t == made.to.time
               n == Cardinality(bad)
    <3>1. PICK r1, r4 \in Fraction \cup {NaN, Inf} :
             /\ x = <<Moment(t, r1, 0), made.cell,
                      [num |-> Cardinality(ok), den |-> Cardinality(near)],
                      Moment(t, r4, IF n > 1 THEN -1 ELSE 1)>>
             /\ n < 2 => r4 = r1
      BY <2>6
    <3> HIDE DEF x, t, n
    <3>2. /\ x[2] = made.cell
          /\ x[3] = [num |-> Cardinality(ok), den |-> Cardinality(near)]
          /\ x[1] = [time |-> t, remain |-> r1, shift |-> 0]
          /\ x[4] = [time |-> t, remain |-> r4, shift |-> IF n > 1 THEN -1 ELSE 1]
      BY <3>1 DEF Moment
    <3>3. n \in Nat
      BY <2>7 DEF n
    <3>4. CASE n < 2
      <4>1. x[4] = [time |-> t, remain |-> r1, shift |-> 1]
        BY <3>1, <3>2, <3>3, <3>4
      <4>2. [x[1] EXCEPT !.shift = 1] = [time |-> t, remain |-> r1, shift |-> 1]
        BY <3>2
      <4>3. QED
        BY <3>2, <3>4, <4>1, <4>2 DEF x, t, n
    <3>5. CASE ~(n < 2)
      <4>1. x[4] = [time |-> t, remain |-> r4, shift |-> -1]
        BY <3>2, <3>3, <3>5
      <4>2. x[4] = [x[4] EXCEPT !.shift = -1]
        BY <4>1
      <4>3. QED
        BY <3>2, <3>5, <4>2 DEF x, t, n
    <3>6. QED
      BY <3>4, <3>5
  <2>9. QED
    BY <2>4, <2>5, <2>8 DEF PredictsFromHistory, near
<1>4. QED
  BY <1>2, <1>3, PTL

\* The times, by RemainIs: of the handovers nearby, and of the failed ones.
LEMMA TimesOfUpdate ==
  ASSUME TypeInv, made # None, FiveFields(ho_files), made.outcome # None, Moving
  PROVE  LET near == Handovers(ho_files, made.cell, made.to)
             failed == HandoversIn(ho_files, made.cell, made.to, {d \in Int : d > 1})
             Time(S, remain) == IsTimeTo(made.from, made.to, Total(ho_files, S, 1),
                                         Total(ho_files, S, 2), Cardinality(S), remain)
         IN  /\ Time(near, made.outcome[1].remain)
             /\ made.outcome[4].shift = -1 => Time(failed, made.outcome[4].remain)
<1> DEFINE near == Handovers(ho_files, made.cell, made.to)
           failed == HandoversIn(ho_files, made.cell, made.to, {d \in Int : d > 1})
           R == NearRows(made.cell, made.to)
           F == R \cap Having(5, {d \in Int : d > 1})
           r1 == HandoverTime(ho_df, made.cell, made.from, made.to)
           r4 == FailureTime(ho_df, made.cell, made.from, made.to)
           x == made.outcome
<1>1. /\ HistoryOf(ho_files, ho_df) /\ made.cell \in Int
      /\ made.from \in Location /\ made.to \in Location
      /\ PredictsFrom(ho_df, made.cell, made.from, made.to, x)
  BY UpdateIs
<1>2. near = Lines(ho_df, R) /\ failed = Lines(ho_df, F)
  BY <1>1, HandoverLines
<1>3. made.from.time # made.to.time
      /\ <<made.from.lng, made.from.lat>> # <<made.to.lng, made.to.lat>>
  BY DEF Moving
<1>4. NumbersIn(R, 2) /\ NumbersIn(R, 3) /\ NumbersIn(F, 2) /\ NumbersIn(F, 3)
  BY DEF NumbersIn, NearRows, Near
<1>5. /\ Count(ho_df, R) # 0
      /\ x = <<Moment(made.to.time, r1, 0), made.cell, x[3],
               Moment(made.to.time, r4, IF Count(ho_df, F) > 1 THEN -1 ELSE 1)>>
  BY <1>1 DEF PredictsFrom
<1>6. Count(ho_df, F) \in Nat
  BY <1>1, CountIs DEF HistoryOf
<1> HIDE DEF near, failed, R, F, r1, r4, x
<1>7. /\ x[1].remain = r1 /\ x[4].remain = r4
      /\ x[4].shift = -1 <=> Count(ho_df, F) > 1
  BY <1>5 DEF Moment
<1>8. IsTimeTo(made.from, made.to, Total(ho_files, near, 1), Total(ho_files, near, 2),
               Cardinality(near), r1)
  BY <1>1, <1>2, <1>3, <1>4, <1>5, RemainIs DEF r1, R, HandoverTime
<1>9. ASSUME Count(ho_df, F) > 1
      PROVE  IsTimeTo(made.from, made.to, Total(ho_files, failed, 1), Total(ho_files, failed, 2),
                      Cardinality(failed), r4)
  <2>1. r4 = Remain(made.from, made.to, AverageOf(ho_df, F), ho_df)
    BY <1>9 DEF r4, F, R, FailureTime
  <2>2. Count(ho_df, F) # 0
    BY <1>6, <1>9
  <2>3. QED
    BY <1>1, <1>2, <1>3, <1>4, <2>1, <2>2, RemainIs
<1>10. QED
  BY <1>7, <1>8, <1>9 DEF near, failed, x

\* The times of a prediction are the distance to the mean place of the handovers
\* nearby, or of the failed ones, over the speed: of a file of any length, and for
\* any two places and times that differ.
THEOREM TimesAreRight == Spec => []TimesAreDistanceOverSpeed
<1>1. Spec => []IInv
  BY Initially, Inductive, PTL DEF Spec
<1>2. Spec => []TypeInv
  BY <1>1, TypesInitially, TypesStay, PTL DEF Spec
<1>3. TypeInv => TimesAreDistanceOverSpeed
  <2> SUFFICES ASSUME TypeInv, made # None, FiveFields(ho_files), made.outcome # None, Moving
               PROVE  TimesAreDistanceOverSpeed
    BY DEF TimesAreDistanceOverSpeed
  <2> DEFINE near == Handovers(ho_files, made.cell, made.to)
             failed == HandoversIn(ho_files, made.cell, made.to, {d \in Int : d > 1})
  <2>1. failed = {k \in near : ho_files[1][k][4] \in Int /\ ho_files[1][k][4] > 1}
    BY DEF HandoversIn
  <2>2. /\ IsTimeTo(made.from, made.to, Total(ho_files, near, 1), Total(ho_files, near, 2),
                    Cardinality(near), made.outcome[1].remain)
        /\ made.outcome[4].shift = -1 =>
              IsTimeTo(made.from, made.to, Total(ho_files, failed, 1), Total(ho_files, failed, 2),
                       Cardinality(failed), made.outcome[4].remain)
    BY TimesOfUpdate
  <2> HIDE DEF near, failed
  <2>3. QED
    BY <2>1, <2>2 DEF TimesAreDistanceOverSpeed, IsTimeTo, Total, Squares, near
<1>4. QED
  BY <1>2, <1>3, PTL
=============================================================================
