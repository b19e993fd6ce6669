---------------------------- MODULE DriverProofs ----------------------------
(***************************************************************************)
(* Proofs about Driver: below main() the database is the DatabaseContext   *)
(* of the other proofs, whose theorems so hold of every evaluation.        *)
(***************************************************************************)
EXTENDS Driver, DatabaseContextProofs, FramesProofs

\* The main thread is in a call of run_one_carrier, unless it is between two.
MainInv ==
    /\ program \in Programs
    /\ run \in Nat \ {0}
    /\ dpc \notin {"create", "terminated"} => run <= Len(program)

\* An evaluation is of one of the carriers.
LEMMA CallIs ==
  ASSUME MainInv, run <= Len(program)
  PROVE  call.carrier \in Carriers /\ call.missing \subseteq Inputs
<1>1. program \in Seq([carrier : Carriers, trace : File, truth : File, ho_files : Seq(File),
                         missing : SUBSET Inputs])
  BY DriverAssumption DEF MainInv
<1>2. run \in 1..Len(program)
  BY DEF MainInv
<1>3. call \in [carrier : Carriers, trace : File, truth : File, ho_files : Seq(File),
                         missing : SUBSET Inputs]
  BY <1>1, <1>2, ElementOfSeq DEF call
<1>4. QED
  BY <1>3

\* A missing file in Initialize ends the process.
LEMMA FailsIs == InitializeFails => dpc = "initialize" /\ Terminate
BY DEF InitializeFails

\* What mainLoop does in one step: a step of its own, an exception, or one
\* carrier's part of a request.
LEMMA LoopCases ==
  ASSUME LoopNext
  PROVE  \/ LoopStep
         \/ Terminate
         \/ \E cr \in Carriers : ProcessGPS(cr) /\ UNCHANGED mainThread
         \/ \E cr \in Carriers : ProcessCell(cr) /\ UNCHANGED mainThread
<1>1. ASSUME NEW cr \in Carriers, UpdateLocation(cr)
      PROVE  Terminate \/ (ProcessGPS(cr) /\ UNCHANGED mainThread)
  <2> HIDE DEF Terminate, ProcessGPS, Predict, mainThread, Remember, HoFrame
  <2>1. QED
    BY <1>1, Zenon DEF UpdateLocation
<1>2. ASSUME NEW cr \in Carriers, UpdateCell(cr)
      PROVE  ProcessCell(cr) /\ UNCHANGED mainThread
  BY <1>2 DEF UpdateCell
<1>3. QED
  BY <1>1, <1>2 DEF LoopNext

\* Each step of the main thread keeps its types.
LEMMA MainStep ==
  ASSUME MainInv, [DNext]_driverVars
  PROVE  MainInv'
<1> USE DEF MainInv
<1>1. CASE Create
  BY <1>1 DEF Create, Move, localVars
<1>2. CASE InitializeCarrier
  BY <1>2 DEF InitializeCarrier, Move, localVars
<1>3. CASE Open
  BY <1>3 DEF Open, Move, localVars
<1>4. CASE NextRow
  BY <1>4 DEF NextRow
<1>5. CASE UploadCell
  BY <1>5 DEF UploadCell, Terminate
<1>6. CASE UploadGPS
  BY <1>6 DEF UploadGPS, Move
<1>7. CASE CallWait
  BY <1>7 DEF CallWait, Move
<1>8. CASE InsideCall
  BY <1>8 DEF InsideCall, mainThread
<1>9. CASE Look
  BY <1>9 DEF Look
<1>10. CASE Delete
  BY <1>10 DEF Delete, Move
<1>11. CASE Join
  BY <1>11 DEF Join, Move
<1>12. CASE LoopNext
  <2>1. CASE LoopStep
    BY <2>1 DEF LoopStep, mainThread
  <2>2. CASE Terminate
    BY <2>2 DEF Terminate
  <2>3. CASE UNCHANGED mainThread
    BY <2>3 DEF mainThread
  <2>4. QED
    BY <1>12, <2>1, <2>2, <2>3, LoopCases
<1>13. CASE WakeUp
  BY <1>13 DEF WakeUp, mainThread
<1>14. CASE UNCHANGED driverVars
  BY <1>14 DEF driverVars, mainThread
<1>15. CASE InitializeFails
  BY <1>15, FailsIs DEF Terminate
<1>16. QED
  BY <1>1, <1>2, <1>3, <1>4, <1>5, <1>6, <1>7, <1>8, <1>9, <1>10, <1>11, <1>12,
     <1>13, <1>14, <1>15 DEF DNext, MainThreadNext, LookNext
-----------------------------------------------------------------------------
(* The refinement.                                                         *)

\* Every step of the driver is a step of the database or leaves it alone.
LEMMA Simulation ==
  ASSUME MainInv, [DNext]_driverVars
  PROVE  [Next]_vars
<1>0. Owner \in Clients
  BY ContextAssumption
<1>1. CASE Create
  BY <1>1 DEF Create, Next, OwnerNext
<1>2. CASE InitializeCarrier
  <2>1. call.carrier \in Carriers
    BY <1>2, CallIs DEF InitializeCarrier, Move, MainInv
  <2>2. Initialize(call.carrier)
    BY <1>2 DEF InitializeCarrier
  <2>3. QED
    BY <2>1, <2>2 DEF Next, OwnerNext
<1>3. CASE Open
  BY <1>3 DEF Open, database
<1>4. CASE NextRow
  BY <1>4 DEF NextRow, database
<1>5. CASE UploadCell
  <2>1. call.carrier \in Carriers
    BY <1>5, CallIs DEF UploadCell, MainInv
  <2>2. CASE Terminate
    BY <2>2 DEF Terminate, database
  <2>3. CASE UpdateCellID(Owner, call.carrier)
    BY <1>0, <2>1, <2>3 DEF Next, ClientNext
  <2>4. QED
    BY <1>5, <2>2, <2>3 DEF UploadCell
<1>6. CASE UploadGPS
  BY <1>0, <1>6 DEF UploadGPS, Next, ClientNext
<1>7. CASE CallWait
  BY <1>0, <1>7 DEF CallWait, Next, ClientNext
<1>8. CASE InsideCall
  BY <1>0, <1>8 DEF InsideCall, Next, ClientNext
<1>9. CASE Look
  BY <1>9 DEF Look, database
<1>10. CASE Delete
  BY <1>10 DEF Delete, Next, OwnerNext
<1>11. CASE Join
  BY <1>11 DEF Join, Next, OwnerNext
<1>12. CASE LoopNext
  <2>1. CASE LoopStep
    BY <2>1 DEF LoopStep, Next, MainNext
  <2>2. CASE Terminate
    BY <2>2 DEF Terminate, database
  <2>3. ASSUME NEW cr \in Carriers, ProcessGPS(cr) \/ ProcessCell(cr)
        PROVE  [Next]_vars
    BY <2>3 DEF Next, MainNext
  <2>4. QED
    BY <1>12, <2>1, <2>2, <2>3, LoopCases
<1>13. CASE WakeUp
  BY <1>0, <1>13 DEF WakeUp, Next, ClientNext
<1>14. CASE UNCHANGED driverVars
  BY <1>14 DEF driverVars, database
<1>15. CASE InitializeFails
  BY <1>15, FailsIs DEF Terminate, database
<1>16. QED
  BY <1>1, <1>2, <1>3, <1>4, <1>5, <1>6, <1>7, <1>8, <1>9, <1>10, <1>11, <1>12,
     <1>13, <1>14, <1>15 DEF DNext, MainThreadNext, LookNext

\* The main thread starts with its types.
LEMMA MainInitially == DInit => MainInv
BY DEF DInit, MainInv

\* Whatever programs run, the database below main() behaves as DatabaseContext
\* says: main.cc calls it as its one client and owner may.
THEOREM Implements == DSpec => Spec
<1>1. DInit => Init
  BY DEF DInit
<1>2. MainInv /\ MainInv' /\ [DNext]_driverVars => [Next]_vars
  BY Simulation
<1>3. MainInv /\ [DNext]_driverVars => MainInv'
  BY MainStep
<1>4. DSpec => DInit /\ [][DNext]_driverVars
  BY DEF DSpec
<1>5. QED
  BY <1>1, <1>2, <1>3, <1>4, MainInitially, PTL DEF Spec
-----------------------------------------------------------------------------
(* The main thread.                                                        *)

\* Where the main thread is in run_one_carrier, where it is in a call of the
\* database, whether there is a context and which row it is at.
PlaceInv ==
    /\ dpc \in {"create", "initialize", "open", "row", "cell", "gps", "wait", "look",
                "close", "delete", "join", "terminated", "undefined"}
    /\ row \in Nat \ {0}
    /\ dpc \notin {"create", "terminated", "undefined"} =>
           pDBContext /\ row <= Len(call.trace) + 1
    /\ dpc = "create" => ~pDBContext
    /\ dpc \in {"create", "initialize", "open"} => row = 1
    /\ dpc \in {"initialize", "open", "row", "cell", "close"} => pc[Owner] \in {"idle", "waited"}
    /\ dpc \in {"gps", "wait"} =>
           pc[Owner] = "idle" \/ (pc[Owner] = "push" /\ req[Owner].type # "STOP")
    /\ dpc \in {"look", "delete"} =>
           pc[Owner] \in {"check", "sleep", "blocked", "woken", "waited"}
    /\ dpc \in {"cell", "gps", "wait", "look"} => row <= Len(call.trace)
    /\ dpc = "join" =>
           pc[Owner] = "join" \/ (pc[Owner] = "push" /\ req[Owner].type = "STOP")

\* The frame of the trace has the trace's rows, each with its number in front.
LEMMA TraceIs ==
  ASSUME MainInv, run <= Len(program)
  PROVE  /\ call.trace \in File
         /\ call.truth \in File
         /\ call.ho_files \in Seq(File)
         /\ \A k \in 1..Len(call.trace) :
               /\ call.trace[k] \in Seq(Double)
               /\ df.data[k] = <<k>> \o call.trace[k]
         /\ rows(df) = Len(call.trace)
         /\ DOMAIN call.trace = 1..Len(call.trace) /\ Len(call.trace) \in Nat
<1>1. run \in 1..Len(program) /\ program \in Programs
  BY DEF MainInv
<1>2. program \in Seq([carrier : Carriers, trace : File, truth : File, ho_files : Seq(File),
                         missing : SUBSET Inputs])
  BY <1>1, DriverAssumption
<1>3. call \in [carrier : Carriers, trace : File, truth : File, ho_files : Seq(File),
                         missing : SUBSET Inputs]
  BY <1>1, <1>2, ElementOfSeq DEF call
<1>4. call.trace \in File /\ call.truth \in File /\ call.ho_files \in Seq(File)
  BY <1>3
<1>5. \A k \in 1..Len(call.trace) : call.trace[k] \in Seq(Double)
  BY <1>4, ElementOfSeq DEF File, Block
<1>6. df.data = [k \in DOMAIN call.trace |-> <<k>> \o call.trace[k]]
  BY DEF df, Load
<1>7. DOMAIN call.trace = 1..Len(call.trace) /\ Len(call.trace) \in Nat
  BY <1>4 DEF File
<1>8. rows(df) = Len(call.trace)
  BY <1>6, <1>7 DEF rows
<1>9. QED
  BY <1>4, <1>5, <1>6, <1>7, <1>8

\* mainLoop changes nothing of the main thread, unless it terminates it, and
\* moves it at most out of its sleep.
LEMMA LoopMoves ==
  ASSUME TypeOK, LoopNext
  PROVE  \/ Terminate
         \/ /\ UNCHANGED <<mainThread, pDBContext, req>>
            /\ \/ pc'[Owner] = pc[Owner]
               \/ pc[Owner] = "blocked" /\ pc'[Owner] = "woken"
<1> USE DEF clientVars, mainThread
<1>0. Owner \in Clients /\ DOMAIN pc = Clients
  BY ContextAssumption DEF TypeOK
<1>1. ASSUME NEW cr \in Carriers, ProcessGPS(cr) PROVE UNCHANGED <<pDBContext, pc, req>>
  BY <1>1 DEF ProcessGPS
<1>2. ASSUME NEW cr \in Carriers, ProcessCell(cr) PROVE UNCHANGED <<pDBContext, pc, req>>
  BY <1>2 DEF ProcessCell
<1>3. ASSUME LoopStep
      PROVE  /\ UNCHANGED <<mainThread, pDBContext, req>>
             /\ \/ pc'[Owner] = pc[Owner]
                \/ pc[Owner] = "blocked" /\ pc'[Owner] = "woken"
  <2>1. CASE MainStart \/ Top \/ BeginPop \/ Pop \/ Finish \/ LockWait
    BY <1>3, <2>1 DEF LoopStep, MainStart, Top, BeginPop, Pop, Finish, LockWait
  <2>2. CASE Notify
    BY <1>0, <1>3, <2>2 DEF LoopStep, Notify, NotifyFrame, Wake
  <2>3. QED
    BY <1>3, <2>1, <2>2 DEF LoopStep
<1>4. QED
  BY <1>1, <1>2, <1>3, LoopCases

\* After a look at a prediction the loop goes on with the next row.
LEMMA LookMoves ==
  ASSUME Look
  PROVE  /\ dpc = "look" /\ pc[Owner] \in Outside
         /\ UNCHANGED <<program, run, database>>
         /\ \/ dpc' = "row" /\ row' = row + 1
            \/ dpc' = "terminated" /\ row' = row
<1> HIDE DEF database, get, Matches, Error, ErrorTooLarge, rows, call
<1>1. QED
  BY DEF Look

\* The main thread starts at no row.
LEMMA PlaceInitially == DInit => PlaceInv
BY DEF DInit, Init, PlaceInv

\* Each step keeps the row, its block and the place in the program together.
LEMMA PlaceStep ==
  ASSUME TypeOK, MainInv, PlaceInv, [DNext]_driverVars
  PROVE  PlaceInv'
<1>0. Owner \in Clients /\ DOMAIN pc = Clients
  BY ContextAssumption DEF TypeOK
<1> USE DEF PlaceInv, Outside
<1>1. CASE Create
  <2>1. run <= Len(program) /\ run' = run /\ program' = program /\ row' = row
    BY <1>1 DEF Create, localVars
  <2>2. dpc' = "initialize" /\ pDBContext' /\ pc'[Owner] = "idle" /\ dpc = "create"
    BY <1>0, <1>1 DEF Create, Move, GetDatabaseContext
  <2>3. Len(call.trace) \in Nat /\ call' = call
    BY <2>1, TraceIs DEF call, File
  <2>4. QED
    BY <2>1, <2>2, <2>3
<1>2. ASSUME dpc \notin {"create", "terminated", "undefined"},
             UNCHANGED <<program, run>>
      PROVE  call' = call /\ Len(call.trace) \in Nat /\ rows(df) = Len(call.trace)
  BY <1>2, TraceIs DEF MainInv, call, File
<1>3. CASE InitializeCarrier
  BY <1>2, <1>3 DEF InitializeCarrier, Move, localVars, Initialize, clientVars
<1>4. CASE Open
  BY <1>2, <1>4 DEF Open, Move, localVars, database, vars
<1>5. CASE NextRow
  BY <1>2, <1>5 DEF NextRow, database, vars
<1>6. CASE Terminate
  BY <1>6 DEF Terminate, localVars
<1>7. ASSUME NEW type \in RequestType, NEW cr \in Carriers \cup {NoCarrier},
             DrawJobid(Owner, type, cr)
      PROVE  pDBContext' = pDBContext /\ pc'[Owner] = "push" /\ req'[Owner].type = type
  BY <1>0, <1>7 DEF DrawJobid, TypeOK
<1>8. CASE UploadCell
  <2>1. CASE Terminate
    BY <1>6, <2>1
  <2>2. CASE /\ dpc = "cell" /\ dpc' = "gps"
             /\ UpdateCellID(Owner, call.carrier)
             /\ UNCHANGED <<program, run, localVars>>
    <3>1. call.carrier \in Carriers
      BY <2>2, CallIs DEF MainInv
    <3>2. pDBContext' = pDBContext /\ pc'[Owner] = "push" /\ req'[Owner].type = "CELL"
      BY <1>7, <2>2, <3>1 DEF UpdateCellID, RequestType
    <3>3. QED
      BY <1>2, <2>2, <3>2 DEF localVars
  <2>3. QED
    BY <1>8, <2>1, <2>2 DEF UploadCell
<1>9. CASE UploadGPS
  <2>1. pDBContext' = pDBContext /\ pc'[Owner] = "push" /\ req'[Owner].type = "GPS"
    BY <1>7, <1>9 DEF UploadGPS, UpdateGPS, RequestType
  <2>2. QED
    BY <1>2, <1>9, <2>1 DEF UploadGPS, Move, localVars
<1>10. CASE CallWait
  <2>1. pDBContext' = pDBContext /\ pc'[Owner] = "check"
    BY <1>0, <1>10 DEF CallWait, Wait, ClientStep
  <2>2. QED
    BY <1>2, <1>10, <2>1 DEF CallWait, Move, localVars
<1>11. CASE InsideCall
  <2>1. UNCHANGED <<pDBContext, req, mainThread>>
    BY <1>11 DEF InsideCall, Push, CheckEmpty, CheckNotEmpty, Sleep, Reacquire, ClientStep
  <2>2. \/ pc[Owner] = "push" /\ pc'[Owner] = IF req[Owner].type = "STOP" THEN "join" ELSE "idle"
        \/ /\ pc[Owner] \in {"check", "sleep", "woken"}
           /\ pc'[Owner] \in {"waited", "sleep", "blocked", "check"}
    BY <1>0, <1>11 DEF InsideCall, Push, CheckEmpty, CheckNotEmpty, Sleep, Reacquire, Goto
  <2>3. QED
    BY <1>2, <2>1, <2>2 DEF mainThread, localVars
<1>12. CASE WakeUp
  BY <1>0, <1>2, <1>12 DEF WakeUp, SpuriousWakeup, Goto, ClientStep, mainThread, localVars
<1>13. CASE Look
  BY <1>2, <1>13, LookMoves DEF database, vars
<1>14. CASE Delete
  <2>1. pDBContext' = pDBContext /\ pc'[Owner] = "push" /\ req'[Owner].type = "STOP"
    BY <1>7, <1>14 DEF Delete, DeleteDatabaseContext, RequestType
  <2>2. QED
    BY <1>2, <1>14, <2>1 DEF Delete, Move, localVars
<1>15. CASE Join
  BY <1>15 DEF Join, Destroy, Move, localVars
<1>16. CASE LoopNext
  <2>1. CASE UNCHANGED <<mainThread, pDBContext, req>>
             /\ \/ pc'[Owner] = pc[Owner]
                \/ pc[Owner] = "blocked" /\ pc'[Owner] = "woken"
    BY <1>2, <2>1 DEF mainThread, localVars
  <2>2. QED
    BY <1>6, <1>16, <2>1, LoopMoves
<1>17. CASE UNCHANGED driverVars
  BY <1>2, <1>17 DEF driverVars, mainThread, localVars, database, vars
<1>18. QED
  BY <1>1, <1>3, <1>4, <1>5, <1>6, <1>8, <1>9, <1>10, <1>11, <1>12, <1>13, <1>14, <1>15,
     <1>16, <1>17, FailsIs DEF DNext, MainThreadNext, LookNext
-----------------------------------------------------------------------------
(* The destructor and a thread that has not begun.                         *)

\* While mainLoop has not begun, wait() does not return after an upload; so the
\* trace has had no fast row when the main thread is at another row.
BeforeStartInv ==
    /\ mainpc = "start" /\ pDBContext =>
         /\ dpc \in {"row", "cell"} /\ FullLines => FastRows(row - 1) = {}
         /\ dpc \in {"gps", "wait"} => requestQueue # <<>> \/ pc[Owner] = "push"
         /\ dpc = "look" => requestQueue # <<>> /\ pc[Owner] # "waited"
         /\ dpc \in {"close", "delete", "join"} /\ FullLines => FastRows(Len(call.trace)) = {}
    /\ dpc = "undefined" /\ FullLines => FastRows(Len(call.trace)) = {}

\* The speed of a row is read from its fourth column.
LEMMA RowSpeed ==
  ASSUME MainInv, run <= Len(program), FullLines, row \in 1..Len(call.trace)
  PROVE  /\ get(block, 3) = {call.trace[row][3]}
         /\ call.trace[row][3] \in Double
<1>1. call.trace[row] \in Seq(Double) /\ Len(call.trace[row]) = 10
  BY TraceIs DEF FullLines, File
<1>2. block = <<row>> \o call.trace[row]
  BY TraceIs DEF block
<1>3. row \in Double
  BY TraceIs DEF File, Double
<1> DEFINE line == call.trace[row]
<1> HIDE DEF line
<1>4. line \in Seq(Double) /\ Len(line) = 10 /\ block = <<row>> \o line
  BY <1>1, <1>2 DEF line
<1>5. Len(block) = 11 /\ block[3 + 1] = line[3]
  <2> HIDE DEF block, Double
  <2>1. Len(block) = Len(line) + 1
    BY <1>3, <1>4, Prefixed
  <2>2. \A i \in 1..Len(line) : block[i + 1] = line[i]
    BY <1>3, <1>4, Prefixed, SMTT(30)
  <2>3. QED
    BY <1>4, <2>1, <2>2
<1>6. block[4] = call.trace[row][3]
  BY <1>5 DEF line
<1>7. QED
  BY <1>1, <1>5, <1>6 DEF get

\* The main thread starts before the first upload.
LEMMA BeforeStartInitially == DInit => BeforeStartInv
BY DEF DInit, Init, BeforeStartInv

\* Until a row is fast enough nothing is uploaded, and the thread may not have started.
LEMMA BeforeStartStep ==
  ASSUME IInv, MainInv, PlaceInv, BeforeStartInv, [DNext]_driverVars
  PROVE  BeforeStartInv'
<1>0. Owner \in Clients /\ DOMAIN pc = Clients /\ requestQueue \in Seq(UpdateRequest)
  BY ContextAssumption DEF IInv, TypeOK
<1> USE DEF BeforeStartInv
<1>1. CASE Create
  BY <1>1 DEF Create, Move
<1>2. ASSUME UNCHANGED <<program, run>>
      PROVE  call' = call /\ FullLines' = FullLines /\ \A n : FastRows(n)' = FastRows(n)
  BY <1>2 DEF call, FullLines, FastRows
<1>3. CASE InitializeCarrier
  BY <1>3 DEF InitializeCarrier, Move
<1>4. CASE Open
  <2>1. UNCHANGED <<program, run, row, pDBContext, mainpc>> /\ dpc' \in {"terminated", "row"}
    BY <1>4 DEF Open, Move, localVars, database, vars
  <2>2. row = 1
    BY <1>4 DEF Open, Move, PlaceInv
  <2>3. FastRows(0) = {}
    BY DEF FastRows
  <2>4. QED
    BY <1>2, <2>1, <2>2, <2>3
<1>5. CASE NextRow
  <2>1. UNCHANGED <<program, run, pDBContext, mainpc>> /\ dpc = "row"
    BY <1>5 DEF NextRow, database, vars
  <2>2. run <= Len(program) /\ row \in Nat \ {0} /\ row <= Len(call.trace) + 1
        /\ rows(df) = Len(call.trace) /\ Len(call.trace) \in Nat
    BY <2>1, TraceIs DEF PlaceInv, MainInv, File
  <2>3. ASSUME row > rows(df), dpc' = "close" PROVE BeforeStartInv'
    BY <1>2, <2>1, <2>2, <2>3
  <2>4. ASSUME dpc' = "terminated" PROVE BeforeStartInv'
    BY <2>4
  <2>5. ASSUME dpc' = "cell", row' = row PROVE BeforeStartInv'
    BY <1>2, <2>1, <2>5
  <2>6. ASSUME NEW speed \in get(block, 3), row <= rows(df),
               speed \in Int, speed < MinSpeed, dpc' = "row", row' = row + 1
        PROVE  BeforeStartInv'
    <3>1. SUFFICES ASSUME mainpc = "start", pDBContext, FullLines
                   PROVE  FastRows(row) = {}
      BY <1>2, <2>1, <2>2, <2>6
    <3>2. speed = call.trace[row][3]
      BY <2>2, <2>6, <3>1, RowSpeed
    <3>3. FastRows(row - 1) = {}
      BY <2>1, <3>1
    <3>4. speed # NaN /\ ~(speed >= MinSpeed)
      BY <2>6, FramesAssumption, DriverAssumption
    <3>5. QED
      BY <2>2, <3>2, <3>3, <3>4 DEF FastRows
  <2>7. QED
    BY <1>5, <2>3, <2>4, <2>5, <2>6 DEF NextRow
<1>6. CASE Terminate
  BY <1>6 DEF Terminate
<1>7. ASSUME NEW type \in RequestType, NEW cr \in Carriers \cup {NoCarrier},
             DrawJobid(Owner, type, cr)
      PROVE  UNCHANGED <<pDBContext, mainpc, requestQueue>> /\ pc'[Owner] = "push"
  BY <1>0, <1>7 DEF DrawJobid, mainVars
<1>8. CASE UploadCell
  <2>1. ASSUME UpdateCellID(Owner, call.carrier), dpc = "cell", dpc' = "gps"
        PROVE  BeforeStartInv'
    <3>1. call.carrier \in Carriers
      BY <2>1, CallIs DEF MainInv
    <3>2. pc'[Owner] = "push"
      BY <1>7, <2>1, <3>1 DEF UpdateCellID, RequestType
    <3>3. QED
      BY <2>1, <3>2
  <2>2. QED
    BY <1>6, <1>8, <2>1 DEF UploadCell
<1>9. CASE UploadGPS
  <2>1. pc'[Owner] = "push" /\ dpc' = "wait"
    BY <1>7, <1>9 DEF UploadGPS, Move, UpdateGPS, RequestType
  <2>2. QED
    BY <2>1
<1>10. CASE CallWait
  <2>1. UNCHANGED <<program, run, pDBContext, mainpc, requestQueue>>
        /\ pc'[Owner] = "check" /\ pc[Owner] # "push"
    BY <1>0, <1>10 DEF CallWait, Wait, MayCall, Outside, ClientStep, mainVars
  <2>2. \/ dpc = "wait" /\ dpc' = "look"
        \/ dpc = "close" /\ dpc' = "delete"
    BY <1>10 DEF CallWait, Move
  <2>3. QED
    BY <1>2, <2>1, <2>2
<1>11. CASE InsideCall
  <2>1. UNCHANGED <<pDBContext, mainpc, mainThread>>
    BY <1>11 DEF InsideCall, Push, CheckEmpty, CheckNotEmpty, Sleep, Reacquire, ClientStep, mainVars
  <2>2. CASE Push(Owner)
    <3>1. req[Owner] \in UpdateRequest
      BY <1>0 DEF IInv, TypeOK
    <3>2. requestQueue' # <<>> /\ pc[Owner] = "push"
      BY <1>0, <2>2, <3>1 DEF Push
    <3>3. dpc # "look"
      BY <3>2 DEF PlaceInv
    <3>4. QED
      BY <1>2, <2>1, <3>2, <3>3 DEF mainThread, localVars
  <2>3. CASE CheckEmpty(Owner)
    <3>1. pc[Owner] = "check" /\ requestQueue' = requestQueue
          /\ (mainpc = "start" => requestQueue = <<>>)
      BY <2>3 DEF CheckEmpty, Goto, ClientStep, EmptyReads
    <3>2. dpc \notin {"gps", "wait"}
      BY <3>1 DEF PlaceInv
    <3>3. QED
      BY <1>2, <2>1, <3>1, <3>2 DEF mainThread, localVars
  <2>4. CASE CheckNotEmpty(Owner) \/ Sleep(Owner) \/ Reacquire(Owner)
    <3>1. pc[Owner] # "push" /\ pc'[Owner] \in {"sleep", "blocked", "check"}
          /\ requestQueue' = requestQueue
      BY <1>0, <2>4 DEF CheckNotEmpty, Sleep, Reacquire, Goto, ClientStep
    <3>2. QED
      BY <1>2, <2>1, <3>1 DEF mainThread, localVars
  <2>5. QED
    BY <1>11, <2>2, <2>3, <2>4 DEF InsideCall
<1>12. CASE WakeUp
  <2>1. UNCHANGED <<pDBContext, mainpc, requestQueue, mainThread>>
        /\ pc[Owner] = "blocked" /\ pc'[Owner] = "woken"
    BY <1>0, <1>12 DEF WakeUp, SpuriousWakeup, Goto, ClientStep, mainVars
  <2>2. QED
    BY <1>2, <2>1 DEF mainThread, localVars, PlaceInv
<1>13. CASE Look
  <2>1. UNCHANGED <<pDBContext, mainpc, requestQueue>> /\ dpc' \in {"row", "terminated"}
        /\ dpc = "look" /\ pc[Owner] \in Outside
    BY <1>13, LookMoves DEF database, vars
  <2>2. mainpc = "start" => ~pDBContext
    BY <2>1 DEF PlaceInv, Outside
  <2>3. QED
    BY <2>1, <2>2
<1>14. CASE Delete
  <2>1. pc'[Owner] = "push" /\ UNCHANGED <<pDBContext, mainpc, program, run>>
    BY <1>7, <1>14 DEF Delete, DeleteDatabaseContext, RequestType
  <2>2. dpc = "delete" /\ dpc' = "join"
    BY <1>14 DEF Delete, Move
  <2>3. QED
    BY <1>2, <2>1, <2>2
<1>15. CASE Join
  <2>1. ~pDBContext' /\ mainpc' = mainpc /\ run_lock = Free /\ pDBContext
    BY <1>15 DEF Join, Destroy, mainVars, PlaceInv, Move
  <2>2. CASE dpc' = "create"
    BY <2>1, <2>2
  <2>3. CASE mainpc # "ended" /\ dpc = "join" /\ dpc' = "undefined" /\ UNCHANGED <<program, run>>
    <3>1. mainpc = "start"
      BY <2>1, <2>3, ContextAssumption DEF IInv, LockInv, StopInv, TypeOK
    <3>2. QED
      BY <1>2, <2>1, <2>3, <3>1
  <2>4. QED
    BY <1>15, <2>2, <2>3 DEF Join, Move
<1>16. CASE LoopNext
  <2>1. CASE LoopStep
    <3>1. mainpc' # "start"
      BY <2>1 DEF LoopStep, MainStart, Top, BeginPop, Pop, Finish, LockWait, Notify, EndIf
    <3>2. QED
      BY <1>2, <2>1, <3>1 DEF LoopStep, mainThread
  <2>2. ASSUME NEW cr \in Carriers, ProcessGPS(cr) \/ ProcessCell(cr), UNCHANGED mainThread
        PROVE  BeforeStartInv'
    <3>1. mainpc' # "start"
      BY <2>2 DEF ProcessGPS, ProcessCell
    <3>2. QED
      BY <1>2, <2>2, <3>1 DEF mainThread
  <2>3. QED
    BY <1>6, <1>16, <2>1, <2>2, LoopCases
<1>17. CASE UNCHANGED driverVars
  BY <1>2, <1>17 DEF driverVars, mainThread, localVars, database, vars
<1>18. QED
  BY <1>1, <1>3, <1>4, <1>5, <1>6, <1>8, <1>9, <1>10, <1>11, <1>12, <1>13, <1>14, <1>15,
     <1>16, <1>17, FailsIs DEF DNext, MainThreadNext, LookNext
-----------------------------------------------------------------------------
(* The values of the requests.                                             *)

\* In vals, the value of request r has the type of its kind.
Value(vals, r) ==
    /\ r.jobid \in 1 .. Len(vals)
    /\ r.type = "CELL" => vals[r.jobid] \in Int
    /\ r.type = "GPS" => vals[r.jobid] \in Location

AnyValue == Int \cup Location \cup {None}

\* There is a value per job; those that mainLoop is to look at have their types.
ValuesInv ==
    /\ values \in Seq(AnyValue)
    /\ Len(values) = total_jobs
    /\ \A i \in 1 .. Len(requestQueue) : Value(values, requestQueue[i])
    /\ pc[Owner] = "push" => Value(values, req[Owner])
    /\ dpc = "gps" => Len(block) >= 10

\* Another upload leaves the values of the earlier ones alone.
LEMMA MoreValues ==
  ASSUME NEW vals \in Seq(AnyValue), NEW v \in AnyValue
  PROVE  /\ Append(vals, v) \in Seq(AnyValue)
         /\ Len(Append(vals, v)) = Len(vals) + 1
         /\ Append(vals, v)[Len(vals) + 1] = v
         /\ \A r : Value(vals, r) => Value(Append(vals, v), r)
<1>1. /\ Append(vals, v) \in Seq(AnyValue)
      /\ Len(Append(vals, v)) = Len(vals) + 1
      /\ Append(vals, v)[Len(vals) + 1] = v
      /\ \A i \in 1 .. Len(vals) : Append(vals, v)[i] = vals[i]
      /\ Len(vals) \in Nat
  OBVIOUS
<1> DEFINE w == Append(vals, v)
<1> HIDE DEF w
<1>2. \A r : Value(vals, r) => Value(w, r)
  BY <1>1 DEF Value, w
<1>3. QED
  BY <1>1, <1>2 DEF w

\* A row of the trace: its fields after its number.
LEMMA BlockIs ==
  ASSUME MainInv, run <= Len(program), row \in 1 .. Len(call.trace)
  PROVE  /\ block \in Block /\ call.trace[row] \in Seq(Double)
         /\ Len(block) = Len(call.trace[row]) + 1
         /\ \A i \in 1 .. Len(call.trace[row]) : block[i + 1] = call.trace[row][i]
<1> DEFINE line == call.trace[row]
<1>1. line \in Seq(Double) /\ block = <<row>> \o line
  BY TraceIs DEF block
<1>2. row \in Double
  BY TraceIs DEF Double, File
<1> HIDE DEF line, block, Double
<1>3. block \in Seq(Double)
  BY <1>1, <1>2, Prefixed
<1>4. Len(block) = Len(line) + 1
  BY <1>1, <1>2, Prefixed
<1>5. \A i \in 1 .. Len(line) : block[i + 1] = line[i]
  BY <1>1, <1>2, Prefixed
<1>6. QED
  BY <1>1, <1>3, <1>4, <1>5 DEF Block, line

\* What get() may return of a block that is long enough for it not to throw.
LEMMA GetMay ==
  ASSUME NEW b \in Block, NEW i \in Nat, NEW x \in get(b, i), x # Failed
  PROVE  x \in Double /\ Len(b) >= i
  BY FramesAssumption DEF get, Block

\* Nothing has been uploaded at the start.
LEMMA ValuesInitially == DInit => ValuesInv
  BY ContextAssumption DEF DInit, Init, ValuesInv

\* A request is drawn, with its value.
LEMMA ValueDrawn ==
  ASSUME IInv, ValuesInv, NEW type \in RequestType, NEW cr \in Carriers \cup {NoCarrier},
         DrawJobid(Owner, type, cr), NEW v \in AnyValue, values' = Append(values, v),
         type = "CELL" => v \in Int, type = "GPS" => v \in Location,
         dpc' = "gps" => Len(block') >= 10
  PROVE  ValuesInv'
<1>1. Owner \in Clients /\ DOMAIN req = Clients /\ total_jobs \in Nat
  BY ContextAssumption DEF IInv, TypeOK
<1>2. /\ total_jobs' = total_jobs + 1 /\ requestQueue' = requestQueue
      /\ req'[Owner] = [type |-> type, carrier |-> cr, jobid |-> total_jobs + 1]
  BY <1>1 DEF DrawJobid
<1>3. values \in Seq(AnyValue) /\ Len(values) = total_jobs
      /\ \A i \in 1 .. Len(requestQueue) : Value(values, requestQueue[i])
  BY DEF ValuesInv
<1> HIDE DEF AnyValue
<1>4. /\ values' \in Seq(AnyValue) /\ Len(values') = total_jobs + 1
      /\ values'[total_jobs + 1] = v
  BY <1>3, MoreValues
<1>5. \A r : Value(values, r) => Value(values', r)
  BY <1>3, MoreValues
<1>6. Value(values', req'[Owner])
  BY <1>1, <1>2, <1>4 DEF Value
<1>7. QED
  BY <1>2, <1>3, <1>4, <1>5, <1>6 DEF ValuesInv

\* Any other step of the database leaves the values alone, and queues at most
\* the request that is being pushed.
LEMMA ValuesKept ==
  ASSUME ValuesInv, UNCHANGED <<values, total_jobs, req>>,
         requestQueue \in Seq(UpdateRequest),
         pc'[Owner] = "push" => pc[Owner] = "push",
         dpc' = "gps" => Len(block') >= 10,
         \/ requestQueue' \in {requestQueue, <<>>}
         \/ requestQueue # <<>> /\ requestQueue' = Tail(requestQueue)
         \/ /\ requestQueue' = Append(requestQueue, req[Owner])
            /\ pc[Owner] = "push" /\ req[Owner] \in UpdateRequest
  PROVE  ValuesInv'
<1> USE DEF ValuesInv
<1> HIDE DEF block, Value, AnyValue
<1>1. ASSUME requestQueue' \in {requestQueue, <<>>} PROVE ValuesInv'
  BY <1>1
<1>2. ASSUME requestQueue # <<>>, requestQueue' = Tail(requestQueue) PROVE ValuesInv'
  <2>1. Len(requestQueue') = Len(requestQueue) - 1 /\ Len(requestQueue) \in Nat
        /\ \A i \in 1 .. Len(requestQueue') : requestQueue'[i] = requestQueue[i + 1]
    BY <1>2
  <2>2. \A i \in 1 .. Len(requestQueue') : i + 1 \in 1 .. Len(requestQueue)
    BY <2>1
  <2>3. QED
    BY <2>1, <2>2
<1>3. ASSUME requestQueue' = Append(requestQueue, req[Owner]), pc[Owner] = "push",
             req[Owner] \in UpdateRequest
      PROVE  ValuesInv'
  <2>1. /\ Len(requestQueue') = Len(requestQueue) + 1 /\ Len(requestQueue) \in Nat
        /\ requestQueue'[Len(requestQueue) + 1] = req[Owner]
        /\ \A i \in 1 .. Len(requestQueue) : requestQueue'[i] = requestQueue[i]
    BY <1>3
  <2>2. \A i \in 1 .. Len(requestQueue') : i = Len(requestQueue) + 1 \/ i \in 1 .. Len(requestQueue)
    BY <2>1
  <2>3. QED
    BY <1>3, <2>1, <2>2
<1>4. QED
  BY <1>1, <1>2, <1>3

\* Each step keeps a value of its kind for each request.
LEMMA ValuesStep ==
  ASSUME IInv, MainInv, PlaceInv, ValuesInv, [DNext]_driverVars
  PROVE  ValuesInv'
<1>0. /\ Owner \in Clients /\ DOMAIN pc = Clients /\ requestQueue \in Seq(UpdateRequest)
      /\ req[Owner] \in UpdateRequest
  BY ContextAssumption DEF IInv, TypeOK
<1> DEFINE Same == UNCHANGED <<values, total_jobs, req, requestQueue>>
<1>1. ASSUME Same, pc'[Owner] = "push" => pc[Owner] = "push", dpc' # "gps" PROVE ValuesInv'
  BY <1>0, <1>1, ValuesKept
<1>2. CASE Create
  <2>1. UNCHANGED <<values, total_jobs, req>> /\ requestQueue' = <<>> /\ pc'[Owner] = "idle"
        /\ dpc' = "initialize"
    BY <1>0, <1>2 DEF Create, GetDatabaseContext, Move
  <2>2. QED
    BY <1>0, <2>1, ValuesKept
<1>3. CASE InitializeCarrier
  BY <1>1, <1>3 DEF InitializeCarrier, Initialize, Move, clientVars
<1>4. CASE Open
  BY <1>1, <1>4 DEF Open, Move, database, vars
<1>5. CASE NextRow
  BY <1>1, <1>5 DEF NextRow, Move, database, vars
<1>6. CASE Terminate
  BY <1>1, <1>6 DEF Terminate, database, vars
<1>7. CASE UploadCell
  <2>1. PICK cell \in get(block, 10) :
          \/ cell = Failed /\ Terminate
          \/ /\ cell # Failed
             /\ UpdateCellID(Owner, call.carrier)
             /\ values' = Append(values, ToCid(cell))
             /\ dpc' = "gps"
             /\ UNCHANGED <<program, run, localVars, ce>>
    BY <1>7 DEF UploadCell
  <2>2. CASE cell # Failed
    <3>1. dpc = "cell" /\ row \in 1 .. Len(call.trace) /\ run <= Len(program)
      BY <1>7 DEF UploadCell, PlaceInv, MainInv
    <3>2. block \in Block /\ block' = block
      BY <2>1, <2>2, <3>1, BlockIs DEF localVars, block, df, call
    <3> HIDE DEF block
    <3>3. cell \in Double /\ Len(block) >= 10
      BY <2>1, <2>2, <3>2, GetMay
    <3>4. ToCid(cell) \in Int
      BY <3>3, DriverAssumption DEF ToCid, Double
    <3>5. call.carrier \in Carriers
      BY <3>1, CallIs
    <3>6. DrawJobid(Owner, "CELL", call.carrier)
      BY <2>1, <2>2 DEF UpdateCellID
    <3> HIDE DEF DrawJobid
    <3>7. QED
      BY <2>1, <2>2, <3>2, <3>3, <3>4, <3>5, <3>6, ValueDrawn DEF RequestType, AnyValue
  <2>3. QED
    BY <1>6, <2>1, <2>2
<1>8. CASE UploadGPS
  <2> DEFINE v == [lng |-> block[2], lat |-> block[3], time |-> block[9]]
  <2>1. dpc = "gps" /\ dpc' = "wait" /\ values' = Append(values, v) /\ DrawJobid(Owner, "GPS", NoCarrier)
    BY <1>8 DEF UploadGPS, UpdateGPS, Move
  <2>2. row \in 1 .. Len(call.trace) /\ run <= Len(program) /\ Len(block) >= 10
    BY <2>1 DEF PlaceInv, MainInv, ValuesInv
  <2>3. v \in Location
    <3> DEFINE line == call.trace[row]
    <3>1. /\ Len(line) >= 8 /\ Len(line) \in Nat
          /\ \A i \in 1 .. Len(line) : block[i + 1] = line[i]
      BY <2>2, BlockIs
    <3>2. {line[1], line[2], line[8]} \subseteq Int
      <4>1. run \in DOMAIN program /\ row \in DOMAIN call.trace
        BY <2>2, TraceIs, DriverAssumption, SMTT(30) DEF MainInv
      <4>2. QED
        BY <3>1, <4>1, DriverAssumption DEF MainInv, call
    <3> HIDE DEF line, block
    <3>3. block[2] = line[1] /\ block[3] = line[2] /\ block[9] = line[8]
      BY <3>1
    <3>4. QED
      BY <3>2, <3>3 DEF Location
  <2> HIDE DEF v, DrawJobid
  <2>4. QED
    BY <2>1, <2>3, ValueDrawn DEF RequestType, AnyValue
<1>9. CASE CallWait
  <2>1. Same /\ pc'[Owner] = "check" /\ dpc' # "gps"
    BY <1>0, <1>9 DEF CallWait, Wait, ClientStep, Move
  <2>2. QED
    BY <1>1, <2>1
<1>10. CASE InsideCall
  <2>1. UNCHANGED <<values, total_jobs, req, program, run, row, dpc>> /\ pc'[Owner] # "push"
        /\ \/ requestQueue' = requestQueue
           \/ requestQueue' = Append(requestQueue, req[Owner]) /\ pc[Owner] = "push"
    BY <1>0, <1>10 DEF InsideCall, Push, CheckEmpty, CheckNotEmpty, Sleep, Reacquire, Goto,
                       ClientStep, mainThread, localVars
  <2>2. dpc' = "gps" => Len(block') >= 10
    BY <2>1 DEF ValuesInv, block, df, call
  <2>3. QED
    BY <1>0, <2>1, <2>2, ValuesKept
<1>11. ASSUME UNCHANGED <<values, total_jobs, req, program, run, row, dpc>>,
              pc'[Owner] = "push" => pc[Owner] = "push",
              \/ requestQueue' = requestQueue
              \/ requestQueue # <<>> /\ requestQueue' = Tail(requestQueue)
       PROVE  ValuesInv'
  <2>1. dpc' = "gps" => Len(block') >= 10
    BY <1>11 DEF ValuesInv, block, df, call
  <2>2. QED
    BY <1>0, <1>11, <2>1, ValuesKept
<1>12. CASE WakeUp
  <2>1. UNCHANGED <<values, total_jobs, req, program, run, row, dpc, requestQueue>>
        /\ pc'[Owner] = "woken"
    BY <1>0, <1>12 DEF WakeUp, SpuriousWakeup, Goto, ClientStep, mainThread, localVars
  <2>2. QED
    BY <1>11, <2>1
<1>13. CASE Look
  <2>1. UNCHANGED database /\ dpc' # "gps"
    BY <1>13, LookMoves
  <2>2. QED
    BY <1>1, <2>1 DEF database, vars
<1>14. CASE Delete
  <2>1. values' = Append(values, None) /\ DrawJobid(Owner, "STOP", NoCarrier) /\ dpc' = "join"
    BY <1>14 DEF Delete, DeleteDatabaseContext, Move
  <2> HIDE DEF DrawJobid
  <2>2. QED
    BY <2>1, ValueDrawn DEF RequestType, AnyValue
<1>15. CASE Join
  <2>1. Same /\ pc'[Owner] = "idle" /\ dpc' # "gps"
    BY <1>0, <1>15 DEF Join, Destroy, Move
  <2>2. QED
    BY <1>1, <2>1
<1>16. CASE LoopNext
  <2>1. CASE LoopStep
    <3>1. UNCHANGED <<values, total_jobs, req, program, run, row, dpc>>
      BY <2>1 DEF LoopStep, MainStart, Top, BeginPop, Pop, Finish, LockWait, Notify, NotifyFrame, EndIf,
                  clientVars, mainThread, localVars
    <3>2. pc'[Owner] = "push" => pc[Owner] = "push"
      BY <1>0, <1>16, <2>1, LoopMoves DEF Terminate, IInv, database, vars
    <3>3. \/ requestQueue' = requestQueue
          \/ requestQueue # <<>> /\ requestQueue' = Tail(requestQueue)
      BY <2>1 DEF LoopStep, MainStart, Top, BeginPop, Pop, Finish, LockWait, Notify, NotifyFrame, EndIf,
                  IInv, RequestInv
    <3>4. QED
      BY <1>11, <3>1, <3>2, <3>3
  <2>2. ASSUME NEW cr \in Carriers, UpdateLocation(cr) \/ UpdateCell(cr), ~Terminate PROVE ValuesInv'
    <3>1. ProcessGPS(cr) \/ ProcessCell(cr)
      <4> HIDE DEF Terminate, ProcessGPS, Predict, mainThread, Remember, HoFrame
      <4>1. QED
        BY <2>2, Zenon DEF UpdateLocation, UpdateCell
    <3>2. UNCHANGED <<values, program, run, row, dpc>>
      <4> HIDE DEF Terminate, ProcessGPS, ProcessCell, Predict, Remember, HoFrame
      <4>1. UNCHANGED <<mainThread, values>>
        BY <2>2, Zenon DEF UpdateLocation, UpdateCell
      <4>2. QED
        BY <4>1 DEF mainThread, localVars
    <3>3. QED
      BY <1>11, <3>1, <3>2 DEF ProcessGPS, ProcessCell, clientVars
  <2>3. QED
    BY <1>6, <1>16, <2>1, <2>2 DEF LoopNext
<1>17. CASE UNCHANGED driverVars
  BY <1>11, <1>17 DEF driverVars, mainThread, localVars, database, vars
<1>18. QED
  BY <1>2, <1>3, <1>4, <1>5, <1>6, <1>7, <1>8, <1>9, <1>10, <1>12, <1>13, <1>14, <1>15,
     <1>16, <1>17, FailsIs DEF DNext, MainThreadNext, LookNext
-----------------------------------------------------------------------------
(* The carrier of the call, and what ends the process.                     *)

\* c is what cars hold of the carrier of a call cl.
CarOf(cars, cl) ==
    cars[cl.carrier] \in [ho_files : {cl.ho_files}, current_cell : Int,
                          prev_location : Location, ho_prediction : Prediction]

\* The database of a call has the call's carrier, with its files, and no other.
CarInv ==
    /\ DOMAIN ce = Carriers
    /\ dpc = "initialize" => carriers = {}
    /\ dpc \notin {"create", "initialize", "terminated", "undefined"} =>
           carriers = {call.carrier} /\ CarOf(ce, call)

\* The arguments of an evaluation have their types.
LEMMA CallType ==
  ASSUME MainInv, run <= Len(program)
  PROVE  /\ call.carrier \in Carriers
         /\ call.trace \in File /\ call.truth \in File
         /\ call.ho_files \in Seq(File) /\ Len(call.ho_files) <= 1
<1>1. run \in DOMAIN program /\ program \in Programs
  BY DriverAssumption DEF MainInv
<1>2. Len(call.ho_files) <= 1
  BY <1>1, DriverAssumption DEF call
<1>3. QED
  BY <1>2, CallIs, TraceIs

\* A location is applied to the carrier of the call: what predict_handover is
\* called with, and what it comes to.
LEMMA LocationIs ==
  ASSUME IInv, TodoInv, MainInv, PlaceInv, ValuesInv, CarInv, Running,
         NEW cr \in Carriers, mainpc = "switch", request.type = "GPS", cr \in todo
  PROVE  /\ dpc \notin {"create", "initialize", "terminated", "undefined"}
         /\ cr = call.carrier
         /\ values[request.jobid] \in Location
         /\ LET outcomes == Predict(HoFrame(ce[cr].ho_files), ce[cr].current_cell,
                                    ce[cr].prev_location, values[request.jobid])
            IN  /\ outcomes \subseteq Prediction \cup {None, Failed}
                /\ FullLines => Failed \notin outcomes
<1>1. pDBContext /\ requestQueue # <<>> /\ request = Head(requestQueue)
  BY DEF IInv, StopInv, RequestInv
<1>2. cr \in carriers
  BY DEF TodoInv, Targets
<1>3. dpc \notin {"create", "initialize", "terminated", "undefined"}
  BY <1>1, <1>2 DEF PlaceInv, Running, CarInv
<1>4. cr = call.carrier /\ CarOf(ce, call)
  BY <1>2, <1>3 DEF CarInv
<1>5. values[request.jobid] \in Location
  <2>1. Len(requestQueue) \in Nat \ {0} /\ request = requestQueue[1]
    BY <1>1 DEF IInv, TypeOK
  <2>2. Value(values, request)
    BY <2>1 DEF ValuesInv
  <2>3. QED
    BY <2>2 DEF Value
<1>6. run <= Len(program)
  BY <1>3 DEF MainInv
<1> DEFINE h == HoFrame(call.ho_files)
           cell == ce[cr].current_cell
           from == ce[cr].prev_location
           to == values[request.jobid]
<1>7. /\ ce[cr].ho_files = call.ho_files /\ cell \in Int /\ from \in Location /\ to \in Location
  BY <1>4, <1>5 DEF CarOf
<1>8. h \in Frame /\ (rows(h) = 0 \/ h.label = HoLabels)
  BY <1>6, CallType, HistoryIs
<1>9. FullLines => SixColumns(h)
  BY <1>6, CallType, FiveFieldsFit DEF FullLines, HistoryOf
<1> HIDE DEF h, cell, from, to
<1>10. Predict(h, cell, from, to) \subseteq Prediction \cup {None, Failed}
  BY <1>7, <1>8, PredictType
<1>11. FullLines => Failed \notin Predict(h, cell, from, to)
  BY <1>7, <1>9, PredictIs DEF PredictsFrom
<1>12. QED
  BY <1>3, <1>4, <1>5, <1>7, <1>10, <1>11 DEF h, cell, from, to

\* No carrier exists at the start.
LEMMA CarInitially == DInit => CarInv
  BY DEF DInit, CarInv

\* Steps that leave the carriers alone keep their types.
LEMMA CarKept ==
  ASSUME CarInv, UNCHANGED <<ce, carriers, program, run>>,
         dpc' \in {dpc, "terminated", "undefined"} \/
           (dpc \notin {"create", "initialize", "terminated", "undefined"} /\ dpc' # "initialize")
  PROVE  CarInv'
  BY DEF CarInv, call, CarOf

\* Each step keeps the types of the carriers' values.
LEMMA CarStep ==
  ASSUME IInv, TodoInv, MainInv, PlaceInv, ValuesInv, CarInv, [DNext]_driverVars
  PROVE  CarInv'
<1>2. CASE Create
  BY <1>2 DEF Create, GetDatabaseContext, Move, CarInv
<1>3. CASE InitializeCarrier
  <2>1. run <= Len(program) /\ dpc = "initialize" /\ dpc' = "open" /\ UNCHANGED <<program, run>>
    BY <1>3 DEF InitializeCarrier, Move, MainInv, localVars
  <2>2. call' = call
    BY <2>1 DEF call
  <2>3. carriers' = {call.carrier}
    BY <1>3, <2>1 DEF InitializeCarrier, Initialize, CarInv
  <2>4. PICK place \in Places :
          ce' = [cr \in Carriers |->
                     IF cr = call.carrier
                     THEN [ho_files |-> call.ho_files, current_cell |-> 0,
                           prev_location |-> place, ho_prediction |-> Reserved]
                     ELSE None]
    BY <1>3 DEF InitializeCarrier
  <2>5. place \in Location /\ Reserved \in Prediction /\ call.carrier \in Carriers
    BY <2>1, DriverAssumption, CallType, ReservedIs DEF Location
  <2> HIDE DEF call, Reserved
  <2>6. DOMAIN ce' = Carriers /\ CarOf(ce', call)
    BY <2>4, <2>5 DEF CarOf
  <2>7. QED
    BY <2>1, <2>2, <2>3, <2>6 DEF CarInv
<1>4. CASE Open \/ NextRow
  <2>1. UNCHANGED <<ce, carriers, program, run>> /\ dpc \in {"open", "row"}
        /\ dpc' \in {"terminated", "row", "close", "cell"}
    BY <1>4 DEF Open, NextRow, Move, database, vars
  <2>2. QED
    BY <2>1, CarKept
<1>6. CASE Terminate
  BY <1>6, CarKept DEF Terminate, database, vars
<1>7. ASSUME NEW type \in RequestType, NEW cr \in Carriers \cup {NoCarrier},
             DrawJobid(Owner, type, cr)
      PROVE  carriers' = carriers
  BY <1>7 DEF DrawJobid
<1>8. CASE UploadCell
  <2>1. CASE UpdateCellID(Owner, call.carrier) /\ dpc' = "gps" /\ UNCHANGED <<program, run, ce>>
    <3>1. dpc = "cell" /\ call.carrier \in Carriers
      BY <1>8, CallType DEF UploadCell, MainInv
    <3>2. carriers' = carriers
      BY <1>7, <2>1, <3>1 DEF UpdateCellID, RequestType
    <3>3. QED
      BY <2>1, <3>1, <3>2, CarKept
  <2>2. QED
    BY <1>6, <1>8, <2>1 DEF UploadCell
<1>9. CASE UploadGPS
  <2>1. carriers' = carriers
    BY <1>7, <1>9 DEF UploadGPS, UpdateGPS, RequestType
  <2>2. QED
    BY <1>9, <2>1, CarKept DEF UploadGPS, Move
<1>10. CASE CallWait
  BY <1>10, CarKept DEF CallWait, Move, Wait, ClientStep, localVars
<1>11. CASE InsideCall
  BY <1>11, CarKept DEF InsideCall, Push, CheckEmpty, CheckNotEmpty, Sleep, Reacquire,
                        ClientStep, mainThread
<1>12. CASE WakeUp
  BY <1>12, CarKept DEF WakeUp, SpuriousWakeup, ClientStep, mainThread
<1>13. CASE Look
  BY <1>13, LookMoves, CarKept DEF database, vars
<1>14. CASE Delete
  <2>1. carriers' = carriers
    BY <1>7, <1>14 DEF Delete, DeleteDatabaseContext, RequestType
  <2>2. QED
    BY <1>14, <2>1, CarKept DEF Delete, Move, localVars
<1>15. CASE Join
  <2>1. CASE dpc' = "undefined"
    BY <1>15, <2>1 DEF Join, CarInv
  <2>2. CASE dpc' = "create"
    BY <1>15, <2>2 DEF Join, CarInv
  <2>3. QED
    BY <1>15, <2>1, <2>2 DEF Join, Move
<1>16. CASE LoopStep
  <2>1. UNCHANGED <<ce, carriers, program, run, dpc>>
    BY <1>16 DEF LoopStep, MainStart, Top, BeginPop, Pop, Finish, LockWait, Notify, NotifyFrame, EndIf,
                 mainThread
  <2>2. QED
    BY <2>1, CarKept
<1>17. ASSUME Running, NEW cr \in Carriers, UpdateLocation(cr), ~Terminate PROVE CarInv'
  <2> DEFINE to == values[request.jobid]
  <2>1. mainpc = "switch" /\ request.type = "GPS" /\ cr \in todo
    BY <1>17 DEF UpdateLocation
  <2>2. PICK outcome \in Predict(HoFrame(ce[cr].ho_files), ce[cr].current_cell,
                                 ce[cr].prev_location, to) :
          /\ outcome # Failed
          /\ ProcessGPS(cr)
          /\ ce' = [ce EXCEPT ![cr] = Remember(ce[cr], to, outcome)]
          /\ UNCHANGED <<mainThread, values>>
    <3> HIDE DEF Terminate, ProcessGPS, Predict, mainThread, Remember, HoFrame
    <3>1. QED
      BY <1>17 DEF UpdateLocation
  <2>3. /\ dpc \notin {"create", "initialize", "terminated", "undefined"}
        /\ cr = call.carrier /\ to \in Location /\ outcome \in Prediction \cup {None}
    BY <1>17, <2>1, <2>2, LocationIs
  <2>4. UNCHANGED <<carriers, program, run, dpc>> /\ call' = call
    BY <2>2 DEF ProcessGPS, mainThread, call
  <2> HIDE DEF to, call, Predict, HoFrame
  <2>5. DOMAIN ce = Carriers /\ CarOf(ce, call) /\ carriers = {call.carrier}
    BY <2>3 DEF CarInv
  <2>6. Remember(ce[cr], to, outcome) \in
            [ho_files : {call.ho_files}, current_cell : Int,
             prev_location : Location, ho_prediction : Prediction]
    BY <2>3, <2>5 DEF CarOf, Remember
  <2>7. DOMAIN ce' = Carriers /\ CarOf(ce', call)
    BY <2>2, <2>3, <2>5, <2>6 DEF CarOf
  <2>8. QED
    BY <2>3, <2>4, <2>5, <2>7 DEF CarInv
<1>18. ASSUME Running, NEW cr \in Carriers, UpdateCell(cr) PROVE CarInv'
  <2> DEFINE v == values[request.jobid]
  <2>1. /\ mainpc = "switch" /\ request.type = "CELL" /\ cr \in todo
        /\ ce' = [ce EXCEPT ![cr].current_cell = v]
        /\ UNCHANGED <<carriers, program, run, dpc>> /\ call' = call
    BY <1>18 DEF UpdateCell, ProcessCell, mainThread, call
  <2>2. pDBContext /\ requestQueue # <<>> /\ request = Head(requestQueue)
    BY <2>1 DEF IInv, StopInv, RequestInv
  <2>3. cr \in carriers
    BY <2>1 DEF TodoInv, Targets
  <2>4. dpc \notin {"create", "initialize", "terminated", "undefined"}
    BY <1>18, <2>2, <2>3 DEF PlaceInv, Running, CarInv
  <2>5. DOMAIN ce = Carriers /\ CarOf(ce, call) /\ carriers = {call.carrier} /\ cr = call.carrier
    BY <2>3, <2>4 DEF CarInv
  <2>6. v \in Int
    <3>1. Len(requestQueue) \in Nat \ {0} /\ request = requestQueue[1]
      BY <2>2 DEF IInv, TypeOK
    <3>2. Value(values, request)
      BY <3>1 DEF ValuesInv
    <3>3. QED
      BY <2>1, <3>2 DEF Value
  <2> HIDE DEF v, call
  <2>7. DOMAIN ce' = Carriers /\ CarOf(ce', call)
    BY <2>1, <2>5, <2>6 DEF CarOf
  <2>8. QED
    BY <2>1, <2>4, <2>5, <2>7 DEF CarInv
<1>19. CASE UNCHANGED driverVars
  BY <1>19, CarKept DEF driverVars, mainThread, database, vars
<1>20. QED
  BY <1>2, <1>3, <1>4, <1>6, <1>8, <1>9, <1>10, <1>11, <1>12, <1>13, <1>14, <1>15,
     <1>16, <1>17, <1>18, <1>19, FailsIs DEF DNext, MainThreadNext, LookNext, LoopNext
-----------------------------------------------------------------------------
(* What becomes of the ground truth.                                       *)

TruthNames == <<"cell-id", "time", "handover">>
TruthCols == <<6, 5, 4>>
Triple == {b \in Block : Len(b) = 3}

\* The frame of the ground truth: seven columns, its rows with their numbers in front,
\* and the positions of the columns asked for.
LEMMA TruthIs ==
  ASSUME MainInv, run <= Len(program)
  PROVE  /\ IsFrame(gt) /\ columns(gt) = 7 /\ rows(gt) = Len(call.truth)
         /\ \A k \in 1 .. rows(gt) : /\ call.truth[k] \in Seq(Double)
                                    /\ gt.data[k] = <<k>> \o call.truth[k]
         /\ [k \in DOMAIN TruthNames |-> getColumn(gt, TruthNames[k])] = TruthCols
<1>1. call.truth \in File
  BY CallType
<1> DEFINE l == Load(call.truth)
<1>2. IsFrame(l) /\ rows(l) = Len(call.truth)
      /\ \A k \in 1 .. Len(call.truth) : /\ call.truth[k] \in Seq(Double)
                                        /\ l.data[k] = <<k>> \o call.truth[k]
  BY <1>1, LoadIs
<1> HIDE DEF l
<1>3. gt = [label |-> TruthLabels, data |-> l.data]
  BY <1>2 DEF gt, setLabels, l, IsFrame
<1>4. /\ gt.label = TruthLabels /\ gt.data = l.data /\ IsFrame(gt) /\ columns(gt) = 7
      /\ rows(gt) = Len(call.truth)
  BY <1>2, <1>3 DEF IsFrame, TruthLabels, columns, rows
<1> DEFINE found(name) == {i \in DOMAIN gt.label : gt.label[i] = name}
           first(name) == CHOOSE i \in found(name) : \A j \in found(name) : i <= j
<1>5. found("cell-id") = {7} /\ found("time") = {6} /\ found("handover") = {5}
  BY <1>4 DEF TruthLabels
<1>6. \A name : found(name) # {} => getColumn(gt, name) = first(name) - 1
  BY DEF getColumn
<1> HIDE DEF found
<1>7. \A k \in Nat : \A name : found(name) = {k} => getColumn(gt, name) = k - 1
  BY <1>6
<1>8. getColumn(gt, "cell-id") = 6 /\ getColumn(gt, "time") = 5 /\ getColumn(gt, "handover") = 4
  BY <1>5, <1>7
<1> HIDE DEF gt
<1>9. [k \in DOMAIN TruthNames |-> getColumn(gt, TruthNames[k])] = TruthCols
  BY <1>8 DEF TruthNames, TruthCols
<1>10. QED
  BY <1>2, <1>4, <1>9

\* Whatever the file, the ground truth comes to rows of three doubles; and if its
\* lines are full, select() takes the sixth, the fifth and the fourth field of each.
Selected(f) ==
    /\ f \in Frame
    /\ \A k \in 1 .. rows(f) : f.data[k] \in Triple

SelectedAll(f) ==
    /\ Selected(f)
    /\ rows(f) = Len(call.truth)
    /\ \A k \in 1 .. rows(f) : f.data[k] = <<call.truth[k][6], call.truth[k][5], call.truth[k][4]>>

TruthHeader == [k \in DOMAIN TruthCols |-> gt.label[TruthCols[k] + 1]]

\* The header of the selected ground truth.
LEMMA TruthHeaderIs ==
  ASSUME MainInv, run <= Len(program)
  PROVE  /\ TruthHeader \in Seq(STRING) /\ Len(TruthHeader) = 3 /\ DOMAIN TruthHeader = 1..3
         /\ \A d \in Seq(Block) : [label |-> TruthHeader, data |-> d] \in Frame
<1> DEFINE L == TruthHeader
<1>1. gt.label = TruthLabels /\ Len(TruthLabels) = 7
  <2>1. IsFrame(Load(call.truth))
    BY CallType, LoadIs
  <2>2. QED
    BY <2>1 DEF gt, setLabels, TruthLabels, IsFrame
<1>2. \A k \in 1..3 : L[k] \in STRING
  <2>1. \A i \in 1..7 : TruthLabels[i] \in STRING
    BY <1>1, DriverAssumption, ElementOfSeq
  <2>2. L[1] = TruthLabels[7] /\ L[2] = TruthLabels[6] /\ L[3] = TruthLabels[5]
    BY <1>1 DEF TruthHeader, TruthCols
  <2>3. QED
    BY <2>1, <2>2
<1>3. DOMAIN L = 1..3 /\ L = [k \in 1..3 |-> L[k]]
  BY DEF TruthHeader, TruthCols
<1>4. L \in Seq(STRING) /\ Len(L) = 3
  BY <1>2, <1>3
<1> HIDE DEF L
<1>5. \A d \in Seq(Block) : [label |-> L, data |-> d] \in Frame
  BY <1>4 DEF Frame
<1>6. QED
  BY <1>3, <1>4, <1>5 DEF L

\* What select gives of the ground truth, if it does not fail.
LEMMA SelectedIs ==
  ASSUME MainInv, run <= Len(program), NEW f \in selectNames(gt, TruthNames), f # Failed
  PROVE  Selected(f)
<1> DEFINE sel(k) == selectBlock(gt.data[k], TruthCols)
           outs == [k \in DOMAIN gt.data |-> sel(k)]
           L == TruthHeader
<1>1. f \in select(gt, TruthCols)
  BY TruthIs DEF selectNames
<1>2. ~ \E k \in DOMAIN TruthCols : TruthCols[k] \notin 0 .. columns(gt) - 1
  BY TruthIs DEF TruthCols
<1>3. f \in {IF d = Failed THEN Failed ELSE [label |-> L, data |-> d] : d \in Sequenced(outs)}
  BY <1>1, <1>2 DEF select, TruthHeader
<1>4. TruthCols \in Seq(Int) /\ Len(TruthCols) = 3
  BY DEF TruthCols
<1>5. DOMAIN gt.data = 1 .. Len(gt.data) /\ Len(gt.data) \in Nat
      /\ \A k \in DOMAIN gt.data : gt.data[k] \in Block
  BY TruthIs DEF IsFrame
<1> HIDE DEF L, gt, TruthCols, sel, TruthHeader
<1>6. ASSUME NEW k \in DOMAIN gt.data PROVE sel(k) \in SUBSET (Triple \cup {Failed})
  BY <1>4, <1>5, SelectBlockType DEF Triple, sel
<1> HIDE DEF Triple
<1>7. outs \in Seq(SUBSET (Triple \cup {Failed}))
  BY <1>5, <1>6
<1> HIDE DEF outs
<1>8. PICK d \in Sequenced(outs) : f = IF d = Failed THEN Failed ELSE [label |-> L, data |-> d]
  BY <1>3
<1>9. d \in Seq(Triple)
  BY <1>7, <1>8, SequencedType
<1>10. d \in Seq(Block)
  BY <1>9 DEF Triple
<1>11. f = [label |-> L, data |-> d]
  BY <1>8
<1>12. f \in Frame
  BY <1>10, <1>11, TruthHeaderIs DEF L
<1>13. QED
  BY <1>9, <1>11, <1>12 DEF Selected, rows

\* With full lines select does not fail.
LEMMA SelectedAllIs ==
  ASSUME MainInv, run <= Len(program), FullLines, NEW f \in selectNames(gt, TruthNames)
  PROVE  f # Failed /\ SelectedAll(f)
<1>1. \A k \in 1 .. rows(gt) : /\ gt.data[k] \in Block /\ Len(gt.data[k]) = 7
                               /\ \A i \in 1..6 : gt.data[k][i + 1] = call.truth[k][i]
  <2>1. ASSUME NEW k \in 1 .. rows(gt)
        PROVE  /\ gt.data[k] \in Block /\ Len(gt.data[k]) = 7
               /\ \A i \in 1..6 : gt.data[k][i + 1] = call.truth[k][i]
    <3> DEFINE line == call.truth[k]
    <3>1. line \in Seq(Double) /\ gt.data[k] = <<k>> \o line /\ k \in Double
      BY TruthIs, SMTT(30) DEF Double, IsFrame, rows
    <3>2. Len(line) = 6
      BY CallType, TruthIs DEF FullLines, File
    <3> HIDE DEF line, gt, Double
    <3>3. gt.data[k] \in Seq(Double)
      BY <3>1, Prefixed
    <3>4. Len(gt.data[k]) = Len(line) + 1
      BY <3>1, Prefixed
    <3>5. \A i \in 1 .. Len(line) : gt.data[k][i + 1] = line[i]
      BY <3>1, Prefixed
    <3>6. QED
      BY <3>2, <3>3, <3>4, <3>5 DEF line, Block
  <2>2. QED
    BY <2>1
<1>2. Fitting(gt)
  BY <1>1, TruthIs DEF Fitting
<1>3. TruthCols \in Seq(0 .. columns(gt) - 1) /\ DOMAIN TruthCols = 1..3 /\ Len(TruthCols) = 3
      /\ TruthCols[1] = 6 /\ TruthCols[2] = 5 /\ TruthCols[3] = 4
  BY TruthIs DEF TruthCols
<1> DEFINE L == [k \in DOMAIN TruthCols |-> gt.label[TruthCols[k] + 1]]
           D == [k \in 1 .. rows(gt) |-> Projected(gt.data[k], TruthCols)]
<1>4. f = [label |-> L, data |-> D]
  <2>1. selectNames(gt, TruthNames) = select(gt, TruthCols)
    BY TruthIs DEF selectNames
  <2> HIDE DEF gt, TruthCols
  <2>2. select(gt, TruthCols) = {[label |-> L, data |-> D]}
    BY <1>2, <1>3, SelectIs
  <2>3. QED
    BY <2>1, <2>2
<1>5. rows(gt) = Len(call.truth) /\ rows(gt) \in Nat
  BY TruthIs DEF IsFrame, rows
<1> HIDE DEF gt
<1>6. \A k \in 1 .. rows(gt) : D[k] = <<call.truth[k][6], call.truth[k][5], call.truth[k][4]>>
  <2>1. ASSUME NEW k \in 1 .. rows(gt)
        PROVE  D[k] = <<call.truth[k][6], call.truth[k][5], call.truth[k][4]>>
    <3> DEFINE b == gt.data[k]
               P == [i \in 1 .. Len(TruthCols) |-> b[TruthCols[i] + 1]]
    <3>1. D[k] = P
      BY <2>1 DEF Projected
    <3>2. b[7] = call.truth[k][6] /\ b[6] = call.truth[k][5] /\ b[5] = call.truth[k][4]
      <4>1. \A i \in 1..6 : b[i + 1] = call.truth[k][i]
        BY <1>1, <2>1
      <4>2. b[6 + 1] = call.truth[k][6] /\ b[5 + 1] = call.truth[k][5] /\ b[4 + 1] = call.truth[k][4]
        BY <4>1
      <4>3. QED
        BY <4>2
    <3> HIDE DEF b
    <3>3. P = <<b[7], b[6], b[5]>>
      BY <1>3
    <3>4. QED
      BY <3>1, <3>2, <3>3
  <2>2. QED
    BY <2>1
<1>7. D \in Seq(Block)
  BY <1>2, <1>3, RowsProjected
<1> HIDE DEF L, D
<1>8. f.data = D /\ rows(f) = rows(gt)
  <2>1. Len(D) = rows(gt)
    BY <1>5 DEF D
  <2>2. QED
    BY <1>4, <2>1 DEF rows
<1>9. f \in Frame
  BY <1>4, <1>7, TruthHeaderIs DEF L, TruthHeader
<1>12. f # Failed
  BY <1>9, FrameIs
<1>10. Selected(f)
  BY <1>12, SelectedIs
<1>11. QED
  BY <1>5, <1>6, <1>8, <1>12, <1>10 DEF SelectedAll

\* The handovers of the ground truth from a cell around a time.
Around(curr_time) == {d \in Int : d - curr_time < NearTime /\ curr_time - d < NearTime}
TruthOf(curr_cell, curr_time) == {b \in Block : b[1] \in {curr_cell}}
                                     \cap {b \in Block : b[2] \in Around(curr_time)}

\* The matches of a row are rows of the selected ground truth.
LEMMA MatchesAre ==
  ASSUME MainInv, run <= Len(program), NEW curr_cell, NEW curr_time,
         NEW tempdf \in Matches(curr_cell, curr_time)
  PROVE  \E f \in selectNames(gt, TruthNames) :
            IF f = Failed THEN tempdf = Failed
            ELSE /\ Selected(f)
                 /\ tempdf = Chosen(f, TruthOf(curr_cell, curr_time))
                 /\ tempdf # Failed
<1> DEFINE first == Then(selectNames(gt, TruthNames), LAMBDA f : where(f, 0, {curr_cell}))
           R == {b \in Block : b[1] \in {curr_cell}}
           Q == {b \in Block : b[2] \in Around(curr_time)}
<1>1. first = UNION {IF o = Failed THEN {Failed} ELSE where(o, 0, {curr_cell}) :
                       o \in selectNames(gt, TruthNames)}
  BY DEF Then
<1>2. Matches(curr_cell, curr_time)
        = UNION {IF o = Failed THEN {Failed} ELSE where(o, 1, Around(curr_time)) : o \in first}
  BY DEF Matches, Then, Around, TruthNames
<1> HIDE DEF first
<1>3. PICK g \in first : tempdf \in IF g = Failed THEN {Failed} ELSE where(g, 1, Around(curr_time))
  BY <1>2
<1>4. PICK f \in selectNames(gt, TruthNames) :
         g \in IF f = Failed THEN {Failed} ELSE where(f, 0, {curr_cell})
  BY <1>1
<1>5. CASE f = Failed
  BY <1>3, <1>4, <1>5
<1>6. CASE f # Failed
  <2>1. Selected(f) /\ IsFrame(f)
    BY <1>6, SelectedIs, FrameIs DEF Selected
  <2>2. \A k \in 1 .. rows(f) : 0 \in 0 .. Len(f.data[k]) - 1
    <3>1. ASSUME NEW k \in 1 .. rows(f) PROVE Len(f.data[k]) = 3
      BY <2>1, <3>1 DEF Selected, Triple
    <3>2. 0 \in 0 .. 3 - 1
      OBVIOUS
    <3>3. QED
      BY <3>1, <3>2, Zenon
  <2>4. where(f, 0, {curr_cell}) = {Chosen(f, R)}
    <3> DEFINE P(i) == {b \in Block : b[i] \in {curr_cell}}
    <3>1. where(f, 0, {curr_cell}) = {Chosen(f, P(0 + 1))}
      BY <2>1, <2>2, WhereIs
    <3> HIDE DEF P
    <3>2. 0 + 1 = 1
      OBVIOUS
    <3>3. where(f, 0, {curr_cell}) = {Chosen(f, P(1))}
      BY <3>1, <3>2, Zenon
    <3>4. QED
      BY <3>3 DEF P
  <2> HIDE DEF R, Q
  <2>5. ChosenOf(f, R, Chosen(f, R))
    BY <2>1, ChosenRows
  <2>6. /\ IsFrame(Chosen(f, R)) /\ Chosen(f, R).label = f.label
        /\ \A i \in 1 .. rows(Chosen(f, R)) :
              \E j \in 1 .. rows(f) : Chosen(f, R).data[i] = f.data[j]
    BY <2>5 DEF ChosenOf
  <2>7. Chosen(f, R) # Failed
    <3>1. Chosen(f, R) \in Frame
      BY <2>1, <2>6, IsAFrame DEF Selected, Frame
    <3>2. QED
      BY <3>1, FrameIs
  <2>8. g = Chosen(f, R) /\ g # Failed
    BY <1>4, <1>6, <2>4, <2>7
  <2>9. \A k \in 1 .. rows(g) : 1 \in 0 .. Len(g.data[k]) - 1
    <3>1. ASSUME NEW k \in 1 .. rows(g) PROVE Len(g.data[k]) = 3
      <4>1. PICK j \in 1 .. rows(f) : g.data[k] = f.data[j]
        BY <2>6, <2>8, <3>1
      <4>2. QED
        BY <2>1, <4>1 DEF Selected, Triple
    <3>2. 1 \in 0 .. 3 - 1
      OBVIOUS
    <3>3. QED
      BY <3>1, <3>2, Zenon
  <2>10. IsFrame(g)
    BY <2>6, <2>8
  <2>12. where(g, 1, Around(curr_time)) = {Chosen(g, Q)}
    <3> DEFINE P(i) == {b \in Block : b[i] \in Around(curr_time)}
    <3>1. where(g, 1, Around(curr_time)) = {Chosen(g, P(1 + 1))}
      BY <2>9, <2>10, WhereIs
    <3> HIDE DEF P
    <3>2. where(g, 1, Around(curr_time)) = {Chosen(g, P(2))}
      BY <3>1
    <3>3. QED
      BY <3>2 DEF P, Q
  <2>13. Chosen(g, Q) = Chosen(f, R \cap Q)
    BY <2>1, <2>8, ChosenTwice
  <2>14. tempdf = Chosen(f, R \cap Q)
    BY <1>3, <2>8, <2>12, <2>13
  <2>15. Chosen(f, R \cap Q) # Failed
    <3> DEFINE S == R \cap Q
    <3> HIDE DEF S
    <3>1. ChosenOf(f, S, Chosen(f, S))
      BY <2>1, ChosenRows
    <3>2. Chosen(f, S) \in Frame
      BY <2>1, <3>1, IsAFrame DEF ChosenOf, Selected, Frame
    <3>3. QED
      BY <3>2, FrameIs DEF S
  <2>16. R \cap Q = TruthOf(curr_cell, curr_time)
    BY DEF R, Q, TruthOf
  <2>17. QED
    BY <1>6, <2>1, <2>14, <2>15, <2>16
<1>7. QED
  BY <1>5, <1>6
-----------------------------------------------------------------------------
(* What a look at a prediction does.                                       *)

Accepts(prediction, tempdf, error) ==
    /\ tempdf # Failed
    /\ result' = Append(result, [row |-> row, prediction |-> prediction, error |-> error])
    /\ IF rows(tempdf) = 1
       THEN LET v == tempdf.data[1] IN
            /\ warn_result' = IF v[3] = 1 THEN warn_result ELSE Append(warn_result, row)
            /\ LET err == Error(v[2], prediction[1]) IN error = IF ErrorTooLarge(err) THEN None ELSE err
       ELSE error = None /\ UNCHANGED warn_result

LookWith(prediction, curr_cell, curr_time) ==
    \/ /\ prediction[2] # curr_cell
       /\ dpc' = "row" /\ row' = row + 1 /\ UNCHANGED <<result, warn_result>>
    \/ /\ prediction[2] = curr_cell
       /\ \E tempdf \in Matches(curr_cell, curr_time) :
             \/ tempdf = Failed /\ dpc' = "terminated" /\ UNCHANGED <<row, result, warn_result>>
             \/ /\ dpc' = "row" /\ row' = row + 1
                /\ \E error : Accepts(prediction, tempdf, error)

\* The comparison of a row, with what it reads named.
LEMMA LookIs ==
  ASSUME Look
  PROVE  \E curr_cell \in get(block, 10), curr_time \in get(block, 8) :
            LookWith(ce[call.carrier].ho_prediction, curr_cell, curr_time)
<1> DEFINE prediction == ce[call.carrier].ho_prediction
<1>1. PICK curr_cell \in get(block, 10), curr_time \in get(block, 8) :
           \/ prediction[2] # curr_cell /\ dpc' = "row" /\ row' = row + 1
              /\ UNCHANGED <<result, warn_result>>
           \/ /\ prediction[2] = curr_cell
              /\ \E tempdf \in Matches(curr_cell, curr_time) :
                    \/ /\ tempdf = Failed
                       /\ dpc' = "terminated"
                       /\ UNCHANGED <<row, result, warn_result>>
                    \/ /\ tempdf # Failed /\ rows(tempdf) # 1
                       /\ dpc' = "row" /\ row' = row + 1
                       /\ result' = Append(result, [row |-> row, prediction |-> prediction,
                                                    error |-> None])
                       /\ UNCHANGED warn_result
                    \/ /\ tempdf # Failed /\ rows(tempdf) = 1
                       /\ LET v == tempdf.data[1] IN
                          /\ warn_result' = IF v[3] = 1 THEN warn_result
                                            ELSE Append(warn_result, row)
                          /\ LET err == Error(v[2], prediction[1]) IN
                             result' = Append(result, [row |-> row, prediction |-> prediction,
                                error |-> IF ErrorTooLarge(err) THEN None ELSE err])
                       /\ dpc' = "row" /\ row' = row + 1
  <2> HIDE DEF get, Matches, Error, ErrorTooLarge, rows, call, block, prediction
  <2>1. QED
    BY Zenon DEF Look, prediction
<1> HIDE DEF prediction
<1>2. CASE prediction[2] # curr_cell
  BY <1>1, <1>2 DEF LookWith, prediction
<1>3. CASE prediction[2] = curr_cell
  <2>1. PICK tempdf \in Matches(curr_cell, curr_time) :
                    \/ /\ tempdf = Failed
                       /\ dpc' = "terminated"
                       /\ UNCHANGED <<row, result, warn_result>>
                    \/ /\ tempdf # Failed /\ rows(tempdf) # 1
                       /\ dpc' = "row" /\ row' = row + 1
                       /\ result' = Append(result, [row |-> row, prediction |-> prediction,
                                                    error |-> None])
                       /\ UNCHANGED warn_result
                    \/ /\ tempdf # Failed /\ rows(tempdf) = 1
                       /\ LET v == tempdf.data[1] IN
                          /\ warn_result' = IF v[3] = 1 THEN warn_result
                                            ELSE Append(warn_result, row)
                          /\ LET err == Error(v[2], prediction[1]) IN
                             result' = Append(result, [row |-> row, prediction |-> prediction,
                                error |-> IF ErrorTooLarge(err) THEN None ELSE err])
                       /\ dpc' = "row" /\ row' = row + 1
    BY <1>1, <1>3
  <2> DEFINE err == Error(tempdf.data[1][2], prediction[1])
             e == IF ErrorTooLarge(err) THEN None ELSE err
  <2>2. CASE tempdf = Failed
    BY <1>3, <2>1, <2>2 DEF LookWith, prediction
  <2>3. CASE tempdf # Failed /\ rows(tempdf) # 1
    <3>1. Accepts(prediction, tempdf, None)
      BY <2>1, <2>3 DEF Accepts
    <3>2. QED
      BY <1>3, <2>1, <2>3, <3>1 DEF LookWith, prediction
  <2>4. CASE tempdf # Failed /\ rows(tempdf) = 1
    <3>1. Accepts(prediction, tempdf, e)
      BY <2>1, <2>4 DEF Accepts
    <3>2. QED
      BY <1>3, <2>1, <2>4, <3>1 DEF LookWith, prediction
  <2>5. QED
    BY <2>2, <2>3, <2>4
<1>4. QED
  BY <1>2, <1>3
-----------------------------------------------------------------------------
(* What ends the process.                                                  *)

StopsInv == dpc = "terminated" /\ run <= Len(program) /\ FullLines =>
                call.missing # {} \/ Len(call.trace) = Window

\* The call of run_one_carrier ends where its locals do.
LEMMA RunMoves ==
  ASSUME [DNext]_driverVars
  PROVE  UNCHANGED <<program, run>> \/ Join
<1> HIDE DEF Terminate, get, block
<1>1. ASSUME LoopNext PROVE UNCHANGED <<program, run>>
  BY <1>1, LoopCases DEF LoopStep, Terminate, mainThread
<1>2. ASSUME UploadCell \/ InitializeFails PROVE UNCHANGED <<program, run>>
  BY <1>2, FailsIs DEF UploadCell, Terminate
<1>3. ASSUME Look PROVE UNCHANGED <<program, run>>
  BY <1>3, LookMoves
<1>4. QED
  BY <1>1, <1>2, <1>3 DEF DNext, MainThreadNext, LookNext, Create, InitializeCarrier, Open,
     NextRow, UploadGPS, CallWait, InsideCall, Delete, WakeUp, mainThread, driverVars

\* Each step keeps what an early end says about the input.
LEMMA StopsStep ==
  ASSUME IInv, TodoInv, MainInv, PlaceInv, ValuesInv, CarInv, StopsInv, [DNext]_driverVars
  PROVE  StopsInv'
<1>1. CASE UNCHANGED driverVars
  BY <1>1 DEF driverVars, mainThread, StopsInv, FullLines, call
<1>2. CASE dpc' # "terminated"
  BY <1>2 DEF StopsInv
<1> SUFFICES ASSUME DNext, dpc' = "terminated", Running, run <= Len(program),
                    UNCHANGED <<program, run>>, FullLines
             PROVE  call.missing # {} \/ Len(call.trace) = Window
  <2>1. CASE Running /\ UNCHANGED <<program, run>>
    <3>1. call' = call /\ FullLines' = FullLines
      BY <2>1 DEF call, FullLines
    <3>2. QED
      BY <1>1, <1>2, <2>1, <3>1 DEF StopsInv
  <2>2. CASE ~Running
    <3>1. UNCHANGED driverVars
      BY <2>2 DEF DNext, LoopNext, MainThreadNext, LookNext
    <3>2. QED
      BY <1>1, <3>1
  <2>3. CASE ~UNCHANGED <<program, run>>
    <3>1. UNCHANGED <<program, run>> \/ Join
      BY RunMoves
    <3>2. CASE Join
      BY <1>2, <3>2 DEF Join, Move
    <3>3. QED
      BY <2>3, <3>1, <3>2
  <2>4. QED
    BY <1>1, <2>1, <2>2, <2>3
<1>3. dpc # "terminated"
  BY DEF Running
<1>4. CASE Open \/ InitializeFails
  BY <1>4, TraceIs DEF Open, InitializeFails, Move
<1>5. CASE NextRow
  <2>1. dpc = "row" /\ row <= Len(call.trace) + 1 /\ row \in Nat \ {0} /\ rows(df) = Len(call.trace)
    BY <1>5, TraceIs DEF NextRow, PlaceInv
  <2>2. PICK speed \in get(block, 3) : speed = Failed /\ row <= rows(df)
    BY <1>5 DEF NextRow
  <2>3. row \in 1 .. Len(call.trace)
    BY <2>1, <2>2
  <2>4. speed \in Double
    BY <2>2, <2>3, RowSpeed
  <2>5. QED
    BY <2>2, <2>4, FramesAssumption
<1>6. CASE UploadCell
  <2>1. dpc = "cell" /\ row \in 1 .. Len(call.trace)
    BY <1>6 DEF UploadCell, PlaceInv
  <2>2. PICK cell \in get(block, 10) : cell = Failed
    BY <1>6 DEF UploadCell
  <2>3. block \in Block /\ Len(block) = Len(call.trace[row]) + 1
    BY <2>1, BlockIs
  <2>4. Len(call.trace[row]) = 10
    BY <2>1, TraceIs DEF FullLines
  <2> HIDE DEF block
  <2>5. 10 \in 0 .. Len(block) - 1
    BY <2>3, <2>4
  <2>6. get(block, 10) = {block[10 + 1]} /\ block[10 + 1] # Failed
    BY <2>3, <2>5, GetIs
  <2>7. QED
    BY <2>2, <2>6
<1>7. CASE Look
  <2>1. PICK curr_cell \in get(block, 10), curr_time \in get(block, 8) :
            LookWith(ce[call.carrier].ho_prediction, curr_cell, curr_time)
    BY <1>7, LookIs
  <2>2. PICK tempdf \in Matches(curr_cell, curr_time) : tempdf = Failed
    BY <2>1 DEF LookWith
  <2>3. QED
    BY <2>2, MatchesAre, SelectedAllIs
<1>8. CASE LoopNext
  <2>1. LoopStep => dpc' = dpc
    BY DEF LoopStep, mainThread
  <2>2. ASSUME NEW cr \in Carriers, UpdateCell(cr) PROVE dpc' = dpc
    BY <2>2 DEF UpdateCell, mainThread
  <2>3. ASSUME NEW cr \in Carriers, UpdateLocation(cr) PROVE FALSE
    <3> DEFINE outcomes == Predict(HoFrame(ce[cr].ho_files), ce[cr].current_cell,
                                   ce[cr].prev_location, values[request.jobid])
    <3>1. mainpc = "switch" /\ request.type = "GPS" /\ cr \in todo
      BY <2>3 DEF UpdateLocation
    <3>2. Failed \in outcomes
      <4> HIDE DEF Terminate, ProcessGPS, Predict, Remember, HoFrame
      <4>1. PICK outcome \in outcomes : outcome = Failed \/ UNCHANGED mainThread
        BY <2>3 DEF UpdateLocation
      <4>2. QED
        BY <1>3, <4>1 DEF mainThread
    <3>3. QED
      BY <3>1, <3>2, LocationIs
  <2>4. QED
    BY <1>3, <1>8, <2>1, <2>2, <2>3 DEF LoopNext
<1>9. ~ (Create \/ InitializeCarrier \/ UploadGPS \/ CallWait \/ InsideCall \/ Delete \/ Join \/ WakeUp)
  BY <1>3 DEF Create, InitializeCarrier, UploadGPS, CallWait, InsideCall, Delete, Join, WakeUp,
              Move, mainThread
<1>10. ~ UNCHANGED driverVars
  BY <1>3 DEF driverVars, mainThread
<1>11. QED
  BY <1>4, <1>5, <1>6, <1>7, <1>8, <1>9, <1>10 DEF DNext, MainThreadNext, LookNext

\* Nothing is evaluated while a file is missing: the directory is looked for first.
MissingInv ==
    run <= Len(program) /\ call.missing # {} =>
        /\ dpc \in {"create", "initialize", "open", "terminated"}
        /\ dpc = "open" => "directory" \notin call.missing

\* Each step keeps an evaluation with a missing file from its rows.
LEMMA MissingStep ==
  ASSUME MainInv, MissingInv, [DNext]_driverVars
  PROVE  MissingInv'
<1> USE DEF MissingInv
<1>1. CASE Join
  <2>1. run <= Len(program) /\ dpc = "join"
    BY <1>1 DEF Join, Move, MainInv
  <2>2. dpc' = "create" \/ UNCHANGED <<program, run>>
    BY <1>1 DEF Join, Move
  <2>3. QED
    BY <2>1, <2>2 DEF call
<1>2. CASE UNCHANGED <<program, run>>
  <2>1. call' = call
    BY <1>2 DEF call
  <2> SUFFICES ASSUME run <= Len(program), call.missing # {}
               PROVE  /\ dpc' \in {"create", "initialize", "open", "terminated"}
                      /\ dpc' = "open" => "directory" \notin call.missing
    BY <1>2, <2>1
  <2>2. call.missing \subseteq {"directory", "truth", "trace"}
    BY CallIs DEF Inputs
  <2> HIDE DEF call
  <2>3. CASE Open
    BY <2>2, <2>3 DEF Open, Move
  <2>4. CASE Create \/ InitializeCarrier
    BY <2>4 DEF Create, InitializeCarrier, Move
  <2>5. CASE Terminate
    BY <2>5 DEF Terminate
  <2>6. CASE dpc' = dpc
    BY <2>6
  <2>7. ASSUME LoopNext PROVE dpc' = dpc \/ Terminate
    <3> HIDE DEF Terminate
    <3>1. QED
      BY <2>7, LoopCases DEF LoopStep, mainThread
  <2>8. ~ (NextRow \/ UploadCell \/ UploadGPS \/ CallWait \/ Look \/ Delete \/ Join)
    <3>1. dpc \in {"create", "initialize", "open", "terminated"}
      OBVIOUS
    <3>2. Look => dpc = "look"
      BY LookMoves
    <3>3. QED
      BY <3>1, <3>2 DEF NextRow, UploadCell, UploadGPS, CallWait, Delete, Join, Move
  <2>9. InsideCall \/ WakeUp \/ UNCHANGED driverVars => dpc' = dpc
    BY DEF InsideCall, WakeUp, mainThread, driverVars
  <2>10. QED
    BY <2>3, <2>4, <2>5, <2>6, <2>7, <2>8, <2>9, FailsIs DEF DNext, MainThreadNext, LookNext
<1>3. QED
  BY <1>1, <1>2, RunMoves
-----------------------------------------------------------------------------
(* The accepted rows.                                                      *)

\* A double of the loop other than NaN and Inf.
Finite == [x : Int, q : Fraction]
Accepted == [row : Nat, prediction : Prediction, error : Finite \cup {NaN, Inf, None}]

ResultInv == result \in Seq(Accepted)

\* The square of a number grows with it.
LEMMA SquareGrows ==
  ASSUME NEW a \in Int, NEW b \in Int, 0 <= a, a < b, NEW c \in Nat \ {0}
  PROVE  a * a * c < b * b * c
<1>1. a * a <= a * b /\ a * b < b * b
  BY Z3
<1>2. a * a \in Int /\ b * b \in Int /\ a * a < b * b
  BY <1>1
<1> DEFINE x == a * a
           y == b * b
<1>3. x \in Int /\ y \in Int /\ x < y
  BY <1>2
<1> HIDE DEF x, y
<1>4. x * c < y * c
  BY <1>3, Z3
<1>5. QED
  BY <1>4 DEF x, y

\* What is recorded of one handover is its distance, if that is at most
\* MaxError; NaN, Inf and greater distances are too large.
LEMMA ErrorIs ==
  ASSUME NEW t \in Int, NEW m \in MomentType
  PROVE  LET d == Distance(t, m)
             err == Error(t, m)
         IN  /\ err \in Finite \cup {NaN, Inf}
             /\ AtMost(d, MaxError) => err = d /\ ~ErrorTooLarge(err)
             /\ ~AtMost(d, MaxError) => ErrorTooLarge(err)
<1> DEFINE d == Distance(t, m)
           S == Number(StartError)
           M == Number(MaxError)
<1>0. /\ MaxError \in Nat /\ StartError \in Nat /\ MaxError < StartError
      /\ NaN \notin Finite /\ Inf \notin Finite
  BY DriverAssumption DEF Finite
<1>1. /\ S \in Finite /\ S.x = StartError /\ S.q.num = 0 /\ S.q.den = 1
      /\ M \in Finite /\ M.x = MaxError /\ M.q.num = 0 /\ M.q.den = 1
  BY <1>0 DEF Number, Finite, Fraction, Zero
<1>2. d \in Finite \cup {NaN, Inf}
  BY DEF Distance, MomentType, Finite
<1>3. Error(t, m) = IF Less(d, S) THEN d ELSE S
  BY DEF Error, min
<1> HIDE DEF d, S, M
<1>4. \A e : ErrorTooLarge(e) <=> e # NaN /\ (e = Inf \/ ~AtMost(e, MaxError))
  <2>1. Abs(M.x) = MaxError
    BY <1>0, <1>1 DEF Abs
  <2>2. M \notin {NaN, Inf}
    BY <1>0, <1>1
  <2>3. QED
    BY <1>1, <2>1, <2>2, Zenon DEF ErrorTooLarge, Less, M
<1>5. ErrorTooLarge(S)
  <2>1. ~ (S.x - MaxError <= 0) /\ ~ ((S.x - MaxError) * (S.x - MaxError) * S.q.den <= S.q.num)
    <3>1. (S.x - MaxError) * (S.x - MaxError) > 0
      BY <1>0, <1>1, Z3
    <3>2. QED
      BY <1>0, <1>1, <3>1
  <2>2. ~AtMost(S, MaxError)
    BY <2>1 DEF AtMost
  <2>3. QED
    BY <1>0, <1>1, <1>4, <2>2
<1>6. CASE d \in {NaN, Inf}
  <2>1. ~Less(d, S) /\ ~AtMost(d, MaxError)
    BY <1>6 DEF Less, AtMost
  <2>2. QED
    BY <1>1, <1>3, <1>5, <2>1 DEF d
<1>7. CASE d \in Finite
  <2>1. d \notin {NaN, Inf} /\ S \notin {NaN, Inf}
    BY <1>0, <1>1, <1>7
  <2>2. ErrorTooLarge(d) <=> ~AtMost(d, MaxError)
    BY <1>4, <2>1
  <2>3. ASSUME AtMost(d, MaxError) PROVE Less(d, S)
    <3>1. d.x \in Int /\ d.q.num \in Nat /\ d.q.den \in Nat \ {0}
      BY <1>7 DEF Finite, Fraction
    <3> DEFINE x == d.x
               n == d.q.num
               c == d.q.den
    <3>2. /\ x - MaxError <= 0 \/ (x - MaxError) * (x - MaxError) * c <= n
          /\ x + MaxError >= 0 /\ n <= (x + MaxError) * (x + MaxError) * c
      BY <2>3 DEF AtMost
    <3>3. x \in Int /\ n \in Nat /\ c \in Nat \ {0}
      BY <3>1
    <3> HIDE DEF x, n, c
    <3>4. /\ x + StartError > 0 /\ n < (x + StartError) * (x + StartError) * c
      <4>1. (x + MaxError) * (x + MaxError) * c < (x + StartError) * (x + StartError) * c
        <5> DEFINE u == x + MaxError
                   v == x + StartError
        <5>1. u \in Int /\ v \in Int /\ 0 <= u /\ u < v
          BY <1>0, <3>2, <3>3
        <5> HIDE DEF u, v
        <5>2. u * u * c < v * v * c
          BY <3>3, <5>1, SquareGrows
        <5>3. QED
          BY <5>2 DEF u, v
      <4>2. /\ (x + MaxError) * (x + MaxError) * c \in Int
            /\ (x + StartError) * (x + StartError) * c \in Int
        BY <1>0, <3>3
      <4>3. QED
        BY <1>0, <3>2, <3>3, <4>1, <4>2
    <3>5. x - StartError < 0 \/ (x - StartError) * (x - StartError) * c < n
      <4> SUFFICES ASSUME x >= StartError PROVE (x - StartError) * (x - StartError) * c < n
        BY <1>0, <3>3
      <4>1. (x - StartError) * (x - StartError) * c < (x - MaxError) * (x - MaxError) * c
        <5> DEFINE u == x - StartError
                   v == x - MaxError
        <5>1. u \in Int /\ v \in Int /\ 0 <= u /\ u < v
          BY <1>0, <3>3
        <5> HIDE DEF u, v
        <5>2. u * u * c < v * v * c
          BY <3>3, <5>1, SquareGrows
        <5>3. QED
          BY <5>2 DEF u, v
      <4>2. (x - MaxError) * (x - MaxError) * c <= n
        BY <1>0, <3>2, <3>3
      <4>3. /\ (x - MaxError) * (x - MaxError) * c \in Int
            /\ (x - StartError) * (x - StartError) * c \in Int
        BY <1>0, <3>3
      <4>4. QED
        BY <3>3, <4>1, <4>2, <4>3
    <3>6. Abs(S.x) = StartError
      BY <1>0, <1>1 DEF Abs
    <3>7. CASE n # 0
      <4>1. Under(d, StartError)
        BY <2>1, <3>4, <3>5 DEF Under, x, n, c
      <4>2. QED
        BY <2>1, <3>6, <3>7, <4>1 DEF Less, n
    <3>8. CASE n = 0
      <4>1. x - StartError < 0
        <5> SUFFICES ASSUME x >= StartError PROVE FALSE
          BY <1>0, <3>3
        <5>1. (x - StartError) * (x - StartError) * c >= 0
          BY <1>0, <3>3, Z3
        <5>2. (x - StartError) * (x - StartError) * c \in Int
          BY <1>0, <3>3
        <5>3. QED
          BY <1>0, <3>3, <3>5, <3>8, <5>1, <5>2
      <4>2. Abs(x) \in Nat /\ Abs(x) < StartError
        BY <1>0, <3>3, <3>4, <4>1 DEF Abs
      <4>3. StartError - Abs(x) > 0
            /\ (StartError - Abs(x)) * (StartError - Abs(x)) > 0
        BY <1>0, <4>2, Z3
      <4>4. ~AtMost(S, Abs(x))
        BY <1>0, <1>1, <4>2, <4>3 DEF AtMost
      <4>5. QED
        BY <2>1, <3>8, <4>4 DEF Less, n, x
    <3>9. QED
      BY <3>7, <3>8
  <2>4. QED
    BY <1>1, <1>3, <1>5, <1>7, <2>2, <2>3 DEF d
<1>8. QED
  BY <1>2, <1>6, <1>7

\* Each step keeps the types of what is accepted.
LEMMA ResultStep ==
  ASSUME MainInv, PlaceInv, CarInv, ResultInv, [DNext]_driverVars
  PROVE  ResultInv'
<1>1. CASE Look
  <2>1. dpc = "look" /\ run <= Len(program)
    BY <1>1 DEF Look, MainInv
  <2> DEFINE p == ce[call.carrier].ho_prediction
  <2>2. p \in Prediction
    BY <2>1 DEF CarInv, CarOf
  <2>3. PICK curr_cell \in get(block, 10), curr_time \in get(block, 8) :
            LookWith(p, curr_cell, curr_time)
    BY <1>1, LookIs
  <2> HIDE DEF p
  <2>4. CASE result' = result
    BY <2>4 DEF ResultInv
  <2>5. ASSUME NEW tempdf \in Matches(curr_cell, curr_time), NEW error, Accepts(p, tempdf, error)
        PROVE  ResultInv'
    <3>1. ASSUME error # None PROVE error \in Finite \cup {NaN, Inf}
      <4>1. rows(tempdf) = 1 /\ error = Error(tempdf.data[1][2], p[1]) /\ tempdf # Failed
        BY <2>5, <3>1 DEF Accepts
      <4>2. PICK f \in selectNames(gt, TruthNames) :
                /\ Selected(f) /\ tempdf = Chosen(f, TruthOf(curr_cell, curr_time))
        BY <2>1, <2>5, <4>1, MatchesAre
      <4>3. tempdf.data[1] \in TruthOf(curr_cell, curr_time)
        <5> DEFINE R == TruthOf(curr_cell, curr_time)
        <5> HIDE DEF R
        <5>1. ChosenOf(f, R, Chosen(f, R))
          BY <4>2, FrameIs, ChosenRows DEF Selected
        <5>2. \A i \in 1 .. rows(tempdf) : tempdf.data[i] \in R
          BY <4>2, <5>1 DEF ChosenOf, R
        <5>3. QED
          BY <4>1, <5>2 DEF R
      <4>4. tempdf.data[1][2] \in Int
        BY <4>3 DEF TruthOf, Around
      <4>5. p[1] \in MomentType
        BY <2>2 DEF Prediction
      <4>6. QED
        BY <4>1, <4>4, <4>5, ErrorIs
    <3> DEFINE a == [row |-> row, prediction |-> p, error |-> error]
    <3>2. a \in Accepted
      BY <2>2, <3>1 DEF Accepted, PlaceInv
    <3>3. result' = Append(result, a)
      BY <2>5 DEF Accepts
    <3> HIDE DEF a
    <3>4. QED
      BY <3>2, <3>3 DEF ResultInv
  <2>6. QED
    BY <2>3, <2>4, <2>5 DEF LookWith
<1>2. result' \in {result, <<>>} \/ Look
  <2> HIDE DEF Terminate, get, block, Look
  <2>1. ASSUME LoopNext PROVE result' = result
    BY <2>1, LoopCases DEF LoopStep, Terminate, mainThread, localVars
  <2>2. ASSUME UploadCell \/ InitializeFails PROVE result' = result
    BY <2>2, FailsIs DEF UploadCell, Terminate, localVars
  <2>3. QED
    BY <2>1, <2>2 DEF DNext, MainThreadNext, LookNext, Create, InitializeCarrier, Open,
       NextRow, UploadGPS, CallWait, InsideCall, Delete, Join, WakeUp, mainThread, driverVars, localVars
<1>3. ASSUME result' \in {result, <<>>} PROVE ResultInv'
  <2>1. result \in Seq(Accepted) /\ <<>> \in Seq(Accepted)
    BY DEF ResultInv
  <2>2. QED
    BY <1>3, <2>1 DEF ResultInv
<1>4. QED
  BY <1>1, <1>2, <1>3
-----------------------------------------------------------------------------
(* The warnings.                                                           *)

\* The warnings are those of the failed rows among the accepted ones, both of
\* which come before the row the main thread is at.
WarnInv ==
    /\ warn_result \in Seq(Nat)
    /\ \A i \in 1 .. Len(warn_result) : warn_result[i] < row
    /\ \A i \in 2 .. Len(warn_result) : warn_result[i - 1] < warn_result[i]
    /\ \A i \in 1 .. Len(result) : result[i].row < row
    /\ FullLines => {warn_result[i] : i \in 1 .. Len(warn_result)}
                      = {result[i].row : i \in 1 .. Len(result)} \cap FailedHandovers

\* There is one match just if the ground truth has one line nearby, which it is.
LEMMA MatchIs ==
  ASSUME MainInv, PlaceInv, dpc = "look", FullLines,
         NEW curr_cell \in get(block, 10), NEW curr_time \in get(block, 8), curr_cell \in Int,
         NEW tempdf \in Matches(curr_cell, curr_time)
  PROVE  IF rows(tempdf) = 1
         THEN \E i \in DOMAIN call.truth :
                  /\ NearTruth(row) = {i}
                  /\ tempdf.data[1][2] = call.truth[i][5] /\ call.truth[i][5] \in Int
                  /\ tempdf.data[1][3] = call.truth[i][4]
         ELSE \A i \in DOMAIN call.truth : NearTruth(row) # {i}
<1> DEFINE line == call.trace[row]
           R == TruthOf(curr_cell, curr_time)
           N == NearTruth(row)
<1>1. run <= Len(program) /\ row \in 1 .. Len(call.trace) /\ DOMAIN call.trace = 1 .. Len(call.trace)
  BY TraceIs DEF MainInv, PlaceInv
<1>2. line \in Seq(Double) /\ Len(line) = 10 /\ block \in Block /\ Len(block) = 11
      /\ \A i \in 1 .. 10 : block[i + 1] = line[i]
  <2>1. Len(line) = 10
    BY <1>1 DEF FullLines
  <2>2. /\ block \in Block /\ line \in Seq(Double)
        /\ Len(block) = Len(line) + 1
        /\ \A i \in 1 .. Len(line) : block[i + 1] = line[i]
    BY <1>1, BlockIs
  <2> HIDE DEF block, line
  <2>3. QED
    BY <2>1, <2>2
<1>3. curr_cell = line[10] /\ curr_time = line[8]
  <2> HIDE DEF block, line
  <2>1. get(block, 10) = {block[10 + 1]} /\ get(block, 8) = {block[8 + 1]}
    BY <1>2, GetIs
  <2>2. QED
    BY <1>2, <2>1
<1>4. curr_time \in Int /\ NearTime \in Int
  <2>1. run \in DOMAIN program /\ program \in Programs
    BY <1>1, DriverAssumption DEF MainInv
  <2>2. Len(line) >= 8 => {line[1], line[2], line[8]} \subseteq Int
    BY <1>1, <2>1, DriverAssumption DEF call
  <2>3. QED
    BY <1>2, <1>3, <2>2, DriverAssumption
<1>5. Cell(row) = curr_cell /\ Place(row).time = curr_time
  BY <1>3, FramesAssumption DEF Cell, Place, ToCid
<1>6. PICK f \in selectNames(gt, TruthNames) :
         SelectedAll(f) /\ tempdf = Chosen(f, R) /\ IsFrame(f) /\ rows(f) = Len(call.truth)
  <2>1. PICK f \in selectNames(gt, TruthNames) :
            IF f = Failed THEN tempdf = Failed
            ELSE Selected(f) /\ tempdf = Chosen(f, R) /\ tempdf # Failed
    BY <1>1, MatchesAre
  <2>2. f # Failed /\ SelectedAll(f)
    BY <1>1, SelectedAllIs
  <2>3. QED
    BY <2>1, <2>2, FrameIs DEF Selected, SelectedAll
<1>7. DOMAIN call.truth = 1 .. rows(f)
  BY <1>1, <1>6, CallType DEF File
<1>8. \A i \in 1 .. rows(f) : f.data[i] \in R <=> i \in N
  <2>1. ASSUME NEW i \in 1 .. rows(f) PROVE f.data[i] \in R <=> i \in N
    <3> DEFINE t == call.truth[i]
    <3>1. f.data[i] = <<t[6], t[5], t[4]>> /\ f.data[i] \in Block
      BY <1>6 DEF SelectedAll, Selected, Triple
    <3>2. f.data[i][1] = t[6] /\ f.data[i][2] = t[5]
      BY <3>1
    <3>3. i \in N <=> t[6] = curr_cell /\ t[5] \in Int
                      /\ t[5] - curr_time \in -NearTime + 1 .. NearTime - 1
      BY <1>5, <1>7 DEF NearTruth
    <3> HIDE DEF t, N
    <3>4. f.data[i] \in R <=> t[6] = curr_cell /\ t[5] \in Around(curr_time)
      BY <3>1, <3>2 DEF TruthOf
    <3>5. t[5] \in Around(curr_time)
            <=> t[5] \in Int /\ t[5] - curr_time \in -NearTime + 1 .. NearTime - 1
      BY <1>4 DEF Around
    <3>6. QED
      BY <3>3, <3>4, <3>5
  <2>2. QED
    BY <2>1
<1>9. N \subseteq 1 .. rows(f)
  BY <1>7 DEF NearTruth
<1> HIDE DEF N, R
<1>10. ChosenOf(f, R, tempdf)
  BY <1>6, ChosenRows
<1>11. rows(tempdf) = Cardinality(N) /\ IsFiniteSet(N)
  <2>1. {j \in 1 .. rows(f) : f.data[j] \in R} = N
    BY <1>8, <1>9
  <2>2. rows(f) \in Nat
    BY <1>6 DEF IsFrame, rows
  <2>3. IsFiniteSet(1 .. rows(f))
    BY <2>2, FS_Interval
  <2>4. IsFiniteSet(N)
    BY <1>9, <2>3, FS_Subset
  <2>5. rows(tempdf) = Cardinality({j \in 1 .. rows(f) : f.data[j] \in R})
    BY <1>10, Zenon DEF ChosenOf
  <2>6. QED
    BY <2>1, <2>4, <2>5
<1>13. CASE rows(tempdf) # 1
  <2>1. \A i : N # {i}
    BY <1>11, <1>13, FS_Singleton
  <2>2. QED
    BY <1>13, <2>1 DEF N
<1>14. CASE rows(tempdf) = 1
  <2>1. PICK i : N = {i}
    BY <1>11, <1>14, FS_Singleton
  <2>7. \A k \in 1 .. 1 : tempdf.data[k] \in R /\ \E j \in 1 .. rows(f) : tempdf.data[k] = f.data[j]
    BY <1>10, <1>14, Zenon DEF ChosenOf
  <2>2. PICK j \in 1 .. rows(f) : tempdf.data[1] = f.data[j]
    BY <2>7
  <2>3. tempdf.data[1] \in R
    BY <2>7
  <2>4. j = i
    BY <1>8, <2>1, <2>2, <2>3
  <2>5. i \in 1 .. rows(f) /\ tempdf.data[1] = f.data[i]
    BY <2>2, <2>4
  <2>6. tempdf.data[1][3] = call.truth[i][4] /\ tempdf.data[1][2] = call.truth[i][5]
    <3> DEFINE t == call.truth[i]
    <3>1. f.data[i] = <<t[6], t[5], t[4]>>
      BY <1>6, <2>5, Zenon DEF SelectedAll
    <3> HIDE DEF t, block
    <3>2. tempdf.data[1] = <<t[6], t[5], t[4]>>
      BY <2>5, <3>1
    <3>3. QED
      BY <3>2 DEF t
  <2>8. call.truth[i][5] \in Int
    BY <2>1 DEF N, NearTruth
  <2>9. QED
    BY <1>7, <1>14, <2>1, <2>5, <2>6, <2>8 DEF N
<1>15. QED
  BY <1>13, <1>14

\* With one match, the row is a failed one just if the match says so.
LEMMA FailedIs ==
  ASSUME MainInv, PlaceInv, dpc = "look", FullLines,
         NEW curr_cell \in get(block, 10), NEW curr_time \in get(block, 8), curr_cell \in Int,
         NEW tempdf \in Matches(curr_cell, curr_time)
  PROVE  row \in FailedHandovers <=> rows(tempdf) = 1 /\ tempdf.data[1][3] # 1
<1>1. row \in DOMAIN call.trace
  BY TraceIs DEF MainInv, PlaceInv
<1>2. row \in FailedHandovers <=> \E i \in DOMAIN call.truth : NearTruth(row) = {i} /\ call.truth[i][4] # 1
  BY <1>1 DEF FailedHandovers
<1> HIDE DEF call, NearTruth, FullLines, block, FailedHandovers
<1>3. CASE rows(tempdf) # 1
  BY <1>2, <1>3, MatchIs
<1>4. CASE rows(tempdf) = 1
  <2>1. PICK i \in DOMAIN call.truth : NearTruth(row) = {i} /\ tempdf.data[1][3] = call.truth[i][4]
    BY <1>4, MatchIs
  <2>2. \A j \in DOMAIN call.truth : NearTruth(row) = {j} => j = i
    BY <2>1
  <2>3. QED
    BY <1>2, <1>4, <2>1, <2>2
<1>5. QED
  BY <1>3, <1>4

\* What ErrorColumn says of one accepted row.
RightError(a) ==
    LET near == {n \in DOMAIN call.truth : NearTruth(a.row) = {n}}
        measured == {n \in near : AtMost(Distance(call.truth[n][5], a.prediction[1]), MaxError)}
    IN  IF measured = {} THEN a.error = None
        ELSE \A n \in measured : a.error = Distance(call.truth[n][5], a.prediction[1])

ErrorInv == FullLines => \A i \in 1 .. Len(result) : RightError(result[i])

\* Each step keeps the error columns what the ground truth says.
LEMMA ErrorStep ==
  ASSUME MainInv, PlaceInv, CarInv, ResultInv, ErrorInv, [DNext]_driverVars
  PROVE  ErrorInv'
<1>0. ASSUME UNCHANGED <<program, run>>
      PROVE  FullLines' = FullLines /\ \A a : RightError(a)' = RightError(a)
  BY <1>0 DEF FullLines, RightError, NearTruth, Cell, Place, call
<1>1. CASE Look
  <2>1. dpc = "look" /\ UNCHANGED <<program, run>>
    BY <1>1, LookMoves
  <2> SUFFICES ASSUME FullLines
               PROVE  \A i \in 1 .. Len(result') : RightError(result'[i])
    BY <1>0, <2>1 DEF ErrorInv
  <2> DEFINE p == ce[call.carrier].ho_prediction
  <2>2. p \in Prediction
    BY <2>1 DEF CarInv, CarOf
  <2>3. PICK curr_cell \in get(block, 10), curr_time \in get(block, 8) :
            LookWith(p, curr_cell, curr_time)
    BY <1>1, LookIs
  <2> HIDE DEF p
  <2>4. CASE result' = result
    BY <2>4 DEF ErrorInv
  <2>5. ASSUME NEW tempdf \in Matches(curr_cell, curr_time), NEW error,
               p[2] = curr_cell, Accepts(p, tempdf, error)
        PROVE  \A i \in 1 .. Len(result') : RightError(result'[i])
    <3> DEFINE a == [row |-> row, prediction |-> p, error |-> error]
    <3>1. RightError(a)
      <4>1. curr_cell \in Int /\ p[1] \in MomentType
        BY <2>2, <2>5 DEF Prediction
      <4>2. a.row = row /\ a.prediction = p /\ a.error = error
        OBVIOUS
      <4> HIDE DEF call, NearTruth, FullLines, block, a
      <4>3. CASE rows(tempdf) # 1
        <5>1. error = None
          BY <2>5, <4>3 DEF Accepts
        <5>2. \A n \in DOMAIN call.truth : NearTruth(row) # {n}
          BY <2>1, <4>1, <4>3, MatchIs
        <5>3. QED
          BY <4>2, <5>1, <5>2 DEF RightError
      <4>4. CASE rows(tempdf) = 1
        <5>1. PICK n \in DOMAIN call.truth :
                  /\ NearTruth(row) = {n}
                  /\ tempdf.data[1][2] = call.truth[n][5] /\ call.truth[n][5] \in Int
          BY <2>1, <4>1, <4>4, MatchIs
        <5> DEFINE t == call.truth[n][5]
                   err == Error(t, p[1])
                   near == {k \in DOMAIN call.truth : NearTruth(row) = {k}}
                   measured == {k \in near : AtMost(Distance(call.truth[k][5], p[1]), MaxError)}
        <5>2. error = IF ErrorTooLarge(err) THEN None ELSE err
          BY <2>5, <4>4, <5>1 DEF Accepts
        <5>3. near = {n}
          BY <5>1
        <5>4. t \in Int
          BY <5>1
        <5> HIDE DEF t
        <5>5. /\ AtMost(Distance(t, p[1]), MaxError)
                   => err = Distance(t, p[1]) /\ ~ErrorTooLarge(err)
              /\ ~AtMost(Distance(t, p[1]), MaxError) => ErrorTooLarge(err)
          BY <4>1, <5>4, ErrorIs
        <5> HIDE DEF near, err
        <5>6. measured = IF AtMost(Distance(t, p[1]), MaxError) THEN {n} ELSE {}
          BY <5>3 DEF t
        <5> HIDE DEF measured
        <5>7. IF measured = {} THEN error = None
              ELSE \A k \in measured : error = Distance(call.truth[k][5], p[1])
          BY <5>2, <5>5, <5>6 DEF t
        <5>8. QED
          BY <4>2, <5>7 DEF RightError, measured, near
      <4>5. QED
        BY <4>3, <4>4
    <3>2. result' = Append(result, a)
      BY <2>5 DEF Accepts
    <3> HIDE DEF a
    <3>3. /\ Len(result') = Len(result) + 1 /\ Len(result) \in Nat
          /\ result'[Len(result) + 1] = a /\ \A i \in 1 .. Len(result) : result'[i] = result[i]
      BY <3>2 DEF ResultInv
    <3>4. \A i \in 1 .. Len(result') : i \in 1 .. Len(result) \/ i = Len(result) + 1
      BY <3>3
    <3>5. QED
      BY <3>1, <3>3, <3>4 DEF ErrorInv
  <2>6. QED
    BY <2>3, <2>4, <2>5 DEF LookWith
<1>2. CASE result' = <<>>
  BY <1>2 DEF ErrorInv
<1>3. CASE UNCHANGED <<program, run, result>>
  BY <1>0, <1>3 DEF ErrorInv
<1>4. Look \/ result' = <<>> \/ UNCHANGED <<program, run, result>>
  <2> HIDE DEF Terminate, get, block, Look
  <2>1. ASSUME LoopNext PROVE UNCHANGED <<program, run, result>>
    BY <2>1, LoopCases DEF LoopStep, Terminate, mainThread, localVars
  <2>2. ASSUME UploadCell \/ InitializeFails PROVE UNCHANGED <<program, run, result>>
    BY <2>2, FailsIs DEF UploadCell, Terminate, localVars
  <2>3. QED
    BY <2>1, <2>2 DEF DNext, MainThreadNext, LookNext, Create, InitializeCarrier, Open,
       NextRow, UploadGPS, CallWait, InsideCall, Delete, Join, WakeUp, mainThread, driverVars, localVars
<1>5. QED
  BY <1>1, <1>2, <1>3, <1>4

\* The rows of the results are numbers.
LEMMA RowsAreNumbers ==
  ASSUME ResultInv
  PROVE  \A i \in 1 .. Len(result) : result[i].row \in Nat
<1>1. ASSUME NEW i \in 1 .. Len(result) PROVE result[i].row \in Nat
  <2>1. result[i] \in Accepted
    BY <1>1, ElementOfSeq DEF ResultInv
  <2>2. QED
    BY <2>1 DEF Accepted
<1>2. QED
  BY <1>1

\* A step that leaves results and warnings alone keeps what they say.
LEMMA WarnKept ==
  ASSUME WarnInv, ResultInv, row \in Nat, UNCHANGED <<program, run, result, warn_result>>,
         row' \in {row, row + 1}
  PROVE  WarnInv'
<1>1. FullLines' = FullLines /\ FailedHandovers' = FailedHandovers
  BY DEF FullLines, FailedHandovers, NearTruth, Cell, Place, call
<1>2. \A i \in 1 .. Len(warn_result) : warn_result[i] \in Nat
  BY DEF WarnInv
<1>3. \A i \in 1 .. Len(result) : result[i].row \in Nat
  BY RowsAreNumbers
<1> HIDE DEF FullLines, FailedHandovers
<1>4. /\ \A i \in 1 .. Len(warn_result) : warn_result[i] < row
      /\ \A i \in 1 .. Len(result) : result[i].row < row
  BY DEF WarnInv
<1>5. /\ \A i \in 1 .. Len(warn_result) : warn_result[i] < row'
      /\ \A i \in 1 .. Len(result) : result[i].row < row'
  BY <1>2, <1>3, <1>4
<1>6. warn_result' = warn_result /\ result' = result
  OBVIOUS
<1>7. /\ \A i \in 1 .. Len(warn_result') : warn_result'[i] < row'
      /\ \A i \in 1 .. Len(result') : result'[i].row < row'
  BY <1>5, <1>6, Zenon
<1>8. QED
  BY <1>1, <1>6, <1>7 DEF WarnInv

\* Each step keeps the warnings the failed handovers among the rows recorded.
LEMMA WarnStep ==
  ASSUME MainInv, PlaceInv, CarInv, ResultInv, WarnInv, [DNext]_driverVars
  PROVE  WarnInv'
<1>0. row \in Nat
  BY DEF PlaceInv
<1>1. CASE Look
  <2>1. dpc = "look" /\ run <= Len(program) /\ UNCHANGED <<program, run>>
    BY <1>1, LookMoves DEF MainInv
  <2> DEFINE p == ce[call.carrier].ho_prediction
  <2>2. p \in Prediction
    BY <2>1 DEF CarInv, CarOf
  <2>3. PICK curr_cell \in get(block, 10), curr_time \in get(block, 8) :
            LookWith(p, curr_cell, curr_time)
    BY <1>1, LookIs
  <2> HIDE DEF p
  <2>4. CASE UNCHANGED <<result, warn_result>>
    BY <1>0, <1>1, <2>1, <2>4, LookMoves, WarnKept
  <2>5. ASSUME NEW tempdf \in Matches(curr_cell, curr_time), NEW error,
               p[2] = curr_cell, Accepts(p, tempdf, error), row' = row + 1
        PROVE  WarnInv'
    <3>1. curr_cell \in Int
      BY <2>2, <2>5 DEF Prediction
    <3> DEFINE Fails == rows(tempdf) = 1 /\ tempdf.data[1][3] # 1
               a == [row |-> row, prediction |-> p, error |-> error]
    <3>2. /\ result' = Append(result, a) /\ a.row = row
          /\ warn_result' = IF Fails THEN Append(warn_result, row) ELSE warn_result
      BY <2>5 DEF Accepts
    <3>3. FullLines => (row \in FailedHandovers <=> Fails)
      BY <2>1, <3>1, FailedIs
    <3>4. FullLines' = FullLines /\ FailedHandovers' = FailedHandovers
      BY <2>1 DEF FullLines, FailedHandovers, NearTruth, Cell, Place, call
    <3> HIDE DEF Fails, a, FullLines, FailedHandovers
    <3>5. /\ result \in Seq(Accepted) /\ Len(result) \in Nat /\ Len(result') = Len(result) + 1
          /\ result'[Len(result) + 1] = a
          /\ \A i \in 1 .. Len(result) : result'[i] = result[i]
      BY <3>2 DEF ResultInv
    <3>14. \A i \in 1 .. Len(result) : result[i].row \in Nat
      BY RowsAreNumbers
    <3>6. \A i \in 1 .. Len(result') : i \in 1 .. Len(result) \/ i = Len(result) + 1
      BY <3>5
    <3>7. \A i \in 1 .. Len(result') : result'[i].row < row'
      BY <1>0, <2>5, <3>2, <3>5, <3>6, <3>14 DEF WarnInv
    <3> DEFINE RS == {result[i].row : i \in 1 .. Len(result)}
               WS == {warn_result[i] : i \in 1 .. Len(warn_result)}
    <3>8. {result'[i].row : i \in 1 .. Len(result')} = RS \cup {row}
      BY <3>2, <3>5, <3>6
    <3>9. /\ warn_result \in Seq(Nat) /\ Len(warn_result) \in Nat
          /\ \A i \in 1 .. Len(warn_result) : warn_result[i] \in Nat
      BY DEF WarnInv
    <3>10. FullLines => WS = RS \cap FailedHandovers
      BY DEF WarnInv
    <3>11. CASE ~Fails
      <4>1. warn_result' = warn_result
        BY <3>2, <3>11
      <4>2. FullLines => WS = (RS \cup {row}) \cap FailedHandovers
        BY <3>3, <3>10, <3>11
      <4> HIDE DEF RS
      <4>3. FullLines' => {warn_result'[i] : i \in 1 .. Len(warn_result')}
                           = {result'[i].row : i \in 1 .. Len(result')} \cap FailedHandovers'
        BY <3>4, <3>8, <4>1, <4>2
      <4>4. \A i \in 1 .. Len(warn_result) : warn_result[i] < row
        BY DEF WarnInv
      <4>5. \A i \in 1 .. Len(warn_result) : warn_result[i] < row + 1
        BY <1>0, <3>9, <4>4
      <4>6. \A i \in 1 .. Len(warn_result') : warn_result'[i] < row'
        BY <2>5, <4>1, <4>5
      <4>7. \A i \in 2 .. Len(warn_result') : warn_result'[i - 1] < warn_result'[i]
        BY <4>1 DEF WarnInv
      <4>8. QED
        BY <3>7, <3>9, <4>1, <4>3, <4>6, <4>7 DEF WarnInv
    <3>12. CASE Fails
      <4>1. /\ warn_result' \in Seq(Nat) /\ Len(warn_result') = Len(warn_result) + 1
            /\ warn_result'[Len(warn_result) + 1] = row
            /\ \A i \in 1 .. Len(warn_result) : warn_result'[i] = warn_result[i]
        BY <1>0, <3>2, <3>9, <3>12
      <4>2. \A i \in 1 .. Len(warn_result') : i \in 1 .. Len(warn_result) \/ i = Len(warn_result) + 1
        BY <3>9, <4>1
      <4>3. {warn_result'[i] : i \in 1 .. Len(warn_result')} = WS \cup {row}
        <5>1. 1 .. Len(warn_result') = 1 .. Len(warn_result) \cup {Len(warn_result) + 1}
          BY <3>9, <4>1
        <5>2. QED
          BY <4>1, <5>1, SMTT(30)
      <4>4. FullLines => WS \cup {row} = (RS \cup {row}) \cap FailedHandovers
        BY <3>3, <3>10, <3>12
      <4> HIDE DEF RS, WS
      <4>5. FullLines' => {warn_result'[i] : i \in 1 .. Len(warn_result')}
                           = {result'[i].row : i \in 1 .. Len(result')} \cap FailedHandovers'
        BY <3>4, <3>8, <4>3, <4>4
      <4>9. \A i \in 1 .. Len(warn_result) : warn_result[i] < row
        BY DEF WarnInv
      <4>6. \A i \in 1 .. Len(warn_result') : warn_result'[i] < row'
        <5>1. row' = row + 1
          BY <2>5
        <5>2. ASSUME NEW i \in 1 .. Len(warn_result) PROVE warn_result'[i] < row + 1
          <6>1. warn_result'[i] = warn_result[i]
            BY <4>1
          <6>2. warn_result[i] \in Nat /\ warn_result[i] < row
            BY <3>9, <4>9
          <6>3. QED
            BY <1>0, <6>1, <6>2
        <5>3. warn_result'[Len(warn_result) + 1] < row + 1
          BY <1>0, <4>1
        <5>4. QED
          BY <4>2, <5>1, <5>2, <5>3
      <4>7. \A i \in 2 .. Len(warn_result') : warn_result'[i - 1] < warn_result'[i]
        <5>1. ASSUME NEW i \in 2 .. Len(warn_result') PROVE warn_result'[i - 1] < warn_result'[i]
          <6>5. i - 1 \in 1 .. Len(warn_result)
            BY <3>9, <4>1
          <6>1. warn_result'[i - 1] = warn_result[i - 1] /\ warn_result[i - 1] < row
            BY <4>1, <4>9, <6>5
          <6>2. CASE i = Len(warn_result) + 1
            BY <4>1, <6>1, <6>2
          <6>3. CASE i \in 2 .. Len(warn_result)
            BY <4>1, <6>1, <6>3 DEF WarnInv
          <6>4. QED
            BY <3>9, <4>1, <6>2, <6>3
        <5>2. QED
          BY <5>1
      <4>8. QED
        BY <3>7, <4>1, <4>5, <4>6, <4>7 DEF WarnInv
    <3>13. QED
      BY <3>11, <3>12
  <2>6. QED
    BY <2>3, <2>4, <2>5 DEF LookWith
<1>2. CASE result' = <<>> /\ warn_result' = <<>>
  BY <1>2 DEF WarnInv
<1>3. \/ Look
      \/ result' = <<>> /\ warn_result' = <<>>
      \/ UNCHANGED <<program, run, result, warn_result>> /\ row' \in {row, row + 1}
  <2> HIDE DEF Terminate, get, block, Look
  <2>1. ASSUME LoopNext PROVE UNCHANGED <<program, run, result, warn_result, row>>
    BY <2>1, LoopCases DEF LoopStep, Terminate, mainThread, localVars
  <2>2. ASSUME UploadCell \/ InitializeFails PROVE UNCHANGED <<program, run, result, warn_result, row>>
    BY <2>2, FailsIs DEF UploadCell, Terminate, localVars
  <2>3. QED
    BY <2>1, <2>2 DEF DNext, MainThreadNext, LookNext, Create, InitializeCarrier, Open,
       NextRow, UploadGPS, CallWait, InsideCall, Delete, Join, WakeUp, mainThread, driverVars, localVars
<1>4. QED
  BY <1>0, <1>1, <1>2, <1>3, WarnKept
-----------------------------------------------------------------------------
(* The theorems.                                                           *)

DriverInv ==
    /\ IInv /\ PredictionInv
    /\ MainInv /\ PlaceInv /\ BeforeStartInv /\ ValuesInv /\ CarInv /\ StopsInv /\ MissingInv
    /\ ResultInv /\ ErrorInv /\ WarnInv

\* Nothing has been recorded at the start.
LEMMA ResultInitially == DInit => StopsInv /\ MissingInv /\ ResultInv /\ ErrorInv /\ WarnInv
  BY DEF DInit, StopsInv, MissingInv, ResultInv, ErrorInv, WarnInv

\* The inductive invariant of the driver holds whatever programs run.
THEOREM DriverInvariance == DSpec => []DriverInv
<1>1. DInit => DriverInv
  <2>1. DInit => Init
    BY DEF DInit
  <2>2. QED
    BY <2>1, Initially, PredictionInitially, MainInitially, PlaceInitially, BeforeStartInitially,
       ValuesInitially, CarInitially, ResultInitially DEF DriverInv
<1>2. DriverInv /\ [DNext]_driverVars => DriverInv'
  <2> SUFFICES ASSUME DriverInv, [DNext]_driverVars PROVE DriverInv'
    OBVIOUS
  <2> USE DEF DriverInv
  <2>1. TypeOK /\ TodoInv
    BY DEF IInv, PredictionInv
  <2>2. [Next]_vars
    BY Simulation
  <2>3. IInv'
    BY <2>2, TypeStep, LockStep, QueueStep, RequestStep, AppliedStep, WaitedStep, StopStep,
       StartStep, NotifyStep DEF IInv
  <2>4. PredictionInv'
    BY <2>2, <2>3, LogStep, TodoStep, EnvStep DEF IInv, PredictionInv
  <2>5. MainInv'
    BY MainStep
  <2>6. PlaceInv'
    BY <2>1, PlaceStep
  <2>7. BeforeStartInv'
    BY BeforeStartStep
  <2>8. ValuesInv'
    BY ValuesStep
  <2>9. CarInv'
    BY <2>1, CarStep
  <2>10. StopsInv'
    BY <2>1, StopsStep
  <2>11. ResultInv'
    BY ResultStep
  <2>12. WarnInv'
    BY WarnStep
  <2>13. MissingInv'
    BY MissingStep
  <2>14. ErrorInv'
    BY ErrorStep
  <2>15. QED
    BY <2>3, <2>4, <2>5, <2>6, <2>7, <2>8, <2>9, <2>10, <2>11, <2>12, <2>13, <2>14
<1>3. QED
  BY <1>1, <1>2, PTL DEF DSpec

\* With full lines the process ends only for a missing file, before anything is
\* evaluated, or a trace of as many rows as the removed sampling had seconds, and the destructor frees the database below a
\* thread that has not begun only for a trace without a fast row.
THEOREM OnlyBadInput == DSpec => []OnlyBadInputStops
<1>1. DriverInv => OnlyBadInputStops
  BY DEF DriverInv, StopsInv, MissingInv, BeforeStartInv, OnlyBadInputStops
<1>2. QED
  BY <1>1, DriverInvariance, PTL

\* The error column of every accepted row is what the ground truth makes of the
\* prediction: std::min and the comparison after it sort out NaN, infinity and
\* whatever is too far away, however large StartError and MaxError are.
THEOREM RecordedErrors == DSpec => []ErrorColumn
<1>1. DriverInv => ErrorColumn
  <2> SUFFICES ASSUME DriverInv, FullLines
               PROVE  \A i \in DOMAIN result : RightError(result[i])
    BY DEF ErrorColumn, RightError
  <2>1. DOMAIN result = 1 .. Len(result)
    BY DEF DriverInv, ResultInv
  <2>2. QED
    BY <2>1 DEF DriverInv, ErrorInv
<1>2. QED
  BY <1>1, DriverInvariance, PTL

\* The warnings are given for the accepted rows with one handover nearby that
\* failed, and in their order.
THEOREM WarningsAreRight == DSpec => []WarningsAreFailures
<1>1. DriverInv => WarningsAreFailures
  <2> SUFFICES ASSUME DriverInv PROVE WarningsAreFailures
    OBVIOUS
  <2>1. DOMAIN result = 1 .. Len(result) /\ DOMAIN warn_result = 1 .. Len(warn_result)
    BY DEF DriverInv, ResultInv, WarnInv
  <2>2. QED
    BY <2>1 DEF DriverInv, WarnInv, WarningsAreFailures
<1>2. QED
  BY <1>1, DriverInvariance, PTL
-----------------------------------------------------------------------------
(* The predictions that are looked at.                                     *)

\* The definitions of AnswersAreSequential for a call cl.
CellOf(cl, k) == ToCid(cl.trace[k][10])
PlaceOf(cl, k) == [lng |-> cl.trace[k][1], lat |-> cl.trace[k][2], time |-> cl.trace[k][8]]
FastOf(cl, n) == {k \in 1..n : cl.trace[k][3] = NaN \/ cl.trace[k][3] >= MinSpeed}
FoundOf(cl, n) == {k \in FastOf(cl, n) :
                      Handovers(cl.ho_files, CellOf(cl, k), PlaceOf(cl, k)) # {}}

\* What prev_location may be after the first n rows, and the prediction.
LastPlaces(cl, n) == IF FastOf(cl, n) = {} THEN Places ELSE {PlaceOf(cl, Latest(FastOf(cl, n)))}
Made(cl, k) == UNION {Predict(HoFrame(cl.ho_files), CellOf(cl, k), from, PlaceOf(cl, k)) :
                         from \in LastPlaces(cl, k - 1)}
Answers(cl, n) == IF FoundOf(cl, n) = {} THEN {Reserved} ELSE Made(cl, Latest(FoundOf(cl, n)))

\* c is a carrier that the first n rows have been applied to.
Knows(c, cl, n) == c.prev_location \in LastPlaces(cl, n) /\ c.ho_prediction \in Answers(cl, n)

\* c is a carrier that all rows before row n have been applied to, and the first
\* of the two requests of row n if level is 1, or both if it is 2.
Stage(c, cl, n, level) ==
    IF level = 2 THEN Knows(c, cl, n)
    ELSE Knows(c, cl, n - 1) /\ (level = 1 => c.current_cell = CellOf(cl, n))

\* The latest of the first n is n, if n is among them.
LEMMA LatestIs ==
  ASSUME NEW n \in Nat, NEW S, S \subseteq 1..n, n \in S
  PROVE  Latest(S) = n
<1>1. \A k \in S : k \in Int /\ k <= n
  OBVIOUS
<1>2. \A k \in S : (\A j \in S : j <= k) => k = n
  BY <1>1
<1>3. \A j \in S : j <= n
  BY <1>1
<1> QED
  BY <1>2, <1>3 DEF Latest

\* A slow row changes nothing.
LEMMA SlowRow ==
  ASSUME NEW cl, NEW n \in Nat \ {0}, n \notin FastOf(cl, n)
  PROVE  /\ FastOf(cl, n) = FastOf(cl, n - 1)
         /\ \A c : Knows(c, cl, n - 1) => Knows(c, cl, n)
<1>1. FastOf(cl, n) = FastOf(cl, n - 1)
  BY DEF FastOf
<1>2. FoundOf(cl, n) = FoundOf(cl, n - 1)
  BY <1>1 DEF FoundOf
<1> QED
  BY <1>1, <1>2, Zenon DEF Knows, LastPlaces, Answers

\* A fast row is the last one, with a handover nearby or without one.
LEMMA FastRow ==
  ASSUME NEW cl, NEW n \in Nat \ {0}, n \in FastOf(cl, n)
  PROVE  /\ LastPlaces(cl, n) = {PlaceOf(cl, n)}
         /\ Answers(cl, n) = IF Handovers(cl.ho_files, CellOf(cl, n), PlaceOf(cl, n)) = {}
                             THEN Answers(cl, n - 1) ELSE Made(cl, n)
<1>1. FastOf(cl, n) \subseteq 1..n /\ FoundOf(cl, n) \subseteq 1..n
  BY DEF FastOf, FoundOf
<1>2. LastPlaces(cl, n) = {PlaceOf(cl, n)}
  BY <1>1, LatestIs DEF LastPlaces
<1>3. CASE Handovers(cl.ho_files, CellOf(cl, n), PlaceOf(cl, n)) = {}
  <2>1. FastOf(cl, n) = FastOf(cl, n - 1) \cup {n}
    BY DEF FastOf
  <2>2. FoundOf(cl, n) = FoundOf(cl, n - 1)
    BY <1>3, <2>1 DEF FoundOf
  <2> QED
    BY <1>2, <1>3, <2>2 DEF Answers
<1>4. CASE Handovers(cl.ho_files, CellOf(cl, n), PlaceOf(cl, n)) # {}
  <2>1. n \in FoundOf(cl, n)
    BY <1>4 DEF FoundOf
  <2> QED
    BY <1>1, <1>2, <1>4, <2>1, LatestIs DEF Answers
<1> QED
  BY <1>3, <1>4

\* updateLocation for the location of a fast row.
LEMMA Advance ==
  ASSUME NEW cl, cl.ho_files \in Seq(File), Len(cl.ho_files) <= 1, FiveFields(cl.ho_files),
         NEW n \in Nat \ {0}, n \in FastOf(cl, n),
         CellOf(cl, n) \in Int, PlaceOf(cl, n) \in Location,
         NEW c, c.prev_location \in Location, Stage(c, cl, n, 1),
         NEW outcome \in Predict(HoFrame(cl.ho_files), CellOf(cl, n), c.prev_location, PlaceOf(cl, n)),
         DOMAIN c = {"ho_files", "current_cell", "prev_location", "ho_prediction"},
         c = [x \in DOMAIN c |-> c[x]]
  PROVE  Stage(Remember(c, PlaceOf(cl, n), outcome), cl, n, 2)
<1> DEFINE h == HoFrame(cl.ho_files)
           cell == CellOf(cl, n)
           to == PlaceOf(cl, n)
           from == c.prev_location
           H == Handovers(cl.ho_files, cell, to)
           new == Remember(c, to, outcome)
<1>1. HistoryOf(cl.ho_files, h)
  BY FiveFieldsFit
<1>2. Knows(c, cl, n - 1)
  BY DEF Stage
<1>3. SixColumns(h) /\ outcome \in Predict(h, cell, from, to)
  BY <1>1 DEF HistoryOf
<1>4. new.prev_location = to /\ new.ho_prediction = IF outcome = None THEN c.ho_prediction ELSE outcome
  BY DEF Remember
<1>5. H # {} => outcome \in Made(cl, n)
  BY <1>2, <1>3 DEF Made, Knows
<1> HIDE DEF h, cell, to, from, H, new
<1>6. Count(h, NearRows(cell, to)) = Cardinality(H)
  BY <1>1, HandoversAre DEF cell, to, H
<1>7. Cardinality(H) = 0 <=> H = {}
  BY <1>1, NoHandovers DEF H
<1>8. PredictsFrom(h, cell, from, to, outcome)
  BY <1>3, PredictIs DEF cell, to, from
<1>9. outcome = None <=> H = {}
  BY <1>6, <1>7, <1>8 DEF PredictsFrom
<1>10. LastPlaces(cl, n) = {to} /\ Answers(cl, n) = IF H = {} THEN Answers(cl, n - 1) ELSE Made(cl, n)
  BY FastRow DEF to, H, cell
<1>11. Knows(new, cl, n)
  BY <1>2, <1>4, <1>5, <1>9, <1>10 DEF Knows
<1> QED
  BY <1>11 DEF Stage, new, to
-----------------------------------------------------------------------------
\* Of the two requests of a row, how many have been drawn, and how many have been
\* applied to the carrier of the call.
Issued == IF dpc = "gps" THEN 1 ELSE IF dpc \in {"wait", "look"} THEN 2 ELSE 0
Base == total_jobs - Issued
Applied == Due[call.carrier] - 1 - Base

\* The requests after job base are the cell and the location of a row.
Kind(cr, base, r) == /\ r.jobid = base + 1 => r.type = "CELL" /\ r.carrier = cr
                     /\ r.jobid = base + 2 => r.type = "GPS"

InLoop == {"cell", "gps", "wait", "look"}
Live == {"initialize", "open", "row", "close"} \cup InLoop

\* The carrier is as far as its row and as the requests applied to it.
SeqInv ==
    dpc \in Live /\ FullLines =>
        /\ Base \in Nat /\ Applied \in 0 .. Issued
        /\ dpc # "initialize" => Stage(ce[call.carrier], call, row, Applied)
        /\ dpc \in InLoop => row \in FastOf(call, row)
        /\ Issued > 0 => values[Base + 1] = CellOf(call, row) /\ job[Owner] = total_jobs
        /\ Issued = 2 => values[Base + 2] = PlaceOf(call, row)
        /\ \A i \in 1 .. Len(requestQueue) : Kind(call.carrier, Base, requestQueue[i])
        /\ pc[Owner] = "push" => Kind(call.carrier, Base, req[Owner])

ValInv == FullLines /\ val # None => val.prediction \in Answers(call, val.row)

\* Nothing has been computed at the start.
LEMMA SeqInitially == DInit => SeqInv /\ ValInv
  BY DEF DInit, SeqInv, ValInv, Live, InLoop

\* The requests that may be in the queue after a step.
QueueMoves ==
    \/ requestQueue' \in {requestQueue, <<>>}
    \/ requestQueue # <<>> /\ requestQueue' = Tail(requestQueue)
    \/ /\ requestQueue' = Append(requestQueue, req[Owner])
       /\ pc[Owner] = "push" /\ req[Owner] \in UpdateRequest

\* The requests in the queue keep their kinds when the queue moves.
LEMMA KindsKept ==
  ASSUME NEW cr, NEW base, requestQueue \in Seq(UpdateRequest), QueueMoves,
         \A i \in 1 .. Len(requestQueue) : Kind(cr, base, requestQueue[i]),
         pc[Owner] = "push" => Kind(cr, base, req[Owner])
  PROVE  \A i \in 1 .. Len(requestQueue') : Kind(cr, base, requestQueue'[i])
<1> HIDE DEF Kind
<1>1. ASSUME requestQueue' \in {requestQueue, <<>>}
      PROVE  \A i \in 1 .. Len(requestQueue') : Kind(cr, base, requestQueue'[i])
  BY <1>1
<1>2. ASSUME requestQueue # <<>>, requestQueue' = Tail(requestQueue)
      PROVE  \A i \in 1 .. Len(requestQueue') : Kind(cr, base, requestQueue'[i])
  <2>1. Len(requestQueue') = Len(requestQueue) - 1 /\ Len(requestQueue) \in Nat
        /\ \A i \in 1 .. Len(requestQueue') : requestQueue'[i] = requestQueue[i + 1]
    BY <1>2
  <2>2. \A i \in 1 .. Len(requestQueue') : i + 1 \in 1 .. Len(requestQueue)
    BY <2>1
  <2>3. QED
    BY <2>1, <2>2
<1>3. ASSUME requestQueue' = Append(requestQueue, req[Owner]), pc[Owner] = "push",
             req[Owner] \in UpdateRequest
      PROVE  \A i \in 1 .. Len(requestQueue') : Kind(cr, base, requestQueue'[i])
  <2>1. /\ Len(requestQueue') = Len(requestQueue) + 1 /\ Len(requestQueue) \in Nat
        /\ requestQueue'[Len(requestQueue) + 1] = req[Owner]
        /\ \A i \in 1 .. Len(requestQueue) : requestQueue'[i] = requestQueue[i]
    BY <1>3
  <2>2. \A i \in 1 .. Len(requestQueue') : i = Len(requestQueue) + 1 \/ i \in 1 .. Len(requestQueue)
    BY <2>1
  <2>3. QED
    BY <1>3, <2>1, <2>2
<1>4. QED
  BY <1>1, <1>2, <1>3 DEF QueueMoves

\* A step that neither draws a request nor applies one to the carrier, nor goes
\* to another row.
LEMMA SeqKept ==
  ASSUME SeqInv, requestQueue \in Seq(UpdateRequest),
         UNCHANGED <<program, run, row, values, ce, total_jobs, req>>,
         QueueMoves, pc'[Owner] = "push" => pc[Owner] = "push",
         Due'[call.carrier] = Due[call.carrier], job'[Owner] = job[Owner],
         dpc' \in Live => /\ dpc \in Live /\ Issued' = Issued
                          /\ dpc' # "initialize" => dpc # "initialize"
                          /\ dpc' \in InLoop => dpc \in InLoop
  PROVE  SeqInv'
<1>1. call' = call /\ FullLines' = FullLines
  BY DEF call, FullLines
<1> SUFFICES ASSUME dpc' \in Live, FullLines PROVE SeqInv'
  BY <1>1 DEF SeqInv
<1>2. /\ dpc \in Live /\ Issued' = Issued
      /\ dpc' # "initialize" => dpc # "initialize"
      /\ dpc' \in InLoop => dpc \in InLoop
  OBVIOUS
<1>3. Base' = Base /\ Applied' = Applied
  BY <1>1, <1>2 DEF Base, Applied
<1> HIDE DEF call, FullLines, Live, InLoop, Issued, Base, Applied, Stage, Kind
<1>4. /\ Base \in Nat /\ Applied \in 0 .. Issued
      /\ dpc # "initialize" => Stage(ce[call.carrier], call, row, Applied)
      /\ dpc \in InLoop => row \in FastOf(call, row)
      /\ Issued > 0 => values[Base + 1] = CellOf(call, row) /\ job[Owner] = total_jobs
      /\ Issued = 2 => values[Base + 2] = PlaceOf(call, row)
      /\ \A i \in 1 .. Len(requestQueue) : Kind(call.carrier, Base, requestQueue[i])
      /\ pc[Owner] = "push" => Kind(call.carrier, Base, req[Owner])
  BY <1>2 DEF SeqInv
<1>5. \A i \in 1 .. Len(requestQueue') : Kind(call.carrier, Base, requestQueue'[i])
  BY <1>4, KindsKept
<1>6. /\ Base' \in Nat /\ Applied' \in 0 .. Issued'
      /\ dpc' # "initialize" => Stage(ce'[call'.carrier], call', row', Applied')
      /\ dpc' \in InLoop => row' \in FastOf(call', row')
  BY <1>1, <1>2, <1>3, <1>4
<1>7. /\ Issued' > 0 => values'[Base' + 1] = CellOf(call', row') /\ job'[Owner] = total_jobs'
      /\ Issued' = 2 => values'[Base' + 2] = PlaceOf(call', row')
  BY <1>1, <1>2, <1>3, <1>4
<1>8. /\ \A i \in 1 .. Len(requestQueue') : Kind(call'.carrier, Base', requestQueue'[i])
      /\ pc'[Owner] = "push" => Kind(call'.carrier, Base', req'[Owner])
  BY <1>1, <1>3, <1>4, <1>5
<1> QED
  BY <1>6, <1>7, <1>8 DEF SeqInv

\* A field of a full line.
LEMMA FieldIs ==
  ASSUME MainInv, run <= Len(program), FullLines, row \in 1 .. Len(call.trace), NEW i \in 1 .. 10
  PROVE  /\ block[i + 1] = call.trace[row][i]
         /\ get(block, i) = {call.trace[row][i]}
<1> DEFINE line == call.trace[row]
<1>1. Len(line) = 10
  BY TraceIs DEF FullLines
<1>2. Len(block) = Len(line) + 1 /\ \A j \in 1 .. Len(line) : block[j + 1] = line[j]
  BY BlockIs
<1> HIDE DEF line, block
<1>3. block[i + 1] = line[i] /\ Len(block) = 11
  BY <1>1, <1>2
<1> QED
  BY <1>3 DEF get, line

\* While a request waits that has not been applied to the carrier yet, it is the
\* next one of the row.
LEMMA HeadKind ==
  ASSUME IInv, MainInv, SeqInv, dpc \in Live, FullLines, requestQueue # <<>>,
         Due[call.carrier] = Popped + 1
  PROVE  /\ Applied \in {0, 1} /\ Applied < Issued
         /\ Head(requestQueue).jobid = Base + Applied + 1
         /\ Applied = 0 => Head(requestQueue).type = "CELL" /\ Head(requestQueue).carrier = call.carrier
         /\ Applied = 1 => Head(requestQueue).type = "GPS"
<1> DEFINE r == Head(requestQueue)
<1>1. r.jobid = Popped + 1
  BY HeadIsNext DEF IInv
<1>2. /\ 1 \in 1 .. Len(requestQueue) /\ r = requestQueue[1] /\ Len(requestQueue) \in Nat
  BY DEF IInv, TypeOK
<1>3. /\ Popped \in Int /\ Pushed \in Int /\ total_jobs \in Nat /\ Pushed <= total_jobs
      /\ Popped = Pushed - Len(requestQueue)
  BY CountTypes DEF IInv
<1>4. Issued \in {0, 1, 2} /\ Base = total_jobs - Issued /\ Applied = Popped - Base
  BY <1>3 DEF Issued, Base, Applied
<1>5. Applied \in 0 .. Issued /\ Kind(call.carrier, Base, r)
  BY <1>2 DEF SeqInv
<1> HIDE DEF r, Popped, Pushed, Issued, Base, Applied, call
<1>6. Popped + 1 <= total_jobs
  BY <1>2, <1>3
<1>7. Applied < Issued /\ r.jobid = Base + Applied + 1
  BY <1>1, <1>3, <1>4, <1>6
<1>8. Applied \in {0, 1}
  BY <1>4, <1>5, <1>7
<1>9. Applied = 0 => r.jobid = Base + 1
  BY <1>3, <1>4, <1>7
<1>10. Applied = 1 => r.jobid = Base + 2
  BY <1>3, <1>4, <1>7
<1> QED
  BY <1>5, <1>7, <1>8, <1>9, <1>10 DEF Kind, r

\* The steps that leave all requests where they are, or queue one, or pop one.
LEMMA IdleMoves ==
  ASSUME IInv, IdleStep \/ Push(Owner)
  PROVE  Due' = Due
<1>0. Owner \in Clients
  BY ContextAssumption
<1>1. CASE IdleStep
  BY <1>1, IdleDue DEF IInv
<1>2. CASE Push(Owner)
  <2>1. UNCHANGED <<mainpc, todo>> /\ Popped' = Popped
    BY <1>0, <1>2, PushCounts DEF IInv, Push, mainVars
  <2> QED
    BY <2>1, SameDue
<1> QED
  BY <1>1, <1>2

\* The first steps of a call.
LEMMA SeqCreate ==
  ASSUME IInv, MainInv, Create \/ InitializeCarrier,
         PlaceInv, CarInv, SeqInv
  PROVE  SeqInv'
<1>0. Owner \in Clients
  BY ContextAssumption
<1>1. CASE Create
  <2>1. run <= Len(program) /\ UNCHANGED <<program, run>> /\ dpc' = "initialize" /\ GetDatabaseContext
    BY <1>1 DEF Create, Move
  <2>2. call' = call /\ call.carrier \in Carriers
    BY <2>1, CallIs DEF call
  <2>3. /\ Popped' = total_jobs /\ total_jobs' = total_jobs /\ requestQueue' = <<>>
        /\ mainpc' = "start" /\ pc'[Owner] = "idle" /\ total_jobs \in Nat
    BY <1>0, <2>1, NewContext DEF IInv, TypeOK
  <2>4. Due'[call.carrier] = total_jobs + 1
    BY <2>2, <2>3 DEF Due
  <2>5. Issued' = 0
    BY <2>1 DEF Issued
  <2>6. Base' = total_jobs /\ Applied' = 0
    BY <2>2, <2>3, <2>4, <2>5 DEF Base, Applied
  <2> HIDE DEF Base, Applied, Issued, Stage, Kind, call
  <2>7. \A i \in 1 .. Len(requestQueue') : FALSE
    BY <2>3
  <2> QED
    BY <2>1, <2>3, <2>5, <2>6, <2>7 DEF SeqInv, InLoop
<1>2. CASE InitializeCarrier
  <2>1. /\ run <= Len(program) /\ UNCHANGED <<program, run, row, values>> /\ dpc = "initialize"
        /\ dpc' = "open" /\ Initialize(call.carrier) /\ row = 1
    BY <1>2 DEF InitializeCarrier, Move, MainInv, PlaceInv, localVars
  <2>2. call' = call /\ FullLines' = FullLines /\ call.carrier \in Carriers
    BY <2>1, CallIs DEF call, FullLines
  <2>3. UNCHANGED <<requestQueue, total_jobs, req, mainpc, todo, pc>>
    BY <2>1 DEF Initialize, mainVars, clientVars
  <2>4. Due' = Due
    <3>1. Popped' = Popped
      BY <2>1, <2>2, RestFrame DEF Rest, IInv
    <3> QED
      BY <2>3, <3>1, SameDue
  <2>5. Issued' = 0 /\ Issued = 0
    BY <2>1 DEF Issued
  <2>6. Base' = Base /\ Applied' = Applied
    BY <2>2, <2>3, <2>4, <2>5 DEF Base, Applied
  <2>7. PICK place \in Places :
          ce' = [cr \in Carriers |->
                     IF cr = call.carrier
                     THEN [ho_files |-> call.ho_files, current_cell |-> 0,
                           prev_location |-> place, ho_prediction |-> Reserved]
                     ELSE None]
    BY <1>2 DEF InitializeCarrier
  <2> HIDE DEF Reserved, call
  <2>8. ce'[call.carrier].prev_location \in Places /\ ce'[call.carrier].ho_prediction = Reserved
    BY <2>2, <2>7
  <2>9. Knows(ce'[call.carrier], call, 0)
    <3>1. FastOf(call, 0) = {}
      BY DEF FastOf
    <3>2. FoundOf(call, 0) = {}
      BY <3>1 DEF FoundOf
    <3> QED
      BY <2>8, <3>1, <3>2 DEF Knows, LastPlaces, Answers
  <2>10. Stage(ce'[call.carrier], call, row, 0)
    <3>1. row - 1 = 0
      BY <2>1
    <3> QED
      BY <2>9, <3>1 DEF Stage
  <2> SUFFICES ASSUME FullLines PROVE SeqInv'
    BY <2>2 DEF SeqInv
  <2>11. /\ Base \in Nat /\ Applied \in 0 .. Issued
         /\ \A i \in 1 .. Len(requestQueue) : Kind(call.carrier, Base, requestQueue[i])
         /\ pc[Owner] = "push" => Kind(call.carrier, Base, req[Owner])
    BY <2>1 DEF SeqInv, Live
  <2> HIDE DEF Base, Applied, Issued, Stage, Kind
  <2>12. Applied = 0
    BY <2>5, <2>11
  <2> QED
    BY <2>1, <2>2, <2>3, <2>5, <2>6, <2>10, <2>11, <2>12 DEF SeqInv, InLoop
<1> QED
  BY <1>1, <1>2

\* The step to the next row.
LEMMA SeqNextRow ==
  ASSUME IInv, MainInv, PlaceInv, CarInv, SeqInv, NextRow
  PROVE  SeqInv'
<1>1. UNCHANGED <<program, run, database>> /\ dpc = "row" /\ run <= Len(program)
  BY DEF NextRow, MainInv
<1>2. UNCHANGED <<values, ce, total_jobs, req, requestQueue, pc, job>> /\ Due' = Due
      /\ requestQueue \in Seq(UpdateRequest)
  <2>1. UNCHANGED vars
    BY <1>1 DEF database
  <2> QED
    BY <1>1, <2>1, IdleMoves DEF database, vars, IdleStep, IInv, TypeOK
<1>3. call' = call /\ FullLines' = FullLines
  BY <1>1 DEF call, FullLines
<1>4. rows(df) = Len(call.trace) /\ row \in Nat \ {0} /\ Len(call.trace) \in Nat
  BY <1>1, TraceIs DEF PlaceInv
<1>5. Issued = 0
  BY <1>1 DEF Issued
<1>6. CASE dpc' \in {"close", "terminated"} /\ row' = row
  <2>1. QueueMoves /\ (dpc' \in Live => dpc' = "close")
    BY <1>2, <1>6 DEF QueueMoves, Live, InLoop
  <2>2. Issued' = 0
    BY <1>6 DEF Issued
  <2>3. dpc' # "initialize" /\ dpc' \notin InLoop /\ dpc \in Live
    BY <1>1, <1>6 DEF InLoop, Live
  <2> HIDE DEF Live, InLoop
  <2> QED
    BY <1>1, <1>2, <1>5, <1>6, <2>1, <2>2, <2>3, SeqKept
<1>7. ASSUME FullLines, row <= rows(df), NEW speed \in get(block, 3), dpc' \in {"row", "cell"},
             IF speed = NaN \/ speed >= MinSpeed THEN dpc' = "cell" /\ row' = row
             ELSE dpc' = "row" /\ row' = row + 1
      PROVE  SeqInv'
  <2>1. speed = call.trace[row][3]
    BY <1>1, <1>4, <1>7, FieldIs
  <2>2. row \in FastOf(call, row) <=> (speed = NaN \/ speed >= MinSpeed)
    BY <1>4, <2>1 DEF FastOf
  <2>3. /\ Base \in Nat /\ Applied = 0 /\ Stage(ce[call.carrier], call, row, Applied)
        /\ \A i \in 1 .. Len(requestQueue) : Kind(call.carrier, Base, requestQueue[i])
        /\ pc[Owner] = "push" => Kind(call.carrier, Base, req[Owner])
    BY <1>1, <1>5, <1>7 DEF SeqInv, Live
  <2>4. Issued' = 0
    BY <1>7 DEF Issued
  <2>5. Base' = Base /\ Applied' = Applied
    BY <1>2, <1>3, <1>5, <2>4 DEF Base, Applied
  <2> HIDE DEF Base, Applied, Issued, Kind, call, FullLines
  <2>6. dpc' # "row" => row' = row /\ row \in FastOf(call, row)
    BY <1>7, <2>2
  <2>7. Stage(ce[call.carrier], call, row', Applied)
    <3>1. CASE row' = row
      BY <2>3, <3>1
    <3>2. CASE row' = row + 1 /\ row \notin FastOf(call, row)
      <4>1. Knows(ce[call.carrier], call, row - 1)
        BY <2>3 DEF Stage
      <4>2. Knows(ce[call.carrier], call, row)
        BY <1>4, <3>2, <4>1, SlowRow
      <4>3. row' - 1 = row
        BY <1>4, <3>2
      <4> QED
        BY <2>3, <4>2, <4>3 DEF Stage
    <3> QED
      BY <1>7, <2>2, <3>1, <3>2
  <2> HIDE DEF Stage
  <2>8. dpc' \in InLoop => dpc' # "row"
    BY DEF InLoop
  <2> QED
    BY <1>1, <1>2, <1>3, <2>3, <2>4, <2>5, <2>6, <2>7, <2>8 DEF SeqInv
<1>8. CASE ~FullLines
  BY <1>3, <1>8 DEF SeqInv
<1>9. \/ dpc' \in {"close", "terminated"} /\ row' = row
      \/ /\ row <= rows(df) /\ dpc' \in {"row", "cell"}
         /\ \E speed \in get(block, 3) :
               IF speed = NaN \/ speed >= MinSpeed THEN dpc' = "cell" /\ row' = row
               ELSE dpc' = "row" /\ row' = row + 1
  <2>1. NaN \notin Int /\ MinSpeed \in Int
    BY FramesAssumption, DriverAssumption
  <2> HIDE DEF get, block, df, rows
  <2> QED
    BY <2>1 DEF NextRow
<1> QED
  BY <1>6, <1>7, <1>8, <1>9

\* A request of the row is drawn, with its value.
LEMMA SeqDrawn ==
  ASSUME IInv, ValuesInv, SeqInv, FullLines, dpc \in InLoop,
         NEW type \in RequestType, NEW cr \in Carriers \cup {NoCarrier},
         MayCall(Owner), DrawJobid(Owner, type, cr), type = "GPS" => cr = NoCarrier, type # "STOP",
         NEW v \in AnyValue, values' = Append(values, v),
         UNCHANGED <<program, run, row, ce>>, row \in FastOf(call, row),
         Issued' = Issued + 1,
         \/ dpc = "cell" /\ dpc' = "gps" /\ type = "CELL" /\ cr = call.carrier /\ v = CellOf(call, row)
         \/ dpc = "gps" /\ dpc' = "wait" /\ type = "GPS" /\ v = PlaceOf(call, row)
  PROVE  SeqInv'
<1>1. Draw(Owner) /\ Owner \in Clients /\ DOMAIN req = Clients /\ DOMAIN job = Clients
  BY ContextAssumption DEF Draw, IInv, TypeOK
<1>2. Due' = Due
  BY <1>1, IdleMoves DEF IdleStep
<1>3. /\ total_jobs' = total_jobs + 1 /\ requestQueue' = requestQueue /\ total_jobs \in Nat
      /\ req'[Owner] = [type |-> type, carrier |-> cr, jobid |-> total_jobs + 1]
      /\ job'[Owner] = total_jobs + 1
  BY <1>1 DEF DrawJobid, IInv, TypeOK
<1>4. call' = call
  BY DEF call
<1>5. Issued \in {0, 1} /\ (dpc = "cell" => Issued = 0) /\ (dpc = "gps" => Issued = 1)
  BY DEF Issued
<1>6. Base' = Base /\ Applied' = Applied
  <2> HIDE DEF Issued, Due, call
  <2>1. Base' = Base
    BY <1>3, <1>5 DEF Base
  <2> QED
    BY <1>2, <1>4, <2>1 DEF Applied
<1>7. Base = total_jobs - Issued
  BY DEF Base
<1>8. /\ values' \in Seq(AnyValue) /\ values'[total_jobs + 1] = v
      /\ \A i \in 1 .. total_jobs : values'[i] = values[i]
  <2>1. values \in Seq(AnyValue) /\ Len(values) = total_jobs
    BY DEF ValuesInv
  <2> HIDE DEF AnyValue
  <2> QED
    BY <2>1
<1>9. /\ Base \in Nat /\ Applied \in 0 .. Issued
      /\ Stage(ce[call.carrier], call, row, Applied)
      /\ Issued > 0 => values[Base + 1] = CellOf(call, row)
      /\ \A i \in 1 .. Len(requestQueue) : Kind(call.carrier, Base, requestQueue[i])
  BY DEF SeqInv, Live, InLoop
<1> HIDE DEF Base, Applied, Issued, call, Stage, FullLines, CellOf, PlaceOf, DrawJobid
<1>10. CASE dpc = "cell"
  <2>1. Base + 1 = total_jobs + 1 /\ Issued' = 1 /\ v = CellOf(call, row)
    BY <1>3, <1>5, <1>7, <1>10
  <2>2. Kind(call.carrier, Base, req'[Owner])
    <3>1. Base + 2 # total_jobs + 1
      BY <1>9, <2>1
    <3> QED
      BY <1>3, <1>10, <2>1, <3>1 DEF Kind
  <2>3. Applied \in 0 .. Issued'
    BY <1>5, <1>9, <1>10, <2>1
  <2>4. values'[Base + 1] = CellOf(call, row)
    BY <1>8, <2>1
  <2>5. Issued' # 2
    BY <2>1
  <2> HIDE DEF Kind
  <2> QED
    BY <1>3, <1>4, <1>6, <1>9, <2>2, <2>3, <2>4, <2>5 DEF SeqInv
<1>11. CASE dpc = "gps"
  <2>1. /\ Base + 2 = total_jobs + 1 /\ Base + 1 = total_jobs /\ Issued' = 2 /\ Issued = 1
        /\ v = PlaceOf(call, row)
    BY <1>3, <1>5, <1>7, <1>11
  <2>2. Kind(call.carrier, Base, req'[Owner])
    <3>1. Base + 1 # total_jobs + 1
      BY <1>3, <2>1
    <3> QED
      BY <1>3, <1>11, <2>1, <3>1 DEF Kind
  <2>3. Applied \in 0 .. Issued'
    BY <1>9, <2>1
  <2>4. total_jobs \in 1 .. total_jobs
    BY <1>3, <1>9, <2>1
  <2>5. values'[Base + 1] = CellOf(call, row)
    <3>1. values'[total_jobs] = values[total_jobs]
      BY <1>8, <2>4
    <3>2. values[Base + 1] = CellOf(call, row)
      BY <1>9, <2>1
    <3> QED
      BY <2>1, <3>1, <3>2
  <2> HIDE DEF Kind
  <2> QED
    BY <1>3, <1>4, <1>6, <1>8, <1>9, <2>1, <2>2, <2>3, <2>5 DEF SeqInv
<1> QED
  BY <1>10, <1>11

\* An upload keeps the carrier where the sequential program was before it.
LEMMA SeqUpload ==
  ASSUME IInv, MainInv, PlaceInv, ValuesInv, CarInv, SeqInv,
         UploadCell \/ UploadGPS
  PROVE  SeqInv'
<1>1. dpc \in {"cell", "gps"} /\ run <= Len(program) /\ row \in 1 .. Len(call.trace)
  BY DEF UploadCell, UploadGPS, Move, MainInv, PlaceInv
<1>2. CASE dpc' = "terminated"
  BY <1>2 DEF SeqInv, Live, InLoop
<1>3. UNCHANGED <<program, run>> /\ FullLines' = FullLines
  BY DEF UploadCell, UploadGPS, Terminate, localVars, FullLines, call
<1>4. CASE ~FullLines
  BY <1>3, <1>4 DEF SeqInv
<1>5. CASE FullLines /\ UploadCell /\ dpc' # "terminated"
  <2>1. PICK cell \in get(block, 10) :
             /\ cell # Failed
             /\ UpdateCellID(Owner, call.carrier)
             /\ values' = Append(values, ToCid(cell))
             /\ dpc' = "gps"
             /\ UNCHANGED <<program, run, localVars, ce>>
    BY <1>5 DEF UploadCell, Terminate
  <2>2. ToCid(cell) = CellOf(call, row)
    BY <1>1, <1>5, <2>1, FieldIs DEF CellOf
  <2>3. block \in Block
    BY <1>1, BlockIs
  <2> HIDE DEF block, call
  <2>4. cell \in Double
    BY <2>1, <2>3, GetMay
  <2>5. ToCid(cell) \in AnyValue
    BY <2>4, DriverAssumption DEF ToCid, Double, AnyValue
  <2>6. /\ MayCall(Owner) /\ DrawJobid(Owner, "CELL", call.carrier)
        /\ UNCHANGED row /\ dpc = "cell"
    BY <1>5, <2>1 DEF UpdateCellID, localVars, UploadCell
  <2>7. call.carrier \in Carriers /\ dpc \in InLoop /\ Issued' = Issued + 1
    BY <1>1, <2>1, <2>6, CallIs DEF InLoop, Issued
  <2>8. row \in FastOf(call, row)
    BY <1>5, <2>7 DEF SeqInv, Live
  <2> HIDE DEF DrawJobid, FullLines, Live, InLoop, Issued, AnyValue, CellOf, PlaceOf, FastOf, MayCall
  <2> QED
    BY <1>5, <2>1, <2>2, <2>5, <2>6, <2>7, <2>8, SeqDrawn DEF RequestType
<1>6. CASE FullLines /\ UploadGPS
  <2> DEFINE v == [lng |-> block[2], lat |-> block[3], time |-> block[9]]
  <2>1. dpc = "gps" /\ dpc' = "wait" /\ values' = Append(values, v) /\ DrawJobid(Owner, "GPS", NoCarrier)
        /\ MayCall(Owner) /\ UNCHANGED <<row, ce>>
    BY <1>6 DEF UploadGPS, UpdateGPS, Move, localVars
  <2>2. v = PlaceOf(call, row)
    <3>1. block[1 + 1] = call.trace[row][1]
      BY <1>1, <1>6, FieldIs
    <3>2. block[2 + 1] = call.trace[row][2]
      BY <1>1, <1>6, FieldIs
    <3>3. block[8 + 1] = call.trace[row][8]
      BY <1>1, <1>6, FieldIs
    <3>4. 1 + 1 = 2 /\ 2 + 1 = 3 /\ 8 + 1 = 9
      OBVIOUS
    <3> HIDE DEF block, call
    <3> QED
      BY <3>1, <3>2, <3>3, <3>4, Zenon DEF PlaceOf
  <2>3. v \in Location
    <3>1. run \in DOMAIN program /\ row \in DOMAIN call.trace
      BY <1>1, TraceIs, DriverAssumption, SMTT(30) DEF MainInv
    <3>2. Len(call.trace[row]) >= 8
      <4>1. Len(call.trace[row]) = 10
        BY <1>6, <3>1 DEF FullLines
      <4> HIDE DEF call
      <4> QED
        BY <4>1
    <3>3. {call.trace[row][1], call.trace[row][2], call.trace[row][8]} \subseteq Int
      BY <3>1, <3>2, DriverAssumption DEF MainInv, call
    <3> QED
      BY <2>2, <3>3 DEF PlaceOf, Location
  <2> HIDE DEF v
  <2>4. v \in AnyValue /\ dpc \in InLoop /\ Issued' = Issued + 1
    BY <2>1, <2>3 DEF AnyValue, InLoop, Issued
  <2>5. row \in FastOf(call, row)
    BY <1>6, <2>4 DEF SeqInv, Live
  <2> HIDE DEF DrawJobid, FullLines, Live, InLoop, Issued, AnyValue, CellOf, PlaceOf, FastOf, MayCall
  <2> QED
    BY <1>3, <1>6, <2>1, <2>2, <2>4, <2>5, SeqDrawn DEF RequestType
<1> QED
  BY <1>2, <1>4, <1>5, <1>6

\* The prediction is looked at when both requests of the row have been applied.
LEMMA SeqLook ==
  ASSUME ~TornRead, IInv, MainInv, PlaceInv, CarInv, SeqInv, Look
  PROVE  /\ SeqInv'
         /\ FullLines => ce[call.carrier].ho_prediction \in Answers(call, row)
<1>0. Owner \in Clients
  BY ContextAssumption
<1>1. /\ dpc = "look" /\ pc[Owner] = "waited" /\ UNCHANGED <<program, run, database>>
      /\ \/ dpc' = "row" /\ row' = row + 1
         \/ dpc' = "terminated" /\ row' = row
  BY LookMoves DEF PlaceInv, Outside
<1>2. UNCHANGED <<values, ce, total_jobs, req, requestQueue, pc, job>> /\ Due' = Due
  <2>1. UNCHANGED vars
    BY <1>1 DEF database
  <2> QED
    BY <1>1, <2>1, IdleMoves DEF database, vars, IdleStep
<1>3. call' = call /\ FullLines' = FullLines /\ run <= Len(program)
  BY <1>1 DEF call, FullLines, MainInv
<1>4. call.carrier \in Carriers /\ row \in Nat \ {0}
  BY <1>3, CallIs DEF PlaceInv
<1> SUFFICES ASSUME FullLines PROVE SeqInv' /\ ce[call.carrier].ho_prediction \in Answers(call, row)
  BY <1>3 DEF SeqInv
<1>5. Issued = 2
  BY <1>1 DEF Issued
<1>6. /\ Base \in Nat /\ Applied \in 0 .. 2 /\ Stage(ce[call.carrier], call, row, Applied)
      /\ job[Owner] = total_jobs
  BY <1>1, <1>5 DEF SeqInv, Live, InLoop
<1>7. job[Owner] <= Popped
  BY <1>0, <1>1 DEF IInv, WaitedInv
<1>8. /\ Popped \in Int /\ Pushed \in Int /\ total_jobs \in Nat /\ Pushed <= total_jobs
      /\ Popped = Pushed - Len(requestQueue) /\ Len(requestQueue) \in Nat
  BY CountTypes DEF IInv
<1>9. Due[call.carrier] \in {Popped + 1, Popped + 2}
  BY <1>4 DEF Due
<1>10. Base = total_jobs - 2 /\ Applied = Due[call.carrier] - 1 - Base
  BY <1>5 DEF Base, Applied
<1> HIDE DEF Popped, Pushed, Due, Base, Applied, call, Issued, Stage, Kind
<1>11. Applied = 2 /\ Due[call.carrier] = total_jobs + 1 /\ Pushed = total_jobs
  BY <1>6, <1>7, <1>8, <1>9, <1>10
<1>12. Knows(ce[call.carrier], call, row)
  BY <1>6, <1>11 DEF Stage
<1>13. ce[call.carrier].ho_prediction \in Answers(call, row)
  BY <1>12 DEF Knows
<1>14. CASE dpc' = "terminated"
  BY <1>13, <1>14 DEF SeqInv, Live, InLoop
<1>15. CASE dpc' = "row" /\ row' = row + 1
  <2>1. Issued' = 0
    BY <1>15 DEF Issued
  <2>2. Base' = total_jobs /\ Applied' = 0
    BY <1>2, <1>3, <1>8, <1>11, <2>1 DEF Base, Applied
  <2>3. Stage(ce[call.carrier], call, row', 0)
    <3>1. row' - 1 = row
      BY <1>4, <1>15
    <3> QED
      BY <1>12, <3>1 DEF Stage
  <2>4. ASSUME NEW i \in 1 .. Len(requestQueue)
        PROVE  Kind(call.carrier, total_jobs, requestQueue[i])
    <3>1. requestQueue[i].jobid = Popped + i
      BY DEF IInv, QueueInv
    <3>2. requestQueue[i].jobid <= total_jobs
      BY <1>8, <3>1
    <3>3. requestQueue[i].jobid # total_jobs + 1 /\ requestQueue[i].jobid # total_jobs + 2
      BY <1>8, <3>1, <3>2
    <3> QED
      BY <3>3 DEF Kind
  <2> QED
    BY <1>1, <1>2, <1>3, <1>8, <1>13, <1>15, <2>1, <2>2, <2>3, <2>4 DEF SeqInv, InLoop
<1> QED
  BY <1>1, <1>14, <1>15

\* mainLoop begins with a request: the carrier is among those it is for.
LEMMA SeqTop ==
  ASSUME IInv, MainInv, PlaceInv, CarInv, SeqInv, Top, UNCHANGED <<mainThread, values, ce>>
  PROVE  SeqInv'
<1>1. /\ UNCHANGED <<carriers, requestQueue, total_jobs, pc, req, job>> /\ requestQueue # <<>>
      /\ mainpc = "top" /\ mainpc' = "switch" /\ todo' = Targets(Head(requestQueue))
  BY DEF Top, clientVars
<1>2. UNCHANGED <<program, run, row, dpc>>
  BY DEF mainThread, localVars
<1>3. Popped' = Popped
  BY RestFrame DEF Rest, IInv
<1>4. CASE ~FullLines \/ dpc \notin Live
  BY <1>2, <1>4 DEF SeqInv, FullLines, call
<1>5. CASE FullLines /\ dpc \in Live
  <2>1. run <= Len(program)
    BY <1>5 DEF Live, InLoop, MainInv
  <2>2. call.carrier \in Carriers /\ call' = call
    BY <1>2, <2>1, CallIs DEF call
  <2>3. Due[call.carrier] = Popped + 1
    BY <1>1, <2>2 DEF Due
  <2>4. /\ Applied \in {0, 1} /\ Applied < Issued
        /\ Applied = 0 => Head(requestQueue).type = "CELL" /\ Head(requestQueue).carrier = call.carrier
        /\ Applied = 1 => Head(requestQueue).type = "GPS"
    BY <1>1, <1>5, <2>3, HeadKind
  <2>5. dpc \in {"gps", "wait", "look"}
    BY <2>4 DEF Issued
  <2>6. call.carrier \in carriers
    BY <2>5 DEF CarInv
  <2>7. call.carrier \in todo'
    BY <1>1, <2>4, <2>6 DEF Targets
  <2>8. Due'[call.carrier] = Due[call.carrier]
    BY <1>1, <1>3, <2>2, <2>3, <2>7 DEF Due
  <2>9. Issued' = Issued /\ requestQueue \in Seq(UpdateRequest) /\ QueueMoves
    BY <1>1, <1>2 DEF Issued, IInv, TypeOK, QueueMoves
  <2> HIDE DEF Due, Issued, Live, InLoop, call, QueueMoves
  <2> QED
    BY <1>1, <1>2, <1>5, <2>8, <2>9, SeqKept
<1> QED
  BY <1>4, <1>5

\* The request at work is applied to the carrier of the call: what it is, and
\* where the carrier is after it.
LEMMA SeqProcess ==
  ASSUME IInv, MainInv, PlaceInv, CarInv, SeqInv, dpc \in Live, FullLines,
         Process(call.carrier), UNCHANGED <<mainThread, values>>,
         Stage(ce'[call.carrier], call, row, Applied + 1)
  PROVE  SeqInv'
<1>1. /\ UNCHANGED <<requestQueue, total_jobs, pc, req, job>>
      /\ mainpc = "switch" /\ mainpc' = "switch" /\ todo' = todo \ {call.carrier}
      /\ call.carrier \in todo
  BY DEF Process, ProcessGPS, ProcessCell, clientVars
<1>2. UNCHANGED <<program, run, row, dpc>>
  BY DEF mainThread, localVars
<1>3. run <= Len(program)
  BY DEF Live, InLoop, MainInv
<1>4. call.carrier \in Carriers /\ call' = call /\ FullLines' = FullLines
  BY <1>2, <1>3, CallIs DEF call, FullLines
<1>5. Popped' = Popped /\ Popped \in Nat
  BY <1>4, RestFrame DEF Rest, IInv, QueueInv
<1>6. Due[call.carrier] = Popped + 1 /\ Due'[call.carrier] = Popped + 2
  BY <1>1, <1>4, <1>5 DEF Due
<1>7. Applied \in {0, 1} /\ Applied < Issued
  BY <1>1, <1>6, HeadKind DEF IInv, RequestInv
<1>8. Issued' = Issued /\ Issued \in 0 .. 2
  BY <1>2 DEF Issued
<1>9. Base' = Base /\ Base \in Nat
  BY <1>1, <1>8 DEF Base, SeqInv
<1>10. Applied' = Applied + 1
  BY <1>4, <1>5, <1>6, <1>9 DEF Applied
<1>11. Applied' \in 0 .. Issued'
  BY <1>7, <1>8, <1>10
<1>12. dpc \in {"gps", "wait", "look"}
  BY <1>7 DEF Issued
<1>13. /\ row \in FastOf(call, row)
       /\ Issued > 0 => values[Base + 1] = CellOf(call, row) /\ job[Owner] = total_jobs
       /\ Issued = 2 => values[Base + 2] = PlaceOf(call, row)
       /\ \A i \in 1 .. Len(requestQueue) : Kind(call.carrier, Base, requestQueue[i])
       /\ pc[Owner] = "push" => Kind(call.carrier, Base, req[Owner])
  BY <1>12 DEF SeqInv, InLoop
<1> HIDE DEF Base, Applied, Issued, Stage, Kind, call, FullLines, CellOf, PlaceOf, FastOf, Due, Popped, Process
<1> QED
  BY <1>1, <1>2, <1>4, <1>8, <1>9, <1>10, <1>11, <1>13 DEF SeqInv

\* A cell that is processed brings the carrier where the sequential program is.
LEMMA SeqUpdateCell ==
  ASSUME IInv, TodoInv, MainInv, PlaceInv, CarInv, SeqInv, Running,
         NEW cr \in Carriers, UpdateCell(cr)
  PROVE  SeqInv'
<1>1. /\ mainpc = "switch" /\ request.type = "CELL" /\ cr \in todo /\ ProcessCell(cr)
      /\ ce' = [ce EXCEPT ![cr].current_cell = values[request.jobid]]
      /\ UNCHANGED <<program, run, row, dpc, mainThread, values>>
  BY DEF UpdateCell, ProcessCell, mainThread, localVars
<1>2. CASE ~FullLines \/ dpc \notin Live
  BY <1>1, <1>2 DEF SeqInv, FullLines, call
<1>3. CASE FullLines /\ dpc \in Live
  <2>1. pDBContext /\ requestQueue # <<>> /\ request = Head(requestQueue)
    BY <1>1 DEF IInv, StopInv, RequestInv
  <2>2. cr \in carriers
    BY <1>1 DEF TodoInv, Targets
  <2>3. dpc \notin {"create", "initialize", "terminated", "undefined"}
    BY <2>1, <2>2 DEF PlaceInv, Running, CarInv
  <2>4. DOMAIN ce = Carriers /\ CarOf(ce, call) /\ cr = call.carrier
    BY <2>2, <2>3 DEF CarInv
  <2>5. Due[cr] = Popped + 1
    BY <1>1 DEF Due
  <2>6. /\ Applied \in {0, 1} /\ Applied < Issued
        /\ Head(requestQueue).jobid = Base + Applied + 1
        /\ Applied = 1 => Head(requestQueue).type = "GPS"
    BY <1>3, <2>1, <2>4, <2>5, HeadKind
  <2>7. Applied = 0 /\ Base \in Nat
    BY <1>1, <1>3, <2>1, <2>6 DEF SeqInv
  <2>8. request.jobid = Base + 1
    <3> HIDE DEF Base, Applied
    <3> QED
      BY <2>1, <2>6, <2>7
  <2>9. Issued > 0 /\ dpc \in InLoop
    BY <2>6, <2>7 DEF Issued, InLoop
  <2>10. values[request.jobid] = CellOf(call, row) /\ Stage(ce[cr], call, row, 0)
    <3> HIDE DEF Base, Applied, Issued, Stage, call, CellOf
    <3> QED
      BY <1>3, <2>3, <2>4, <2>7, <2>8, <2>9 DEF SeqInv
  <2> HIDE DEF Base, Applied, Issued, call, CellOf, Due
  <2>11. /\ ce'[cr].current_cell = CellOf(call, row)
         /\ ce'[cr].prev_location = ce[cr].prev_location
         /\ ce'[cr].ho_prediction = ce[cr].ho_prediction
    BY <1>1, <2>4, <2>10 DEF CarOf
  <2>12. Stage(ce'[cr], call, row, 1)
    BY <2>10, <2>11 DEF Stage, Knows
  <2>13. Stage(ce'[cr], call, row, Applied + 1)
    BY <2>7, <2>12
  <2> HIDE DEF Stage, Live, FullLines
  <2> QED
    BY <1>1, <1>3, <2>4, <2>13, SeqProcess DEF Process
<1> QED
  BY <1>2, <1>3

\* A location that is processed brings the carrier where the sequential program is.
LEMMA SeqUpdateLocation ==
  ASSUME IInv, TodoInv, MainInv, PlaceInv, ValuesInv, CarInv, SeqInv, Running,
         NEW cr \in Carriers, UpdateLocation(cr), ~Terminate
  PROVE  SeqInv'
<1> DEFINE to == values[request.jobid]
<1>1. mainpc = "switch" /\ request.type = "GPS" /\ cr \in todo
  BY DEF UpdateLocation
<1>2. PICK outcome \in Predict(HoFrame(ce[cr].ho_files), ce[cr].current_cell,
                               ce[cr].prev_location, to) :
        /\ outcome # Failed
        /\ ProcessGPS(cr)
        /\ ce' = [ce EXCEPT ![cr] = Remember(ce[cr], to, outcome)]
        /\ UNCHANGED <<mainThread, values>>
  <2> HIDE DEF Terminate, ProcessGPS, Predict, mainThread, Remember, HoFrame
  <2>1. QED
    BY DEF UpdateLocation
<1>3. /\ dpc \notin {"create", "initialize", "terminated", "undefined"}
      /\ cr = call.carrier /\ to \in Location
  BY <1>1, LocationIs
<1>4. UNCHANGED <<program, run, row, dpc>>
  BY <1>2 DEF mainThread, localVars
<1>5. CASE ~FullLines \/ dpc \notin Live
  BY <1>4, <1>5 DEF SeqInv, FullLines, call
<1>6. CASE FullLines /\ dpc \in Live
  <2>1. requestQueue # <<>> /\ request = Head(requestQueue)
    BY <1>1 DEF IInv, RequestInv
  <2>2. DOMAIN ce = Carriers /\ CarOf(ce, call)
    BY <1>3 DEF CarInv
  <2>3. Due[cr] = Popped + 1
    BY <1>1 DEF Due
  <2>4. /\ Applied \in {0, 1} /\ Applied < Issued
        /\ Head(requestQueue).jobid = Base + Applied + 1
        /\ Applied = 0 => Head(requestQueue).type = "CELL"
    BY <1>3, <1>6, <2>1, <2>3, HeadKind
  <2>5. Applied = 1 /\ Base \in Nat
    BY <1>1, <1>6, <2>1, <2>4 DEF SeqInv
  <2>6. Issued = 2 /\ dpc \in InLoop
    BY <2>4, <2>5 DEF Issued, InLoop
  <2>7. request.jobid = Base + 2
    <3> HIDE DEF Base, Applied
    <3> QED
      BY <2>1, <2>4, <2>5
  <2>8. /\ to = PlaceOf(call, row) /\ Stage(ce[cr], call, row, 1)
        /\ row \in FastOf(call, row)
    <3> HIDE DEF Base, Applied, Issued, Stage, call, PlaceOf
    <3> QED
      BY <1>3, <1>6, <2>2, <2>5, <2>6, <2>7 DEF SeqInv
  <2>9. /\ call.ho_files \in Seq(File) /\ Len(call.ho_files) <= 1 /\ FiveFields(call.ho_files)
        /\ row \in Nat \ {0}
    BY <1>3, <1>6, CallType DEF MainInv, FullLines, PlaceInv
  <2> DEFINE c == ce[cr]
             h == HoFrame(call.ho_files)
  <2>10. /\ c.ho_files = call.ho_files /\ c.current_cell \in Int /\ c.prev_location \in Location
         /\ DOMAIN c = {"ho_files", "current_cell", "prev_location", "ho_prediction"}
         /\ c = [x \in DOMAIN c |-> c[x]]
    BY <1>3, <2>2 DEF CarOf
  <2>11. c.current_cell = CellOf(call, row)
    BY <2>8 DEF Stage
  <2>12. ce'[cr] = Remember(c, to, outcome)
    BY <1>2, <2>2
  <2> HIDE DEF c, call, to, Predict, HoFrame, Remember, Stage, CellOf, PlaceOf, FastOf
  <2>13. outcome \in Predict(HoFrame(call.ho_files), CellOf(call, row), c.prev_location, PlaceOf(call, row))
    BY <1>2, <2>8, <2>10, <2>11 DEF c
  <2>14. Stage(c, call, row, 1)
    BY <2>8 DEF c
  <2>15. Stage(Remember(c, PlaceOf(call, row), outcome), call, row, 2)
    BY <1>3, <2>8, <2>9, <2>10, <2>11, <2>13, <2>14, Advance
  <2>16. Stage(ce'[call.carrier], call, row, Applied + 1)
    <3>1. Applied + 1 = 2
      BY <2>5
    <3> QED
      BY <1>3, <2>8, <2>12, <2>15, <3>1
  <2> HIDE DEF Live, FullLines, Applied
  <2> QED
    BY <1>2, <1>3, <1>6, <2>16, SeqProcess DEF Process
<1> QED
  BY <1>5, <1>6

\* Each step keeps the carrier along the sequential program.
LEMMA SeqStep ==
  ASSUME ~TornRead, IInv, TodoInv, MainInv, PlaceInv, ValuesInv, CarInv, SeqInv,
         [DNext]_driverVars
  PROVE  SeqInv'
<1>0. /\ Owner \in Clients /\ DOMAIN pc = Clients /\ requestQueue \in Seq(UpdateRequest)
      /\ req[Owner] \in UpdateRequest
  BY ContextAssumption DEF IInv, TypeOK
<1>1. CASE dpc' \notin Live
  BY <1>1 DEF SeqInv
\* A step of the database without a value.
<1>2. ASSUME IdleStep \/ Push(Owner), UNCHANGED <<program, run, row, values, ce, total_jobs, req, job>>,
             QueueMoves, pc'[Owner] = "push" => pc[Owner] = "push",
             \/ dpc' = dpc
             \/ dpc = "wait" /\ dpc' = "look"
             \/ dpc = "open" /\ dpc' = "row"
      PROVE  SeqInv'
  <2>1. Due' = Due
    BY <1>2, IdleMoves
  <2>2. Issued' = Issued
    BY <1>2 DEF Issued
  <2>3. dpc' \in Live => /\ dpc \in Live
                         /\ dpc' # "initialize" => dpc # "initialize"
                         /\ dpc' \in InLoop => dpc \in InLoop
    BY <1>2 DEF Live, InLoop
  <2> HIDE DEF QueueMoves, Due, Issued, Live, InLoop, IdleStep, Push
  <2> QED
    BY <1>0, <1>2, <2>1, <2>2, <2>3, SeqKept
<1>3. CASE UNCHANGED driverVars
  <2>1. UNCHANGED vars /\ UNCHANGED <<program, run, row, dpc, values, ce>>
    BY <1>3 DEF driverVars, mainThread, localVars, database
  <2>2. UNCHANGED <<total_jobs, req, job, pc>> /\ QueueMoves
    BY <2>1 DEF vars, QueueMoves
  <2>3. IdleStep
    BY <2>1 DEF IdleStep
  <2> HIDE DEF IdleStep, QueueMoves
  <2> QED
    BY <1>2, <2>1, <2>2, <2>3
<1>4. CASE Create \/ InitializeCarrier
  BY <1>4, SeqCreate
<1>5. CASE Open
  <2>1. UNCHANGED vars /\ UNCHANGED <<program, run, row, values, ce>> /\ dpc = "open"
        /\ dpc' \in {"row", "terminated"}
    BY <1>5 DEF Open, Move, localVars, database
  <2>2. UNCHANGED <<total_jobs, req, job, pc>> /\ QueueMoves
    BY <2>1 DEF vars, QueueMoves
  <2>3. CASE dpc' = "row"
    BY <1>2, <2>1, <2>2, <2>3 DEF IdleStep
  <2>4. CASE dpc' = "terminated"
    BY <1>1, <2>4 DEF Live, InLoop
  <2> QED
    BY <2>1, <2>3, <2>4
<1>6. CASE NextRow
  BY <1>6, SeqNextRow
<1>7. CASE UploadCell \/ UploadGPS
  BY <1>7, SeqUpload
<1>8. ASSUME Waiting(Owner)
      PROVE  /\ UNCHANGED <<total_jobs, req, job>> /\ QueueMoves
             /\ pc'[Owner] = "push" => pc[Owner] = "push"
  <2>1. UNCHANGED <<total_jobs, req, job, requestQueue>>
    BY <1>8 DEF Waiting, Wait, CheckEmpty, CheckNotEmpty, Sleep, SpuriousWakeup, Reacquire,
                GetFinishedJobid, ClientStep
  <2>2. pc'[Owner] = "push" => pc[Owner] = "push"
    BY <1>0, <1>8, RestFrame DEF Rest, IInv
  <2> QED
    BY <2>1, <2>2 DEF QueueMoves
<1>9. CASE CallWait
  <2>1. Waiting(Owner) /\ UNCHANGED <<program, run, row, values, ce>>
        /\ ((dpc = "wait" /\ dpc' = "look") \/ dpc' = "delete")
    BY <1>9 DEF CallWait, Move, Waiting, localVars
  <2>2. CASE dpc' = "delete"
    BY <1>1, <2>2 DEF Live, InLoop
  <2>3. IdleStep
    BY <1>0, <2>1 DEF IdleStep
  <2> HIDE DEF QueueMoves, Waiting, IdleStep
  <2> QED
    BY <1>2, <1>8, <2>1, <2>2, <2>3
<1>10. CASE InsideCall
  <2>1. UNCHANGED <<program, run, row, dpc, values, ce>>
    BY <1>10 DEF InsideCall, mainThread, localVars
  <2>2. CASE Push(Owner)
    <3>1. UNCHANGED <<total_jobs, req, job>> /\ QueueMoves /\ pc'[Owner] # "push"
      BY <1>0, <2>2 DEF Push, QueueMoves
    <3> HIDE DEF QueueMoves, Push, IdleStep
    <3> QED
      BY <1>2, <2>1, <2>2, <3>1
  <2>3. CASE Waiting(Owner)
    <3>1. IdleStep
      BY <1>0, <2>3 DEF IdleStep
    <3> HIDE DEF QueueMoves, Waiting, IdleStep
    <3> QED
      BY <1>2, <1>8, <2>1, <2>3, <3>1
  <2> QED
    BY <1>10, <2>2, <2>3 DEF InsideCall, Waiting
<1>11. CASE WakeUp
  <2>1. Waiting(Owner) /\ UNCHANGED <<program, run, row, dpc, values, ce>>
    BY <1>11 DEF WakeUp, Waiting, mainThread, localVars
  <2>2. IdleStep
    BY <1>0, <2>1 DEF IdleStep
  <2> HIDE DEF QueueMoves, Waiting, IdleStep
  <2> QED
    BY <1>2, <1>8, <2>1, <2>2
<1>12. CASE Look
  BY <1>12, SeqLook
<1>13. CASE Delete \/ Join
  BY <1>1, <1>13 DEF Delete, Join, Move, Live, InLoop
<1>14. CASE Terminate
  BY <1>1, <1>14 DEF Terminate, Live, InLoop
<1>15. CASE LoopStep
  <2>1. UNCHANGED <<program, run, row, dpc, values, ce, mainThread>>
    BY <1>15 DEF LoopStep, mainThread, localVars
  <2>2. CASE Top
    BY <2>1, <2>2, SeqTop
  <2>3. CASE MainStart \/ BeginPop \/ Pop \/ Finish \/ LockWait \/ Notify
    <3>1. UNCHANGED <<total_jobs, req, job>>
      BY <2>3 DEF MainStart, BeginPop, Pop, Finish, LockWait, Notify, NotifyFrame, clientVars
    <3>2. QueueMoves
      BY <2>3 DEF MainStart, BeginPop, Pop, Finish, LockWait, Notify, NotifyFrame, QueueMoves,
                  IInv, RequestInv
    <3>3. pc'[Owner] = "push" => pc[Owner] = "push"
      BY <1>0, <2>3 DEF MainStart, BeginPop, Pop, Finish, LockWait, Notify, NotifyFrame, Wake, clientVars
    <3>4. IdleStep
      BY <2>3 DEF IdleStep
    <3> HIDE DEF QueueMoves, IdleStep
    <3> QED
      BY <1>2, <2>1, <3>1, <3>2, <3>3, <3>4
  <2> QED
    BY <1>15, <2>2, <2>3 DEF LoopStep
<1>16. ASSUME Running, NEW cr \in Carriers, UpdateLocation(cr) \/ UpdateCell(cr) PROVE SeqInv'
  BY <1>14, <1>16, SeqUpdateLocation, SeqUpdateCell
<1> QED
  BY <1>3, <1>4, <1>5, <1>6, <1>7, <1>9, <1>10, <1>11, <1>12, <1>13, <1>14, <1>15,
     <1>16, FailsIs DEF DNext, MainThreadNext, LookNext, LoopNext

\* Each step keeps the recorded predictions those of the sequential program.
LEMMA ValStep ==
  ASSUME ~TornRead, IInv, MainInv, PlaceInv, CarInv, SeqInv, ValInv, [DNext]_driverVars
  PROVE  ValInv'
<1>1. CASE Look
  <2>1. val' = [row |-> row, prediction |-> ce[call.carrier].ho_prediction]
        /\ UNCHANGED <<program, run>>
    <3> HIDE DEF database, get, Matches, Error, ErrorTooLarge, rows, call, block
    <3> QED
      BY <1>1 DEF Look
  <2>2. call' = call /\ FullLines' = FullLines
    BY <2>1 DEF call, FullLines
  <2>3. FullLines => ce[call.carrier].ho_prediction \in Answers(call, row)
    BY <1>1, SeqLook
  <2> HIDE DEF call, FullLines, Answers
  <2> QED
    BY <2>1, <2>2, <2>3 DEF ValInv
<1>2. CASE val' = None
  BY <1>2 DEF ValInv
<1>3. CASE UNCHANGED <<program, run, val>>
  BY <1>3 DEF ValInv, call, FullLines
<1>4. \/ Look
      \/ val' = None
      \/ UNCHANGED <<program, run, val>>
  <2> HIDE DEF Terminate, get, block, Look
  <2>1. ASSUME LoopNext PROVE UNCHANGED <<program, run, val>>
    BY <2>1, LoopCases DEF LoopStep, Terminate, mainThread, localVars
  <2>2. ASSUME UploadCell \/ InitializeFails PROVE UNCHANGED <<program, run, val>>
    BY <2>2, FailsIs DEF UploadCell, Terminate, localVars
  <2>3. QED
    BY <2>1, <2>2 DEF DNext, MainThreadNext, LookNext, Create, InitializeCarrier, Open,
       NextRow, UploadGPS, CallWait, InsideCall, Delete, Join, WakeUp, mainThread, driverVars, localVars
<1> QED
  BY <1>1, <1>2, <1>3, <1>4

\* A prediction that is looked at is the one a program without threads would
\* compute for its row, unless a size() that overlaps a pop() reads torn words.
THEOREM AnswersAreRight ==
  ASSUME ~TornRead
  PROVE  DSpec => []AnswersAreSequential
<1>1. DInit => SeqInv /\ ValInv
  BY SeqInitially
<1>2. DriverInv /\ SeqInv /\ ValInv /\ [DNext]_driverVars => SeqInv' /\ ValInv'
  BY SeqStep, ValStep DEF DriverInv, PredictionInv
<1>3. DSpec => [](SeqInv /\ ValInv)
  BY <1>1, <1>2, DriverInvariance, PTL DEF DSpec
<1>4. ValInv => AnswersAreSequential
  <2> SUFFICES ASSUME ValInv, val # None, FullLines PROVE AnswersAreSequential
    BY DEF AnswersAreSequential
  <2>1. /\ \A k : Cell(k) = CellOf(call, k) /\ Place(k) = PlaceOf(call, k)
        /\ \A n : FastRows(n) = FastOf(call, n)
    BY DEF Cell, CellOf, Place, PlaceOf, FastRows, FastOf
  <2> DEFINE found == {k \in FastRows(val.row) : Handovers(call.ho_files, Cell(k), Place(k)) # {}}
             k == Latest(found)
             from == IF FastRows(k - 1) = {} THEN Places ELSE {Place(Latest(FastRows(k - 1)))}
  <2>2. found = FoundOf(call, val.row)
    BY <2>1 DEF FoundOf
  <2>3. val.prediction \in Answers(call, val.row)
    BY DEF ValInv
  <2>4. found = {} => val.prediction = Reserved
    BY <2>2, <2>3 DEF Answers
  <2>5. from = LastPlaces(call, k - 1)
    BY <2>1 DEF LastPlaces
  <2> HIDE DEF found, from
  <2>6. found # {} => val.prediction \in Made(call, k)
    BY <2>2, <2>3 DEF Answers
  <2>7. found # {} => \E f \in from : val.prediction \in Predict(HoFrame(call.ho_files), Cell(k), f, Place(k))
    BY <2>1, <2>5, <2>6 DEF Made
  <2> QED
    BY <2>4, <2>7 DEF AnswersAreSequential, found, from
<1> QED
  BY <1>3, <1>4, PTL
=============================================================================
