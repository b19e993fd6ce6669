# m3-database in TLA+

A verification development for m3-database, a C++11 library that predicts the
next cell handover of a phone from its position, its cell and the handovers
recorded earlier. The modules here model the code under the repository root
(paths below are relative to it), TLC checks them on small instances, and TLAPS
proves every safety property, four refinements among them, for instances of any size.

## 1. The system

    clients ──UpdateGPS/UpdateCellID──▶ requestQueue ──top/pop──▶ mainLoop thread
       │  ▲                             (Queue.hh)                    │
       │  └────wait(), GetFinishedJobid()◀── wait_cond, jobid ────────┤
       │                                                              ▼
       └──GetPrediction()──▶ ho_prediction under pred_lock ◀── CarrierEnv per carrier
                                                               │ where/average
                                                               ▼
                                                           DataFrame (history)

| Component | State it keeps | Operations |
|---|---|---|
| request queue, `src/Queue.hh` | a `std::queue`, a mutex, one condition variable | `add`, `top`, `pop`, `clear`, `isFull`, `isEmpty` |
| database context, `src/DatabaseContext.{hh,cc}` | carriers, queue, `run_lock`, `wait_mutex`, `wait_cond`, `finished_jobid`, the static `total_jobs` and `pDBContext` | create, `initialize`, `addRequest`, `wait`, `getFinishedJobid`, `getPrediction`, `mainLoop`, destroy |
| carrier, `src/CarrierEnv.{hh,cc}` | current cell, previous location, handover history, the predicted row, `pred_lock` | `updateCell`, `updateLocation`, `predict_handover`, `getPrediction` |
| frames, `src/DataBlock.*`, `src/DataFrame.*` | a header and rows of doubles | load, labels, grow, join, filter, project, average |
| API and directory files, `src/database.hh`, `Initialize` | three lists of file names per carrier | `Initialize`, `UpdateGPS`, `UpdateCellID`, `GetFinishedJobid`, `GetPrediction` |
| driver, `main.cc` | result frames | upload, wait, predict, compare with the ground truth |
| `common/`: text input, shell, progress bar, test framework | | |

How they interact. `GetDatabaseContext` creates the context; its constructor
detaches a thread that runs `mainLoop`. Clients upload reports: `addRequest`
draws a job id and pushes a request under `wait_mutex`. `mainLoop` peeks at the
head of the queue, applies it to the carriers without any lock, pops it, stores
the job id in `finished_jobid` under `jobid_mutex`, and notifies the waiting
clients under `wait_mutex` if the queue is empty. `wait()` waits for an empty
queue. The destructor queues a STOP request and then locks `run_lock`, which
`mainLoop` holds while it runs. `updateLocation` filters the carrier's history,
computes a prediction and stores it in four steps under `pred_lock`, under which
`getPrediction` copies it.

What is hard here, and what makes each part correct:

- *queue*: producers and consumers share one condition variable, so a
  notification must never go to the wrong consumer alone (producers never wait, as
  `isFull()` is false); nobody may take from an
  empty queue; each operation must look atomic.
- *context*: job ids are drawn and requests pushed by several threads, processed
  by another; `wait()`, the finished job id and the destructor each promise
  something about what has been processed, and three locks and an unlocked read
  of the queue stand behind the promise. A prediction must be made of matching
  reports.
- *carrier*: a prediction must be read as a whole; the arithmetic meets NaN, zero
  times and distances, short rows and missing history.
- *frames*: rows may be shorter or longer than the header, `get` and `set` have an
  off-by-one, a filter over several columns must equal the chain of filters.
- *directory files*: carriers are created one by one, a failure leaves some.
- *contexts as objects*: the pointer to the one context, and the map of its
  carriers, are shared by all threads and protected by nothing; clients keep
  copies of the pointer, which a delete leaves dangling.
- *driver*: its answers must be those of a sequential program although another
  thread computes them; its comparison with the ground truth leaves the row early
  in three places; it leaves NaN and infinity to `std::min`; it deletes the context
  of a trace that uploaded nothing.

PROJECT.json lists every hazard with its line and the properties that catch it.
Some it lists without one: what the code plainly does, and the models with it (an
early return of `wait()` over a torn length, a job id of 0 reported by a new
context, an end of the process at a short line), is no property of it.

## 2. The modules

| Module | Models | Notes |
|---|---|---|
| `FifoQueue` | what the queue promises | each call takes effect at one point between invocation and return |
| `RequestQueue` | `ConsumerProducerQueue` | one action per critical section, lock and condition variable explicit |
| `UpdateService` | what a context promises its clients | no threads, no queue, no locks |
| `DatabaseContext` | `DatabaseContext.cc`, `mainLoop` | several clients, an owner, the thread; contexts follow one another |
| `Frames` | Datablock, DataFrame, DataFrameHelper | operators; a call that may throw or read past a vector returns its set of outcomes |
| `DataFrame` | frame objects in a program | one action per method |
| `AtomicPrediction` | what a carrier's prediction promises | an atomic register |
| `Handover` | the computation of `predict_handover` | operators over `Frames`; used by `CarrierEnv` and `Driver` |
| `CarrierEnv` | one carrier, its updates and its readers | the steps around `Handover` that touch shared state |
| `Lifecycle` | `GetDatabaseContext`, `DeleteDatabaseContext`, contexts as objects | any number of contexts, any client creates or deletes |
| `Driver` | `main.cc` | composes `DatabaseContext` and `Handover` |
| `DirectoryFiles` | `Initialize` | line by line, carrier by carrier |
| `FramesProofs` | | lemmas: what the operators of `Frames` and `Handover` return |
| `RequestQueueProofs`, `DatabaseContextProofs`, `LifecycleProofs`, `CarrierEnvProofs`, `DataFrameProofs`, `DirectoryFilesProofs`, `DriverProofs` | | theorems about the module of the same name |
| `MC*` | | values for TLC |

Operators and variables keep the names of the source. A definition introduced by
a comment `Bug:` is not part of a model: it is the definition that follows it
with a plausible mistake, and exists to show that the properties notice it.

**RequestQueue.** A thread inside an operation goes through *lock*, *check* the
predicate, *sleep*, *do*, *notify*; spurious wakeups are included. `length()` and
`isEmpty()` read without the mutex. **FifoQueue** is the abstraction, and the
refinement maps the sequence to itself and the threads' progress to "invoked",
"done".

**DatabaseContext.** The queue appears as an atomic sequence, which is what
`RequestQueue` shows it to be, with the one exception that matters: `isEmpty()`
takes no lock. A pop is therefore two steps, and `TornRead` says whether an
overlapping `isEmpty()` may return either answer or only the old or the new
length. A request's payload is its own job id, so `env` records exactly which
reports a prediction was made of. `mainLoop` is one action per critical section;
the carriers of a GPS request are updated one at a time. Whether the history
gives a prediction is left open here and settled in `CarrierEnv`. The owner
creates, initializes and deletes; `WaitBeforeDelete` restricts it to deleting
the way `main.cc` and the tests do. **UpdateService** is the abstraction: job ids
are given out one by one, a request is processed when all before it have been,
`wait()` returns at a moment when nothing accepted by then is left, of whichever
client, and a context goes away in such a moment. The refinement maps the job
counter, the applied ids and the finished id to themselves and forgets the queue,
the locks and where `mainLoop` is.

**Frames, DataFrame.** A double is an integer or NaN, a predicate is the set of
doubles it is true of. `get(b, i)` with `i = size()` passes the check of the code
and reads what lies behind the vector (`Junk`); everything beyond, and every
negative index, throws (`Failed`). Means are kept as sum and count. `DataFrame`
lets a program apply the methods to its objects in any order.

**CarrierEnv.** Coordinates and times are integers of some small unit, square
roots are kept as the fraction under the root, and divisions by zero give NaN or
an infinity as IEEE arithmetic does; rounding is abstracted. `prev_location`
starts with any value, as the code does not initialize it. The computation of a
prediction is one step, since it touches nothing shared; the four `set` calls
and the four copies of a reader are single steps. An exception on this thread
ends the process, so it ends the model. The constructor's failure for more than
one handover file is in `DirectoryFiles`.

**Lifecycle.** `pDBContext` is tested, assigned, read again and reset in steps of
their own, as nothing protects it; contexts are objects that can be freed while
a thread is inside them, and the map of carriers can be entered by several
threads. Each function of `database.hh` first goes through `GetDatabaseContext`, so
any of them may create a context (`Begin`). `wait()` is no such function, and
`main.cc` calls `getPrediction()` as a method, too: both are called on the pointer
that a client got from its own `GetDatabaseContext()` ("open") and keeps in `pdbc`,
whatever has become of the object since (`BeginOnHandle`). The clients keep four
rules. Three are `Orderly`: nobody else
is inside a call when a context is created, when a carrier is initialized (before
the first upload or right after a `wait()`), and when the context is deleted
(after an upload and a `wait()`). The fourth is `Fresh`: nobody calls through a
pointer that was taken before the last delete, as `main.cc` takes a new one in
every evaluation (line 13). The code enforces none of them. Without
the first, two first calls create two contexts; without the second, `emplace`
changes the map under `processGPS` or `getPrediction`; without the third,
the object goes away under its thread or under a client; without the fourth, a
`wait()` on a pointer from before another client's delete works on a freed object
(the mutant `BeginOnHandleOfMain`).

**Driver.** A step of the database in `Driver` is a step of `DatabaseContext`,
whose only client is the main thread, together with what it does to the values:
`values` holds the payload of each job id, `ce` the carriers with their history,
cell, place and prediction. `ProcessGPS`, which leaves open whether the
history gives a prediction, becomes `UpdateLocation`, which computes it. So every
behaviour of `Driver` is one of `DatabaseContext` (the theorem `Implements`), and
the three levels fit together: the queue may be an atomic sequence there because of `FifoSpec`, a
prediction may be stored and read in one step because of `AtomicSpec`. The main
thread is one action per statement that matters to the other thread; a row's
comparison with the ground truth is one (`Look`). The program's inputs (trace,
ground truth, history) are constants, a program is a sequence of evaluations; any
of an evaluation's files may be missing, which `input_helper` answers with an
exception, from `Initialize` or from one of the two frames. The error of a row is
computed as main.cc:68-83 does, with `std::min` and its order of arguments: `Less`
is the comparison of doubles, false for NaN on either side, and a time with a root
in it is compared through squares.

**DirectoryFiles.** A line is a file name, an `F`, a comment or blank. The property
says what a section is in its own terms: the file names with so many lines `F`
before them, not the loop that collects them. A call may
fail at a missing directory file, at a missing data file or at a second handover
file, and be followed by another call.

## 3. The runs

Safety:

| Run | Question | Bounds |
|---|---|---|
| `queue` | is the queue a linearizable FIFO, does nobody take from an empty queue or sleep through a wakeup? | 2 producers, 2 consumers, one of the producers also clears, 2 values, length 2: every two-way race, a full and an empty queue |
| `sole_consumer` | does a lone consumer pop what it peeked at, and is it woken? | 2 producers, 1 consumer, length 3 |
| `two_clients` | are requests processed once and in order; do `wait()`, the finished id and the destructor tell the truth; is a carrier's prediction made of its own cell and of consecutive locations; is all that an `UpdateService`? | 2 clients, 2 carriers, 3 jobs: two uploads race while a third is processed, a location follows a location or another carrier's cell, and contexts follow one another |
| `frames` | do rows and header stay together, is the multiple filter the chain of filters, does projecting commute with filtering, is an average within its column? | 2 frames, 2 rows, 3 columns, 3 calls, indexes from -1 to 3, full, ragged and non-numeric files |
| `predictions` | is a prediction what the history says, with which arithmetic, and what can end the process? | 7 histories, 6 reports (standing still, equal times, coming nearer, passing, far away), 3 cells, one of them beyond `int` |
| `prediction_readers` | is the prediction an atomic register? | 2 readers, 3 reports |
| `directory_files` | does each carrier get its own lists? | 2 carriers, 2 calls, 7 directory files and a missing one |
| `driver` | does the main thread read, for every row, what a sequential program would compute; are the warnings the failed handovers, which rows get which error column; what ends the process early? | all traces of up to 3 of 5 rows (coming nearer, another cell and back, far away, slow) and of up to 2 of 9 (NaN, cell 0, short), 3 ground truths, second evaluations with the same and another carrier, no history, short lines, every set of missing files; the 30 rows, 100, 100000 and 1000000 seconds are 4, 3, 3 and 6, so that errors fall below, between and above the last two, and predicted times are NaN and infinite as well |
| `lifecycle` | is there one context at a time, does nobody work on a freed one, also through a kept pointer, is the map never changed under a reader? | 2 clients, 3 contexts one after another, queues of 2: each client may hold a pointer to any earlier context while the other deletes and creates |

Liveness:

| Run | Question |
|---|---|
| `liveness` | every accepted request is processed; `wait()` returns once uploads pause; the destructor returns; all that with an unlocked `isEmpty()` that may answer anything during a pop (2 clients, 2 jobs and the STOP) |
| `sole_consumer` | a waiting consumer is served once there is something to take |
| `prediction_readers` | `getPrediction` returns while updates keep coming |
| `driver` | the program comes to its end, by returning or by an exception: no `wait()` and no destructor hangs |

The fairness assumed is that of threads on a preemptive scheduler: a thread that
is inside an operation and can go on does go on (weak fairness of its next
step), and a thread that waits for a mutex which is released again and again
gets it in the end (strong fairness of the acquisition; the code's mutexes are
held for a few statements only). No call is ever assumed to be made, no
notification or spurious wakeup to happen on its own.

Runs that end with a counterexample, each a disagreement between the code and
something written in the repository:

| Run | Counterexample | The text it contradicts |
|---|---|---|
| `reported_after_wait` | `wait()` returns between the pop and the store to `finished_jobid` | the assertion in `test/testsys.cc:55` |
| `destructor_race` | in `main.cc`, with a trace of low speed only, the destructor locks `run_lock` before the new thread does | "wait until mainLoop ends", `src/DatabaseContext.cc:158` |

Checks for deadlock are on, except where the system may stop: at the end of a
bounded program (`DataFrame`, `DirectoryFiles`, `Lifecycle`), and in
`predictions`, where an exception ends the process. In `Driver` the end of the
process is a step that changes nothing, and everything else must go on.

What the bounds leave out: longer queues than three requests, more than two
clients at once, frames of more than three columns (the history of `CarrierEnv`
has six), roundings of floating-point numbers. The theorems cover any number of
clients, requests, carriers and readers.

Things the models take over from the code and no run asks about: `wait()` reads
the queue's length while `mainLoop` pops, although `src/DatabaseContext.hh:51`
says that `wait_mutex` secures the queue (with `TornRead` the properties of
`liveness` hold in spite of it); an update without a handover nearby keeps the
prediction of an earlier place or cell, although `src/CarrierEnv.hh:54` says
that it triggers a prediction (`AnswersAreSequential` says which one the driver
then sees, and accepts if the phone is back in that cell); the header's "Only one
DatabaseContext object" is up to the callers (`Lifecycle`); an index
equal to `size()` passes the checks of `get`, `set`, `setLabel` and `getLabel`
(`Frames` gives such a call every outcome it may have), and the time to a
handover is the distance over the speed whatever the direction, while the
comment in `src/CarrierEnv.cc:142` derives a projection that lines 154-155 have
commented out (`TimesAreDistanceOverSpeed` states what is computed).

## 4. The theorems

All proofs are checked by TLAPS. They cover any number of clients, jobs,
carriers, contexts and readers, and files, frames, histories, traces and programs
of any length. They assume the named assumptions of the modules, which TLC
evaluates on the runs' constants:

- identifiers are distinct, and NaN, infinity, "no value" and "failed" are nothing
  else (`QueueAssumption`, `ContextAssumption`, `FramesAssumption`,
  `HandoverAssumption`); the carriers are a finite set;
- inputs have their types: a data file is a sequence of non-empty lines, fields
  are integers or NaN, bounds are numbers (`DataFrameAssumption`,
  `CarrierEnvAssumption`, `LifecycleAssumption`);
- a carrier is created with at most one handover file, since the constructor
  throws for a second one;
- in the driver, the places and times of a trace are numbers: a NaN among them
  would reach `updateLocation`, whose model takes numbers (`DriverAssumption`);
  speeds, cells, the ground truth and the histories may be NaN or missing; the limit
  of an error is below the value it starts with (1e5 and 1e6 in the code);
- the column names the program uses are strings. This says nothing about the
  code, but TLAPS does not know it of a string literal.

*Queue* (`RequestQueueProofs`). `TypeCorrect`, `NeverPopsEmpty`,
`WakeupsAreNotLost`, `PeekIsStable` (with one consumer and nobody clearing) and
`Implements`: `ConsumerProducerQueue` refines the abstract FIFO. The inductive
invariant ties the holder of the mutex to the one thread that is past *check*:
only such a thread may rely on its predicate, and every change of the queue is
followed by a `notify_all` before the mutex is free again.

*Context* (`DatabaseContextProofs`). The properties are not inductive, since none
of them says where a request is. `IInv` does: the queue holds consecutive job
ids up to the last one pushed (`QueueInv`), a drawn id is either pushed or its
client holds `wait_mutex` (`RequestInv`, `LockInv`), exactly the ids below the
head of the queue have been applied, the head as well while it is popped
(`AppliedInv`), a client that has returned from `wait()` has nothing in the
queue below its id (`WaitedInv`), and after a STOP nothing follows in the queue
while the thread exists (`StopInv`, `StartInv`). `Invariance` is `Spec => []IInv`;
from it follow `EachRequestOnce`, `InOrder` (also with torn reads), `ReportsAreTrue`,
`ReportsNeverGoBack`, `NotifiesAreNotLost` (also with torn reads),
`WaitIsABarrier` (without torn reads: with them it is false) and
`DestructorIsSafe` (if the owner deletes after an upload and a wait, as the
callers do: without that it is false, see `destructor_race`).

`Serves` puts them together: under the same two hypotheses `DatabaseContext` refines
`UpdateService`. The steps the clients see are the draw of a job id, the end of the
switch of `mainLoop`, the store to `finished_jobid`, the calls and returns of
`wait()` and `GetFinishedJobid()`, and the ends of a context; all others, the push
and the pop among them, leave the abstract state alone. What is new in it is the
return of `wait()`: not only the caller's requests have been processed then, but
every request with an id, also one that another client had drawn and not yet
pushed when `wait()` was called. `NothingLeft` is the reason: who returns holds
`wait_mutex`, so nobody is between drawing and pushing, and what is not in the queue
has been applied. The rest of `IInv` says which id the next abstract step is about.

`PredictionsAreConsistent` needs what each carrier has seen, not only which jobs
are done. The uploads of a context form a log whose end is the queue (`LogInv`);
a carrier holds the newest cell and the newest location among the jobs applied
*to it* (`EnvInv`), which in the middle of a GPS request is one job further for
the carriers already updated than for the others (`Due`, `TodoInv`). A new
prediction is then made of the two jobs it should be made of, and later uploads
come behind it in the log and do not change what was the last one before it.

*Contexts as objects* (`LifecycleProofs`). `OnlyOneContext`, `FreedIsLeftAlone` and
`MapIsSafe` follow from the callers' rules (`Orderly` and `Fresh`, section 2) by five layers:
`TurnInv`, who can be inside a call while there is no context or while one is
created, initialized or deleted; `PointerInv`, that what a thread has read of
`pDBContext` is still so; `HandleInv`, that a pointer kept since the last delete is
`pDBContext`, and that there is none while a delete goes on; `HeapInv`, that only
the newest object lives, from `new` to the end of its destructor; and `QueueInv`,
where the object's thread is and what is in its queue, from which it follows that
the thread has ended when the destructor has got `run_lock`, and is outside the map
when a carrier is added.

*Frames* (`FramesProofs`, `DataFrameProofs`). Loops over rows are recursive functions
in `Frames`. That they compute what they should is shown by induction over the
rows, in a form the provers can use: `SetInduction` and `UptoInduction` say that a
*set* of numbers with 0 and successors is everything, and `Recursion` that a
recursion of n steps has a value. From them come the lemmas the other modules
cite: a filter keeps the chosen rows in order (`Kept`, `ChosenRows`) or fails if
`get` may fail on a row (`WhereIs`), two filters choose what both choose
(`ChosenTwice`), a projection is the list of its columns (`SelectBlockIs`), a sum is
a number just if all summands are (`SumIs`), and is the sum of the chosen values
(`SumOfKept`). On these rest `TypeCorrect`, `TidyRows` (one lemma per
method: what it leaves in an object fits, or the object is loose), `MeansAreInRange`
(bounds carried through the partial sums), `SelectCommutes` and
`WhereManyIsTheChain`. The last compares sets of outcomes: row by row, the multiple
filter has the verdicts of the chain, including those of an access past a vector
(`RowVerdictsHold`), and fails exactly when the chain does (`FailAlike`).

*Carrier* (`FramesProofs`, `CarrierEnvProofs`). `ReadsAreAtomic`: `CarrierEnv`
refines `AtomicPrediction`, with the last completely stored prediction as the
register's value; the invariant says who holds `pred_lock` (`LockInv`), that the
row is that value outside a store (`RowInv`), and that a reader's copy so far is the
beginning of it (`CopyInv`). `PredLockExcludes` is its first part. What is predicted
follows from `MadeInv` (the last update came to an outcome of `Predict` for its
arguments) and from lemmas about `Predict`: the three filters of a history with
full lines leave the handovers out of the cell that are nearby, neither more
nor fewer (`CellFrameIs`, `HandoverLines`), and each mean is the sum over them by
their number (`MeanOfChosen`, `TotalIs`). So `FullLinesAreSafe`, `HistoryPredicts`
and `TimesAreRight`.

*Driver* (`DriverProofs`). `Implements` is `DSpec => Spec`: each step of the program
is a step of `DatabaseContext` or leaves it alone, so all its theorems hold
below `main()`. Each other theorem adds to that invariant what it needs:

- `OnlyBadInput`: where the main thread is in `run_one_carrier` and in a call of the
  database (`PlaceInv`), that while the thread has not started an upload is
  still queued and `wait()` cannot return (`BeforeStartInv`), that values and
  carriers have their types (`ValuesInv`, `CarInv`), that an evaluation with a missing
  file does not get to its rows (`MissingInv`), hence that nothing else throws
  but the division of main.cc:28 (`StopsInv`);
- `RecordedErrors` and `WarningsAreRight`: `ErrorInv` (each accepted row has the
  error column it should), `WarnInv` (the warnings are
  those of the rows before the current one, in order), what the filters of
  `Look` leave of the ground truth (`MatchesAre`, `MatchIs`, `FailedIs`), and
  `ErrorIs`: `std::min` as it is called, and the comparison after it, keep a
  distance just if it is a number of at most 1e5, because what NaN and infinity leave
  in `err`, 1e6, is more than that;
- `AnswersAreRight`, under `~TornRead`: `SeqInv` says that the carrier is as far as the
  uploads applied to it (`Stage`): at most two of the current row are on their
  way, a cell and then a location, and when `wait()` has returned both have
  arrived, by `WaitedInv`. With torn reads `wait()` is no barrier, and the
  driver may read the prediction of an earlier row.

*Directory files* (`DirectoryFilesProofs`). `TypeCorrect` and `EachHasItsFiles`, for
any carriers, calls and directory files. `ReadInv` says where the reading loops
are: what is left to read is the end of the current carrier's file, the section is
one more than the number of lines `F` before it, and each list holds the lines of
its section so far, each once and in their order. One more line adds itself to the
list of its section and to nothing else (`ListsMore`, `SeparatorsMore`); when three
`F` have been read, the rest of the file belongs to no section (`SeparatorsGrow`).
`FilesInv` adds that a carrier has been created from one file only, which is why a
second initialization cannot change it. A call that throws leaves both alone.

Model-checked only: the liveness properties (TLAPS does not prove liveness under
fairness): `WaitingConsumerServed`, `EveryRequestApplied`, `WaitReturns`,
`DeleteReturns`, `ReadReturns` and `DriverFinishes`. The two properties of the runs
that end with a counterexample are false.

## 5. Not modelled

- `predict_tcp`, `getDistance`, `findNearest`: nobody calls them; the data and
  boundary files, which the constructor reads and nothing uses.
- What a program does that breaks the rules of `Lifecycle`: undefined behaviour
  from the first data race on.
- The test framework: a sequential loop over tests. `Tester::start` counts every
  test it does not stop at as passed (`common/Test.cc:68-73`), which shows only
  with `stopOnFail = false`.
- `err_warn` in `main.cc`, a printed number that nothing depends on.
- The splitting of a line into fields, which yields what `Frames` takes as given;
  the shell, which no program of the tree starts; the progress bar, `to_string`,
  logging: output; `serialize`, which throws.

## 6. Plan

Text input (`split`, `input_helper`), `Shell`, `ProgressBar`, and `predict_tcp` as a
pure algorithm.
