------------------------------ MODULE Handover ------------------------------
(***************************************************************************)
(* What predict_handover (src/CarrierEnv.cc) computes from the history of  *)
(* a carrier, its cell and two locations.  It reads nothing shared.        *)
(*                                                                         *)
(* Longitudes, latitudes and times are integers of some small unit, the    *)
(* arithmetic is exact.  A root is kept as the fraction under it.          *)
(*                                                                         *)
(* A definition whose comment starts with "Bug:" is no part of the model:  *)
(* it is a mutated form of the definition after it.                        *)
(***************************************************************************)
EXTENDS Frames

CONSTANTS
    Reach,          \* 0.1 degrees, in the unit of the coordinates
    MaxInt,         \* the greatest int
    Inf,            \* the double infinity
    None            \* no prediction

HoLabels == <<"index", "longtitude", "latitude", "RSRP", "handover", "cell-id">>

\* The handover history of a carrier: an empty header without a file.
HoFrame(ho_files) == IF ho_files = <<>> THEN EmptyFrame
                     ELSE setLabels(Load(ho_files[1]), HoLabels)

\* time + sqrt(remain) + shift
Moment(time, remain, shift) == [time |-> time, remain |-> remain, shift |-> shift]
Zero == [num |-> 0, den |-> 1]

\* The row that addRow() reserves: four times 0.0.
Reserved == <<Moment(0, Zero, 0), 0, Zero, Moment(0, Zero, 0)>>

Fraction == [num : Nat, den : Nat \ {0}]
MomentType == [time : Int, remain : Fraction \cup {NaN, Inf}, shift : {-1, 0, 1}]
Prediction == MomentType \X Int \X Fraction \X MomentType

\* Inf and None are nothing else, and neither a prediction nor None is Failed.
\* (That a string is a string has to be said: TLAPS does not know it.)
ASSUME HandoverAssumption ==
    /\ Reach \in Nat /\ MaxInt \in Nat
    /\ Inf \notin Int \cup Fraction \cup {NaN, Failed}
    /\ None \notin Prediction \cup {Failed}
    /\ NaN \notin Fraction
    /\ Failed \notin Prediction
    /\ HoLabels \in Seq(STRING)

\* int(d), as the compiled code does it: INT_MIN for what does not fit.
ToInt(d) == IF d \in -MaxInt .. MaxInt THEN d ELSE -MaxInt - 1

Near(x) == {d \in Int : d - x < Reach /\ x - d < Reach}

\* v_lng * v_lng + v_lat * v_lat, where a division by 0 seconds gives NaN or
\* an infinity per coordinate.
SpeedSquared(from, to) ==
    LET dx == to.lng - from.lng
        dy == to.lat - from.lat
        dt == to.time - from.time
    IN  IF dt # 0 THEN [num |-> dx * dx + dy * dy, den |-> dt * dt]
        ELSE IF 0 \in {dx, dy} THEN NaN
        ELSE Inf

\* delta_lat * delta_lat + delta_lng * delta_lng, from a place to a mean place.
DistanceSquared(to, lng, lat) ==
    IF NaN \in {lng, lat} THEN NaN
    ELSE LET dx == lng.sum - lng.n * to.lng
             dy == lat.sum - lat.n * to.lat
         IN  [num |-> dx * dx + dy * dy, den |-> lng.n * lng.n]

\* The quotient of the two, with IEEE's special cases.
Quotient(d, v) ==
    IF NaN \in {d, v} THEN NaN
    ELSE IF v = Inf THEN Zero
    ELSE IF v.num # 0 THEN [num |-> d.num * v.den, den |-> d.den * v.num]
    ELSE IF d.num = 0 THEN NaN
    ELSE Inf

Remain(from, to, avg, h) ==
    Quotient(DistanceSquared(to, avg[getColumn(h, "longtitude") + 1],
                                 avg[getColumn(h, "latitude") + 1]),
             SpeedSquared(from, to))

\* Bug: the column is asked for by a name the header does not have.
SameCellMisnamed(h, cell) == where(h, getColumn(h, "cell id"), {d \in Double : ToInt(d) = cell})

\* The rows of h for a cell.
SameCell(h, cell) == where(h, getColumn(h, "cell-id"), {d \in Double : ToInt(d) = cell})

\* Bug: the latitude is not looked at.
CellFrameAtLongitude(h, cell, to) ==
    Then(SameCell(h, cell), LAMBDA f : where(f, getColumn(h, "longtitude"), Near(to.lng)))

\* The rows of h for a cell and the surroundings of a place.
CellFrame(h, cell, to) ==
    Then(Then(SameCell(h, cell),
              LAMBDA f : where(f, getColumn(h, "longtitude"), Near(to.lng))),
         LAMBDA f : where(f, getColumn(h, "latitude"), Near(to.lat)))

\* Bug: the early return asks whether there is a header.
NoHeader(cell_df) == columns(cell_df) = 0

\* The condition of the early return.
NothingFound(cell_df) == rows(cell_df) = 0

\* Bug: one failure is enough.
OneFailureKnown(failed_df) == rows(failed_df) > 0

\* The condition for a failure time of its own.
FailuresKnown(failed_df) == rows(failed_df) > 1

\* What predict_handover comes to: a prediction to store, None if it returns
\* early, Failed if it throws.
Predict(h, cell, from, to) ==
    LET ho_col == getColumn(h, "handover") IN
    Then(CellFrame(h, cell, to), LAMBDA cell_df :
    Then(where(cell_df, ho_col, {1}), LAMBDA cell_df1 :
    IF NothingFound(cell_df) THEN {None} ELSE
    Then(GetAverage(cell_df), LAMBDA avg :
    Then(where(cell_df, ho_col, {d \in Int : d > 1}), LAMBDA failed_df :
    Then(IF FailuresKnown(failed_df) THEN GetAverage(failed_df) ELSE {avg}, LAMBDA fail_avg :
        {<<Moment(to.time, Remain(from, to, avg, h), 0),
           cell,
           [num |-> rows(cell_df1), den |-> rows(cell_df)],
           Moment(to.time, Remain(from, to, fail_avg, h),
                  IF FailuresKnown(failed_df) THEN -1 ELSE 1)>>})))))
-----------------------------------------------------------------------------
\* The handovers of the file near a place, as (line) numbers: a reading of
\* predict_handover without frames, for files of five fields a line.  A cell that
\* is no int is the same as INT_MIN.
Handovers(files, cell, to) ==
    IF files = <<>> THEN {}
    ELSE {k \in DOMAIN files[1] :
            LET line == files[1][k] IN
            /\ ToInt(line[5]) = cell
            /\ line[1] \in Int /\ line[1] - to.lng \in -Reach + 1 .. Reach - 1
            /\ line[2] \in Int /\ line[2] - to.lat \in -Reach + 1 .. Reach - 1}

FiveFields(files) == \A i \in DOMAIN files : \A k \in DOMAIN files[i] : Len(files[i][k]) = 5
=============================================================================
