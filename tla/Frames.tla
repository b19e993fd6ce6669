------------------------------- MODULE Frames -------------------------------
(***************************************************************************)
(* Datablock (src/DataBlock.cc) and DataFrame (src/DataFrame.cc, .hh) as   *)
(* values: a Datablock is a sequence of doubles, a DataFrame a header and  *)
(* a sequence of Datablocks.  Columns count from 0, as in the code.        *)
(*                                                                         *)
(* A call whose result is not determined, because it throws or reads past  *)
(* the end of a vector, is an operator that returns the SET of its         *)
(* outcomes.  A predicate handed to where() is the set of the doubles it   *)
(* is true of; a double is an integer or NaN.                              *)
(*                                                                         *)
(* A definition whose comment starts with "Bug:" is no part of the model:  *)
(* it is a mutated form of the definition after it.                        *)
(***************************************************************************)
EXTENDS Integers, Sequences, FiniteSets
LOCAL INSTANCE TLC

CONSTANTS
    NaN,        \* std::nan: what a field that is no number becomes
    Failed,     \* the outcome "an exception, or a fault"
    Junk        \* what the memory behind the last double of a block may hold

Double == Int \cup {NaN}
Block == Seq(Double)

\* A data file: its non-empty lines of fields.
File == Seq(Block \ {<<>>})

\* A header and rows, which need not be as long as the header.
Frame == [label : Seq(STRING), data : Seq(Block)]

\* A mean, as the sum and the count of the summands.
Ratio == [sum : Int, n : Nat \ {0}]

\* NaN and Failed are nothing else; Failed is no result of any operator here.
ASSUME FramesAssumption ==
    /\ NaN \notin Int \cup Ratio
    /\ Failed \notin Double \cup Block \cup Seq(Block) \cup BOOLEAN \cup Seq(BOOLEAN)
    /\ Failed \notin Frame \cup Seq(Ratio \cup {NaN})
    /\ Junk \subseteq Double
    /\ Junk # {}

-----------------------------------------------------------------------------
(* Datablock                                                               *)

\* Datablock::get.  The check index > size() lets index = size() through: it
\* reads what lies behind the vector, or a null pointer if there is no vector.
get(b, index) ==
    IF index \in 0 .. Len(b) - 1 THEN {b[index + 1]}
    ELSE IF index = Len(b) /\ b # <<>> THEN Junk
    ELSE {Failed}

\* Bug: index = size() makes the block longer.
SetGrowing(b, index, value) ==
    IF index \in 0 .. Len(b) - 1 THEN {[b EXCEPT ![index + 1] = value]}
    ELSE IF index = Len(b) THEN {Append(b, value)}
    ELSE {Failed}

\* Datablock::set.  With index = size() the value goes behind the vector, where
\* it is lost and may damage the heap.
set(b, index, value) ==
    IF index \in 0 .. Len(b) - 1 THEN {[b EXCEPT ![index + 1] = value]}
    ELSE IF index = Len(b) /\ b # <<>> THEN {b, Failed}
    ELSE {Failed}

Appended(seqs, values) == {Append(s, v) : s \in seqs, v \in values}

\* The sequences with one outcome of each set; Failed if one may fail.
Sequenced(outcomes) ==
    LET upto[k \in 0 .. Len(outcomes)] ==
          IF k = 0 THEN {<<>>}
          ELSE Appended(upto[k - 1], outcomes[k] \ {Failed})
    IN  upto[Len(outcomes)]
          \cup {o \in {Failed} : \E k \in DOMAIN outcomes : o \in outcomes[k]}

\* Datablock::select.
selectBlock(b, cols) == Sequenced([k \in DOMAIN cols |-> get(b, cols[k])])

\* What follows an outcome: Op on the value, or the failure passed on.
Then(outcomes, Op(_)) ==
    UNION {IF o = Failed THEN {Failed} ELSE Op(o) : o \in outcomes}
-----------------------------------------------------------------------------
(* DataFrame                                                               *)

EmptyFrame == [label |-> <<>>, data |-> <<>>]

columns(f) == Len(f.label)
rows(f) == Len(f.data)

ColumnName(i) == "Column " \o ToString(i)

\* DataFrame(filename), for a file of non-empty lines of fields: column 0 is
\* the number of the line, the header is as long as the longest row.
Load(lines) ==
    LET maxcols == CHOOSE m \in {Len(lines[k]) + 1 : k \in DOMAIN lines} \cup {1} :
                       \A k \in DOMAIN lines : Len(lines[k]) + 1 <= m
    IN  [label |-> [i \in 1..maxcols |-> IF i = 1 THEN "index" ELSE ColumnName(i - 1)],
         data |-> [k \in DOMAIN lines |-> <<k>> \o lines[k]]]

setLabels(f, labels) == [f EXCEPT !.label = labels]

\* setLabel.  index = size() assigns to a string that does not exist.
setLabel(f, name, index) ==
    IF index \in 0 .. columns(f) - 1
    THEN {[f EXCEPT !.label[index + 1] = name]}
    ELSE IF index = columns(f) /\ f.label # <<>> THEN {f, Failed}
    ELSE {Failed}

extend(f, g) ==
    IF f.label # g.label THEN {Failed}
    ELSE {[f EXCEPT !.data = @ \o g.data]}

\* Bug: the first row is left out.
AddColumnSkippingFirst(f, name, default_val) ==
    [label |-> Append(f.label, name),
     data |-> [k \in DOMAIN f.data |->
                  IF k = 1 THEN f.data[k] ELSE Append(f.data[k], default_val)]]

addColumn(f, name, default_val) ==
    [label |-> Append(f.label, name),
     data |-> [k \in DOMAIN f.data |-> Append(f.data[k], default_val)]]

addRow(f) == [f EXCEPT !.data = Append(@, [i \in 1..columns(f) |-> 0])]

clear(f) == [f EXCEPT !.data = <<>>]

\* getColumn: the first column of that name, or -1.
getColumn(f, name) ==
    LET found == {i \in DOMAIN f.label : f.label[i] = name}
    IN  IF found = {} THEN -1
        ELSE (CHOOSE i \in found : \A j \in found : i <= j) - 1

\* Bug: the columns of the rows come in reverse order.
SelectReversed(f, cols) ==
    IF \E k \in DOMAIN cols : cols[k] \notin 0 .. columns(f) - 1 THEN {Failed}
    ELSE {IF d = Failed THEN Failed
          ELSE [label |-> [k \in DOMAIN cols |-> f.label[cols[k] + 1]], data |-> d] :
             d \in Sequenced([k \in DOMAIN f.data |->
                      selectBlock(f.data[k], [i \in DOMAIN cols |-> cols[Len(cols) + 1 - i]])])}

\* select(indexes).  label[col] is not range-checked; a column past the header
\* is a read of a string that does not exist.
select(f, cols) ==
    IF \E k \in DOMAIN cols : cols[k] \notin 0 .. columns(f) - 1 THEN {Failed}
    ELSE {IF d = Failed THEN Failed
          ELSE [label |-> [k \in DOMAIN cols |-> f.label[cols[k] + 1]], data |-> d] :
             d \in Sequenced([k \in DOMAIN f.data |-> selectBlock(f.data[k], cols)])}

\* select(names), which throws if a name is not found.
selectNames(f, names) == select(f, [k \in DOMAIN names |-> getColumn(f, names[k])])

\* The rows for which chosen is TRUE, in their order.
Keep(f, chosen) ==
    LET kept[k \in 0 .. rows(f)] ==
          IF k = 0 THEN <<>>
          ELSE IF chosen[k] THEN Append(kept[k - 1], f.data[k])
          ELSE kept[k - 1]
    IN  [f EXCEPT !.data = kept[rows(f)]]

Filtered(f, Verdicts(_)) ==
    {IF c = Failed THEN Failed ELSE Keep(f, c) :
        c \in Sequenced([k \in DOMAIN f.data |-> Verdicts(f.data[k])])}

\* where(col, p).
where(f, col, p) ==
    Filtered(f, LAMBDA b : {IF v = Failed THEN Failed ELSE v \in p : v \in get(b, col)})

\* Bug: the predicates after one that is false are evaluated too.
WhereManyWithoutBreak(f, cols, ps) ==
    Filtered(f, LAMBDA b :
        {IF vs = Failed THEN Failed ELSE \A i \in DOMAIN cols : vs[i] \in ps[i] :
            vs \in selectBlock(b, cols)})

\* where(cols, ps): a row is tested up to the first predicate that is false.
whereMany(f, cols, ps) ==
    LET Verdicts(b) ==
          LET from[i \in 1 .. Len(cols) + 1] ==
                IF i > Len(cols) THEN {TRUE}
                ELSE UNION {IF v = Failed THEN {Failed}
                            ELSE IF v \in ps[i] THEN from[i + 1]
                            ELSE {FALSE} : v \in get(b, cols[i])}
          IN  from[1]
    IN  Filtered(f, Verdicts)
-----------------------------------------------------------------------------
(* DataFrameHelper                                                         *)

Plus(a, b) == IF NaN \in {a, b} THEN NaN ELSE a + b

Sum(s) == LET total[k \in 0 .. Len(s)] == IF k = 0 THEN 0 ELSE Plus(total[k - 1], s[k])
          IN  total[Len(s)]

\* A mean is kept as its sum and its count; 0/0 is NaN.
Mean(s) == IF s = <<>> \/ Sum(s) = NaN THEN NaN ELSE [sum |-> Sum(s), n |-> Len(s)]

\* Bug: the mean of the rows but the first.
AverageSkippingFirst(f) ==
    LET cols == [i \in 1..columns(f) |-> i - 1]
    IN  {IF d = Failed THEN Failed
         ELSE [i \in DOMAIN cols |-> Mean([k \in 1 .. Len(d) - 1 |-> d[k + 1][i]])] :
            d \in Sequenced([k \in DOMAIN f.data |-> selectBlock(f.data[k], cols)])}

\* GetAverage: the one row of the result, a mean per column of the header.
GetAverage(f) ==
    LET cols == [i \in 1..columns(f) |-> i - 1]
    IN  {IF d = Failed THEN Failed
         ELSE [i \in DOMAIN cols |-> Mean([k \in DOMAIN d |-> d[k][i]])] :
            d \in Sequenced([k \in DOMAIN f.data |-> selectBlock(f.data[k], cols)])}
=============================================================================
