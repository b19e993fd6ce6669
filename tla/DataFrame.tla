----------------------------- MODULE DataFrame -----------------------------
(***************************************************************************)
(* DataFrame objects in use: a program that loads files, relabels, grows,  *)
(* joins, filters and projects frames in any order.  A call that throws    *)
(* leaves the objects alone (each checks before it changes anything), so   *)
(* it is no step here.                                                     *)
(***************************************************************************)
EXTENDS Frames

CONSTANTS
    Objects,        \* the DataFrame variables of the program
    Files,          \* the data files
    Names,          \* the column names the program uses
    Cells,          \* the numbers the program stores
    MaxRows,        \* bound on the rows of a frame
    MaxColumns,     \* bound on the columns of a header and of a row
    MaxCalls        \* bound on the calls of the program

ASSUME DataFrameAssumption ==
    /\ Files \subseteq File
    /\ Cells \subseteq Int
    /\ MaxRows \in Nat /\ MaxColumns \in Nat /\ MaxCalls \in Nat
    /\ Names \subseteq STRING
    \* That a string is a string has to be said: TLAPS does not know it.
    /\ \A i \in 0 .. MaxColumns : {"index", ColumnName(i)} \subseteq STRING

VARIABLES
    frames,         \* per object: the frame it holds
    loose,          \* history: the objects whose rows need not fit the header
    calls           \* the number of calls so far

vars == <<frames, loose, calls>>

Init ==
    /\ frames = [o \in Objects |-> EmptyFrame]
    /\ loose = {}
    /\ calls = 0
-----------------------------------------------------------------------------
Small(f) == /\ rows(f) <= MaxRows
            /\ columns(f) <= MaxColumns
            /\ \A k \in DOMAIN f.data : Len(f.data[k]) <= MaxColumns

\* o is given one of the frames in outcomes.
Assign(o, outcomes) ==
    \E f \in outcomes \ {Failed} :
        /\ Small(f)
        /\ frames' = [frames EXCEPT ![o] = f]

Loosen(o, l) == loose' = IF l THEN loose \cup {o} ELSE loose \ {o}

Fits(f) == \A k \in DOMAIN f.data : Len(f.data[k]) = columns(f)

\* o = DataFrame(filename)
Read(o, file) ==
    /\ Assign(o, {Load(file)})
    /\ Loosen(o, ~Fits(Load(file)))

\* o.setLabels(labels)
Relabel(o, labels) ==
    /\ Assign(o, {setLabels(frames[o], labels)})
    /\ Loosen(o, \/ o \in loose
                 \/ rows(frames[o]) > 0 /\ Len(labels) # columns(frames[o]))

\* o.setLabel(name, index)
RelabelOne(o, name, index) ==
    /\ Assign(o, setLabel(frames[o], name, index))
    /\ UNCHANGED loose

\* o.extend(src); nobody extends a frame by itself.
Extend(o, src) ==
    /\ o # src
    /\ Assign(o, extend(frames[o], frames[src]))
    /\ Loosen(o, o \in loose \/ src \in loose)

AddColumn(o, name, default_val) ==
    /\ Assign(o, {addColumn(frames[o], name, default_val)})
    /\ UNCHANGED loose

AddRow(o) ==
    /\ Assign(o, {addRow(frames[o])})
    /\ UNCHANGED loose

Clear(o) ==
    /\ Assign(o, {clear(frames[o])})
    /\ Loosen(o, FALSE)

\* o.getData()[k].set(index, value)
SetCell(o, k, index, value) ==
    /\ k \in DOMAIN frames[o].data
    /\ \E b \in set(frames[o].data[k], index, value) \ {Failed} :
           frames' = [frames EXCEPT ![o].data[k] = b]
    /\ UNCHANGED loose

\* o.getData().back().add(value), as main.cc does
AddCell(o, value) ==
    /\ rows(frames[o]) > 0
    /\ Assign(o, {[frames[o] EXCEPT !.data[rows(frames[o])] = Append(@, value)]})
    /\ Loosen(o, TRUE)

\* o = src.where(col, p)
Where(o, src, col, p) ==
    /\ Assign(o, where(frames[src], col, p))
    /\ Loosen(o, src \in loose)

\* o = src.where(cols, ps)
WhereMany(o, src, cols, ps) ==
    /\ Assign(o, whereMany(frames[src], cols, ps))
    /\ Loosen(o, src \in loose)

\* o = src.select(names)
Select(o, src, names) ==
    /\ Assign(o, selectNames(frames[src], names))
    /\ Loosen(o, FALSE)

Indexes == -1 .. MaxColumns
Predicates == SUBSET Cells

Call ==
    \E o \in Objects :
        \/ \E file \in Files : Read(o, file)
        \/ \E n \in 0..MaxColumns : \E labels \in [1..n -> Names] : Relabel(o, labels)
        \/ \E name \in Names, index \in Indexes : RelabelOne(o, name, index)
        \/ \E src \in Objects : Extend(o, src)
        \/ \E name \in Names, v \in Cells : AddColumn(o, name, v)
        \/ AddRow(o)
        \/ Clear(o)
        \/ \E k \in 1..MaxRows, index \in Indexes, v \in Cells : SetCell(o, k, index, v)
        \/ \E v \in Cells : AddCell(o, v)
        \/ \E src \in Objects, col \in Indexes, p \in Predicates : Where(o, src, col, p)
        \/ \E src \in Objects, c1, c2 \in Indexes, p1, p2 \in Predicates :
               WhereMany(o, src, <<c1, c2>>, <<p1, p2>>)
        \/ \E src \in Objects, n \in 1..MaxColumns : \E names \in [1..n -> Names] :
               Select(o, src, names)

Next == calls < MaxCalls /\ calls' = calls + 1 /\ Call

Spec == Init /\ [][Next]_vars
-----------------------------------------------------------------------------
\* The objects hold frames of bounded size.
TypeOK ==
    /\ frames \in [Objects -> Frame]
    /\ \A o \in Objects : Small(frames[o])
    /\ loose \subseteq Objects
    /\ calls \in 0..MaxCalls

\* Every row has a column per label, unless the file was ragged, rows were
\* relabelled with more or fewer names, or a row was grown through getData():
\* growing, joining, filtering and projecting keep rows and header together.
TidyRowsFit == \A o \in Objects \ loose : Fits(frames[o])

\* where(cols, ps) "to speed up mutiple filters" (DataFrame.hh:135-139) returns,
\* or throws, what where(cols[0], ps[0]).where(cols[1], ps[1]) does, on ragged
\* frames and with wrong columns too.
WhereManyIsChain ==
    \A o \in Objects : \A c1, c2 \in Indexes : \A p1, p2 \in Predicates :
        whereMany(frames[o], <<c1, c2>>, <<p1, p2>>)
            = Then(where(frames[o], c1, p1), LAMBDA f : where(f, c2, p2))

\* Columns selected by name and then filtered by their new position, as
\* main.cc:62-64 does, are the columns of the rows filtered by name.
SelectThenWhere ==
    \A o \in Objects \ loose : \A n1, n2 \in Names : \A p \in Predicates :
        Then(selectNames(frames[o], <<n1, n2>>), LAMBDA f : where(f, 1, p))
            = IF -1 \in {getColumn(frames[o], n1), getColumn(frames[o], n2)} THEN {Failed}
              ELSE Then(where(frames[o], getColumn(frames[o], n2), p),
                        LAMBDA f : selectNames(f, <<n1, n2>>))

\* On a frame whose rows fit, GetAverage returns and each mean of a column lies
\* between two values of the column, or is NaN with a NaN in the column or no
\* row at all.
AverageInRange ==
    \A o \in Objects \ loose : \A avg \in GetAverage(frames[o]) :
        /\ avg # Failed
        /\ \A i \in 1 .. columns(frames[o]) :
               LET column == {frames[o].data[k][i] : k \in DOMAIN frames[o].data} IN
               IF avg[i] = NaN THEN column = {} \/ NaN \in column
               ELSE \E lo, hi \in column :
                        /\ lo * avg[i].n <= avg[i].sum
                        /\ avg[i].sum <= hi * avg[i].n
                        /\ avg[i].n = rows(frames[o])
=============================================================================
