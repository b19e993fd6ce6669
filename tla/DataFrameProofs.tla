--------------------------- MODULE DataFrameProofs ---------------------------
(***************************************************************************)
(* The invariants of DataFrame, for any objects, files, names and numbers, *)
(* and for any bounds.                                                     *)
(***************************************************************************)
EXTENDS DataFrame, FramesProofs

-----------------------------------------------------------------------------
(* What each call returns is a frame, and fits if what it is made of fits. *)

\* A frame that fits is one whose rows are as long as its header.
LEMMA FitsIs == \A f \in Frame : Fits(f) <=> Fitting(f)
<1> SUFFICES ASSUME NEW f \in Frame
             PROVE  Fits(f) <=> Fitting(f)
  OBVIOUS
<1>1. DOMAIN f.data = 1 .. rows(f)
  BY DEF Frame, rows
<1>2. QED
  BY <1>1, FrameIs DEF Fits, Fitting

\* A file of bounded width is read as a frame.
LEMMA LoadType ==
  ASSUME NEW lines \in File, Small(Load(lines))
  PROVE  Load(lines) \in Frame
<1> DEFINE f == Load(lines)
           Name(i) == IF i = 1 THEN "index" ELSE ColumnName(i - 1)
<1>1. IsFrame(f)
  BY LoadIs
<1>2. f.label = [i \in DOMAIN f.label |-> Name(i)]
  BY DEF Load
<1>3. Len(f.label) \in Nat /\ Len(f.label) <= MaxColumns /\ DOMAIN f.label = 1 .. Len(f.label)
  BY <1>1 DEF Small, IsFrame, columns
<1>4. \A i \in 1 .. Len(f.label) : Name(i) \in STRING
  <2> SUFFICES ASSUME NEW i \in 1 .. Len(f.label)
               PROVE  Name(i) \in STRING
    OBVIOUS
  <2>1. i - 1 \in 0 .. MaxColumns
    BY <1>3, DataFrameAssumption
  <2>2. "index" \in STRING /\ ColumnName(i - 1) \in STRING
    BY <2>1, DataFrameAssumption
  <2>3. QED
    BY <2>2
<1> HIDE DEF f
<1>5. f.label \in Seq(STRING)
  <2>1. f.label \in [1 .. Len(f.label) -> STRING]
    <3> HIDE DEF Name
    <3>1. QED
      BY <1>2, <1>3, <1>4
  <2>2. QED
    BY <1>3, <2>1
<1>6. QED
  BY <1>1, <1>5, IsAFrame DEF f

\* setLabels.
LEMMA SetLabelsType ==
  ASSUME NEW f \in Frame, NEW labels \in Seq(STRING)
  PROVE  /\ setLabels(f, labels) \in Frame
         /\ Fits(f) /\ (rows(f) > 0 => Len(labels) = columns(f)) => Fits(setLabels(f, labels))
<1> DEFINE g == setLabels(f, labels)
<1>1. g \in Frame /\ g.data = f.data /\ columns(g) = Len(labels)
  BY DEF setLabels, Frame, columns
<1>2. ASSUME rows(f) = 0 PROVE DOMAIN f.data = {}
  BY <1>2 DEF Frame, rows
<1>3. rows(f) \in Nat
  BY DEF Frame, rows
<1> HIDE DEF g
<1>4. ASSUME Fits(f), rows(f) > 0 => Len(labels) = columns(f)
      PROVE  Fits(g)
  BY <1>1, <1>2, <1>3, <1>4 DEF Fits
<1>5. QED
  BY <1>1, <1>4 DEF g

\* setLabel.
LEMMA SetLabelType ==
  ASSUME NEW f \in Frame, NEW name \in STRING, NEW index \in Int,
         NEW g \in setLabel(f, name, index), g # Failed
  PROVE  g \in Frame /\ (Fits(f) => Fits(g))
<1>1. CASE g = f
  BY <1>1
<1>2. CASE index \in 0 .. columns(f) - 1 /\ g = [f EXCEPT !.label[index + 1] = name]
  <2>1. f.label \in Seq(STRING) /\ index + 1 \in 1 .. Len(f.label)
    BY <1>2 DEF Frame, columns
  <2>2. [f.label EXCEPT ![index + 1] = name] \in Seq(STRING)
    BY <2>1
  <2>3. Len([f.label EXCEPT ![index + 1] = name]) = Len(f.label)
    BY <2>1
  <2>4. g = [f EXCEPT !.label = [f.label EXCEPT ![index + 1] = name]]
    BY <1>2 DEF Frame
  <2>5. g \in Frame /\ g.data = f.data /\ columns(g) = columns(f)
    BY <2>2, <2>3, <2>4 DEF Frame, columns
  <2>6. QED
    BY <2>5 DEF Fits
<1>3. QED
  BY <1>1, <1>2 DEF setLabel

\* extend.
LEMMA ExtendType ==
  ASSUME NEW f \in Frame, NEW g \in Frame, NEW h \in extend(f, g), h # Failed
  PROVE  h \in Frame /\ (Fits(f) /\ Fits(g) => Fits(h))
<1>1. f.label = g.label /\ h = [f EXCEPT !.data = f.data \o g.data]
  BY DEF extend
<1>2. f.data \in Seq(Block) /\ g.data \in Seq(Block)
  BY DEF Frame
<1>3. f.data \o g.data \in Seq(Block)
  BY <1>2
<1>4. h \in Frame /\ h.label = f.label /\ h.data = f.data \o g.data
  BY <1>1, <1>3 DEF Frame
<1>5. ASSUME Fits(f), Fits(g), NEW k \in DOMAIN h.data
      PROVE  Len(h.data[k]) = columns(h)
  <2>1. \/ k \in DOMAIN f.data /\ h.data[k] = f.data[k]
        \/ k - Len(f.data) \in DOMAIN g.data /\ h.data[k] = g.data[k - Len(f.data)]
    <3>1. \A s, t \in Seq(Block) : \A i \in DOMAIN (s \o t) :
             \/ i \in DOMAIN s /\ (s \o t)[i] = s[i]
             \/ i - Len(s) \in DOMAIN t /\ (s \o t)[i] = t[i - Len(s)]
      OBVIOUS
    <3>2. k \in DOMAIN (f.data \o g.data) /\ h.data[k] = (f.data \o g.data)[k]
      BY <1>4, <1>5
    <3>3. QED
      BY <1>2, <3>1, <3>2, Zenon
  <2>2. QED
    BY <1>1, <1>4, <1>5, <2>1 DEF Fits, columns
<1>6. QED
  BY <1>4, <1>5 DEF Fits

\* addColumn: every row grows with the header.
LEMMA AddColumnType ==
  ASSUME NEW f \in Frame, NEW name \in STRING, NEW v \in Double
  PROVE  addColumn(f, name, v) \in Frame /\ (Fits(f) => Fits(addColumn(f, name, v)))
<1> DEFINE D == [k \in DOMAIN f.data |-> Append(f.data[k], v)]
           g == addColumn(f, name, v)
<1>1. Len(f.data) \in Nat /\ DOMAIN f.data = 1 .. Len(f.data)
  BY DEF Frame
<1>2. \A k \in 1 .. Len(f.data) : f.data[k] \in Seq(Double)
  BY ElementOfSeq DEF Frame, Block
<1>3. \A k \in 1 .. Len(f.data) : /\ Append(f.data[k], v) \in Block
                                 /\ Len(Append(f.data[k], v)) = Len(f.data[k]) + 1
  BY <1>2 DEF Block
<1>4. D \in Seq(Block) /\ DOMAIN D = DOMAIN f.data
  BY <1>1, <1>3
<1>5. \A k \in DOMAIN D : D[k] = Append(f.data[k], v)
  OBVIOUS
<1> HIDE DEF D
<1>6. f.label \in Seq(STRING)
  BY DEF Frame
<1>7. Append(f.label, name) \in Seq(STRING) /\ Len(Append(f.label, name)) = Len(f.label) + 1
  BY <1>6
<1>8. g = [label |-> Append(f.label, name), data |-> D]
  BY DEF addColumn, D
<1> HIDE DEF g
<1>9. g \in Frame /\ g.data = D /\ columns(g) = columns(f) + 1
  BY <1>4, <1>7, <1>8 DEF Frame, columns
<1>10. Fits(f) => Fits(g)
  BY <1>1, <1>3, <1>4, <1>5, <1>9 DEF Fits
<1>11. QED
  BY <1>9, <1>10 DEF g

\* addRow: a row of zeros as long as the header.
LEMMA AddRowType ==
  ASSUME NEW f \in Frame
  PROVE  addRow(f) \in Frame /\ (Fits(f) => Fits(addRow(f)))
<1> DEFINE row == [i \in 1 .. columns(f) |-> 0]
           g == addRow(f)
<1>1. columns(f) \in Nat /\ 0 \in Double
  BY DEF Frame, columns, Double
<1>2. row \in Block /\ Len(row) = columns(f)
  BY <1>1 DEF Block
<1> HIDE DEF row
<1>3. f.data \in Seq(Block)
  BY DEF Frame
<1>4. Append(f.data, row) \in Seq(Block)
  BY <1>2, <1>3
<1>5. g = [f EXCEPT !.data = Append(f.data, row)]
  BY DEF addRow, row
<1> HIDE DEF g
<1>6. g \in Frame /\ g.data = Append(f.data, row) /\ columns(g) = columns(f)
  BY <1>4, <1>5 DEF Frame, columns
<1>7. ASSUME Fits(f), NEW k \in DOMAIN g.data
      PROVE  Len(g.data[k]) = columns(g)
  <2>1. (k \in DOMAIN f.data /\ g.data[k] = f.data[k]) \/ g.data[k] = row
    BY <1>2, <1>3, <1>6, <1>7
  <2>2. QED
    BY <1>2, <1>6, <1>7, <2>1 DEF Fits
<1>8. QED
  BY <1>6, <1>7 DEF Fits, g

\* clear.
LEMMA ClearType == \A f \in Frame : clear(f) \in Frame /\ Fits(clear(f))
<1> SUFFICES ASSUME NEW f \in Frame
             PROVE  clear(f) \in Frame /\ Fits(clear(f))
  OBVIOUS
<1>1. clear(f) = [f EXCEPT !.data = <<>>] /\ <<>> \in Seq(Block) /\ DOMAIN <<>> = {}
  BY DEF clear
<1>2. QED
  BY <1>1 DEF Frame, Fits

\* set, on one of the rows.
LEMMA SetType ==
  ASSUME NEW f \in Frame, NEW k \in DOMAIN f.data, NEW index \in Int, NEW v \in Double,
         NEW b \in set(f.data[k], index, v), b # Failed
  PROVE  /\ [f EXCEPT !.data[k] = b] \in Frame
         /\ Small(f) => Small([f EXCEPT !.data[k] = b])
         /\ Fits(f) => Fits([f EXCEPT !.data[k] = b])
<1> DEFINE D == [f.data EXCEPT ![k] = b]
           g == [f EXCEPT !.data[k] = b]
<1>1. f.data \in Seq(Block)
  BY DEF Frame
<1>2. f.data[k] \in Seq(Double)
  BY <1>1, ElementOfSeq DEF Block
<1>3. b \in Seq(Double) /\ Len(b) = Len(f.data[k])
  <2>1. CASE b = f.data[k]
    BY <1>2, <2>1
  <2>2. CASE index \in 0 .. Len(f.data[k]) - 1 /\ b = [f.data[k] EXCEPT ![index + 1] = v]
    <3>1. \A s \in Seq(Double) : \A i \in 0 .. Len(s) - 1 :
             [s EXCEPT ![i + 1] = v] \in Seq(Double) /\ Len([s EXCEPT ![i + 1] = v]) = Len(s)
      OBVIOUS
    <3>2. QED
      BY <1>2, <2>2, <3>1
  <2>3. QED
    BY <2>1, <2>2 DEF set
<1>4. D \in Seq(Block) /\ Len(D) = Len(f.data) /\ DOMAIN D = DOMAIN f.data
  BY <1>1, <1>3 DEF Block
<1>5. \A j \in DOMAIN f.data : Len(D[j]) = Len(f.data[j])
  BY <1>3
<1> HIDE DEF D
<1>6. g = [f EXCEPT !.data = D]
  BY DEF D, Frame
<1> HIDE DEF g
<1>7. g \in Frame /\ g.data = D /\ columns(g) = columns(f) /\ rows(g) = rows(f)
  BY <1>4, <1>6 DEF Frame, columns, rows
<1>8. (Small(f) => Small(g)) /\ (Fits(f) => Fits(g))
  BY <1>4, <1>5, <1>7 DEF Small, Fits
<1>9. QED
  BY <1>7, <1>8 DEF g

\* add, on the last row.
LEMMA AddType ==
  ASSUME NEW f \in Frame, rows(f) > 0, NEW v \in Double
  PROVE  [f EXCEPT !.data[rows(f)] = Append(@, v)] \in Frame
<1> DEFINE b == Append(f.data[rows(f)], v)
           D == [f.data EXCEPT ![rows(f)] = b]
<1>1. f.data \in Seq(Block) /\ rows(f) \in DOMAIN f.data
  BY DEF Frame, rows
<1>2. f.data[rows(f)] \in Seq(Double)
  BY <1>1, ElementOfSeq DEF Block
<1>3. b \in Block
  BY <1>2 DEF Block
<1> HIDE DEF b
<1>4. D \in Seq(Block)
  BY <1>1, <1>3
<1>5. [f EXCEPT !.data[rows(f)] = Append(@, v)] = [f EXCEPT !.data = D]
  BY DEF D, b, Frame
<1> HIDE DEF D
<1>6. QED
  BY <1>4, <1>5 DEF Frame

\* Rows of a frame are a frame, and fit if the frame does.
LEMMA KeptType ==
  ASSUME NEW f \in Frame, NEW chosen
  PROVE  Keep(f, chosen) \in Frame /\ (Fits(f) => Fits(Keep(f, chosen)))
<1> DEFINE g == Keep(f, chosen)
<1>1. KeptOf(f, chosen, g)
  BY Kept, FrameIs
<1> HIDE DEF g
<1>2. g \in Frame
  BY <1>1, IsAFrame DEF KeptOf, Frame
<1>3. ASSUME Fitting(f) PROVE Fitting(g)
  <2>1. columns(g) = columns(f) /\ IsFrame(g)
    BY <1>1 DEF KeptOf, columns
  <2>2. \A i \in 1 .. rows(g) : \E j \in 1 .. rows(f) : g.data[i] = f.data[j]
    BY <1>1 DEF KeptOf
  <2>3. QED
    BY <1>3, <2>1, <2>2 DEF Fitting
<1>4. QED
  BY <1>2, <1>3, FitsIs DEF g

\* where(col, p) and where(cols, ps), whichever columns they ask for.
LEMMA FilterType ==
  ASSUME NEW f \in Frame, NEW col, NEW p, NEW cols, NEW ps,
         NEW g \in where(f, col, p) \cup whereMany(f, cols, ps), g # Failed
  PROVE  g \in Frame /\ (Fits(f) => Fits(g))
<1>1. ASSUME g \in where(f, col, p)
      PROVE  \E c : g = Keep(f, c)
  BY <1>1 DEF where, Filtered
<1>2. ASSUME g \in whereMany(f, cols, ps)
      PROVE  \E c : g = Keep(f, c)
  BY <1>2 DEF whereMany, Filtered
<1>3. QED
  BY <1>1, <1>2, KeptType

\* select: the rows are as long as the new header even if they were ragged.
LEMMA SelectType ==
  ASSUME NEW f \in Frame, NEW cols \in Seq(Int), NEW g \in select(f, cols), g # Failed
  PROVE  g \in Frame /\ Fits(g)
<1> DEFINE L == [k \in DOMAIN cols |-> f.label[cols[k] + 1]]
           outs == [k \in DOMAIN f.data |-> selectBlock(f.data[k], cols)]
           Wide == {b \in Block : Len(b) = Len(cols)}
<1>1. /\ \A k \in DOMAIN cols : cols[k] \in 0 .. columns(f) - 1
      /\ \E d \in Sequenced(outs) : d # Failed /\ g = [label |-> L, data |-> d]
  BY DEF select
<1>2. PICK d \in Sequenced(outs) : d # Failed /\ g = [label |-> L, data |-> d]
  BY <1>1
<1>3. f.label \in Seq(STRING) /\ f.data \in Seq(Block)
  BY DEF Frame
<1>4. L \in Seq(STRING) /\ Len(L) = Len(cols)
  <2>1. DOMAIN cols = 1 .. Len(cols) /\ Len(cols) \in Nat
    OBVIOUS
  <2>2. \A k \in 1 .. Len(cols) : f.label[cols[k] + 1] \in STRING
    <3>1. \A i \in 1 .. Len(f.label) : f.label[i] \in STRING
      BY <1>3
    <3>2. \A k \in 1 .. Len(cols) : cols[k] + 1 \in 1 .. Len(f.label)
      <4>1. columns(f) = Len(f.label) /\ Len(f.label) \in Nat
        BY <1>3 DEF columns
      <4>2. \A k \in 1 .. Len(cols) : cols[k] \in 0 .. columns(f) - 1
        BY <1>1, <2>1
      <4>3. \A c \in 0 .. columns(f) - 1 : c + 1 \in 1 .. Len(f.label)
        BY <4>1
      <4>4. QED
        BY <4>2, <4>3
    <3>3. QED
      BY <3>1, <3>2
  <2>3. QED
    BY <2>1, <2>2
<1>5. \A k \in DOMAIN f.data : selectBlock(f.data[k], cols) \subseteq Wide \cup {Failed}
  BY <1>3, ElementOfSeq, SelectBlockType
<1>6. outs \in Seq(SUBSET (Wide \cup {Failed})) /\ Len(outs) = Len(f.data)
  <2> DEFINE Q == Wide \cup {Failed}
             sel(k) == selectBlock(f.data[k], cols)
  <2>1. \A k \in DOMAIN f.data : sel(k) \in SUBSET Q
    BY <1>5
  <2>2. DOMAIN f.data = 1 .. Len(f.data) /\ Len(f.data) \in Nat
    BY <1>3
  <2> HIDE DEF Q, sel
  <2>3. [k \in DOMAIN f.data |-> sel(k)] \in Seq(SUBSET Q)
        /\ Len([k \in DOMAIN f.data |-> sel(k)]) = Len(f.data)
    BY <2>1, <2>2
  <2>4. QED
    BY <2>3 DEF sel, Q
<1>7. d \in Seq(Wide)
  <2> HIDE DEF outs, Wide
  <2>1. QED
    BY <1>2, <1>6, SequencedType
<1>8. \A k \in DOMAIN d : d[k] \in Block /\ Len(d[k]) = Len(cols)
  BY <1>7, ElementOfSeq
<1>9. d \in Seq(Block)
  BY <1>7, <1>8
<1> HIDE DEF L, outs, Wide
<1>10. g \in Frame /\ g.data = d /\ columns(g) = Len(cols)
  BY <1>2, <1>4, <1>9 DEF Frame, columns
<1>11. QED
  BY <1>8, <1>10 DEF Fits

\* getColumn finds the first label of that name.
LEMMA ColumnIs ==
  ASSUME NEW f, IsFrame(f), NEW name
  PROVE  /\ getColumn(f, name) \in -1 .. columns(f) - 1
         /\ getColumn(f, name) # -1 =>
               /\ f.label[getColumn(f, name) + 1] = name
               /\ \A j \in 1 .. getColumn(f, name) : f.label[j] # name
<1> DEFINE found == {i \in DOMAIN f.label : f.label[i] = name}
           n == Len(f.label)
           first == CHOOSE i \in found : \A j \in found : i <= j
<1>1. n \in Nat /\ DOMAIN f.label = 1..n /\ columns(f) = n
  BY DEF IsFrame, columns
<1>2. getColumn(f, name) = IF found = {} THEN -1 ELSE first - 1
  BY DEF getColumn
<1>3. ASSUME found # {}
      PROVE  \E i \in found : \A j \in found : i <= j
  <2> DEFINE S == {m \in 0..n : \A j \in 1..m : j \notin found}
  <2>1. 0 \in S
    BY <1>1
  <2>2. ~(0..n \subseteq S)
    <3>1. found \subseteq 1..n
      BY <1>1
    <3>2. n \in 0..n /\ n \notin S
      BY <1>1, <1>3, <3>1
    <3>3. QED
      BY <3>2
  <2>3. PICK k \in 0 .. n - 1 : k \in S /\ k + 1 \notin S
    <3> HIDE DEF S
    <3>1. QED
      BY <1>1, <2>1, <2>2, UptoInduction
  <2>4. k + 1 \in found
    BY <1>1, <2>3
  <2>5. \A j \in found : k + 1 <= j
    BY <1>1, <2>3
  <2>6. QED
    BY <2>4, <2>5
<1>4. ASSUME found # {}
      PROVE  first \in found /\ \A j \in found : first <= j
  BY <1>3, <1>4
<1> HIDE DEF first
<1>5. CASE found = {}
  BY <1>1, <1>2, <1>5
<1>6. CASE found # {}
  <2>1. first \in 1..n /\ f.label[first] = name /\ getColumn(f, name) = first - 1
    BY <1>1, <1>2, <1>4, <1>6
  <2>2. \A j \in 1 .. first - 1 : f.label[j] # name
    BY <1>1, <1>4, <1>6, <2>1
  <2>3. QED
    BY <1>1, <2>1, <2>2
<1>7. QED
  BY <1>5, <1>6

\* select, by names.
LEMMA SelectNamesType ==
  ASSUME NEW f \in Frame, NEW n \in Nat, NEW names \in [1..n -> Names],
         NEW g \in selectNames(f, names), g # Failed
  PROVE  g \in Frame /\ Fits(g)
<1> DEFINE cols == [k \in DOMAIN names |-> getColumn(f, names[k])]
<1>1. \A k \in 1..n : getColumn(f, names[k]) \in Int
  <2>1. columns(f) \in Nat
    BY DEF Frame, columns
  <2>2. QED
    BY <2>1, ColumnIs, FrameIs
<1>2. cols \in Seq(Int)
  BY <1>1
<1>3. g \in select(f, cols)
  BY DEF selectNames
<1> HIDE DEF cols
<1>4. QED
  BY <1>2, <1>3, SelectType

-----------------------------------------------------------------------------
(* Type correctness and tidy rows.                                         *)

Inv == TypeOK /\ TidyRowsFit

\* What a call on o leaves: the other objects as they were, o with a frame,
\* which fits unless o is now loose.
Leaves(o) ==
    /\ frames' \in [Objects -> Frame]
    /\ \A x \in Objects \ {o} : frames'[x] = frames[x]
    /\ Small(frames'[o])
    /\ loose' \subseteq loose \cup {o}
    /\ \A x \in Objects \ {o} : x \in loose => x \in loose'
    /\ o \notin loose' => Fits(frames'[o])

\* A call that leaves a frame in one object, and all others alone, keeps the invariant.
LEMMA Left ==
  ASSUME Inv, NEW o \in Objects, Leaves(o), calls < MaxCalls, calls' = calls + 1
  PROVE  Inv'
<1>1. calls' \in 0 .. MaxCalls
  BY DataFrameAssumption DEF Inv, TypeOK
<1>2. \A x \in Objects : Small(frames'[x])
  BY DEF Inv, TypeOK, Leaves
<1>3. loose' \subseteq Objects
  BY DEF Inv, TypeOK, Leaves
<1>4. \A x \in Objects \ loose' : Fits(frames'[x])
  BY DEF Inv, TidyRowsFit, Leaves
<1>5. TypeOK'
  BY <1>1, <1>2, <1>3 DEF TypeOK, Leaves
<1>6. TidyRowsFit'
  BY <1>4 DEF TidyRowsFit
<1>7. QED
  BY <1>5, <1>6 DEF Inv

\* o is given a frame, which fits unless o is now loose.
LEMMA Assigned ==
  ASSUME Inv, NEW o \in Objects, NEW outcomes, Assign(o, outcomes),
         \A f \in outcomes \ {Failed} : Small(f) => f \in Frame,
         loose' \subseteq loose \cup {o}, loose \subseteq loose' \cup {o},
         \A f \in outcomes \ {Failed} : Small(f) /\ o \notin loose' => Fits(f)
  PROVE  Leaves(o)
<1>1. PICK f \in outcomes \ {Failed} : Small(f) /\ frames' = [frames EXCEPT ![o] = f]
  BY DEF Assign
<1>2. f \in Frame /\ frames \in [Objects -> Frame]
  BY <1>1 DEF Inv, TypeOK
<1>3. frames' \in [Objects -> Frame] /\ frames'[o] = f
      /\ \A x \in Objects \ {o} : frames'[x] = frames[x]
  BY <1>1, <1>2
<1>4. o \notin loose' => Fits(frames'[o])
  BY <1>1, <1>3
<1>5. Small(frames'[o])
  BY <1>1, <1>3
<1>6. QED
  BY <1>3, <1>4, <1>5 DEF Leaves

\* What Inv says of an object.
LEMMA Held ==
  ASSUME Inv, NEW o \in Objects
  PROVE  frames[o] \in Frame /\ Small(frames[o]) /\ (o \notin loose => Fits(frames[o]))
BY DEF Inv, TypeOK, TidyRowsFit

\* Labels and numbers of the program are what headers and rows hold.
LEMMA Stored == Names \subseteq STRING /\ Cells \subseteq Double
BY DataFrameAssumption DEF Double

\* DataFrame(filename) leaves a frame.
LEMMA ReadLeaves ==
  ASSUME Inv, NEW o \in Objects, NEW file \in Files, Read(o, file)
  PROVE  Leaves(o)
<1>1. file \in File
  BY DataFrameAssumption
<1>2. \A f \in {Load(file)} \ {Failed} : Small(f) => f \in Frame
  BY <1>1, LoadType
<1>3. loose' = IF ~Fits(Load(file)) THEN loose \cup {o} ELSE loose \ {o}
  BY DEF Read, Loosen
<1>4. loose' \subseteq loose \cup {o} /\ loose \subseteq loose' \cup {o}
  BY <1>3
<1>5. \A f \in {Load(file)} \ {Failed} : Small(f) /\ o \notin loose' => Fits(f)
  BY <1>3
<1>6. Assign(o, {Load(file)})
  BY DEF Read
<1>7. QED
  BY <1>2, <1>4, <1>5, <1>6, Assigned

\* setLabels leaves a frame, whose rows need not fit the new header.
LEMMA RelabelLeaves ==
  ASSUME Inv, NEW o \in Objects, NEW n \in Nat, NEW labels \in [1..n -> Names], Relabel(o, labels)
  PROVE  Leaves(o)
<1> DEFINE g == setLabels(frames[o], labels)
           l == o \in loose \/ (rows(frames[o]) > 0 /\ Len(labels) # columns(frames[o]))
<1>1. labels \in Seq(STRING)
  <2>1. labels \in [1..n -> STRING]
    BY Stored
  <2>2. QED
    BY <2>1
<1>2. frames[o] \in Frame /\ (o \notin loose => Fits(frames[o]))
  BY Held
<1>3. g \in Frame /\ (~l => Fits(g))
  BY <1>1, <1>2, SetLabelsType
<1>4. Assign(o, {g}) /\ loose' = IF l THEN loose \cup {o} ELSE loose \ {o}
  BY DEF Relabel, Loosen
<1> HIDE DEF g, l
<1>5. loose' \subseteq loose \cup {o} /\ loose \subseteq loose' \cup {o} /\ (o \notin loose' => ~l)
  BY <1>4
<1>6. \A f \in {g} \ {Failed} : (Small(f) => f \in Frame) /\ (Small(f) /\ o \notin loose' => Fits(f))
  BY <1>3, <1>5
<1>7. QED
  BY <1>4, <1>5, <1>6, Assigned

\* A call that leaves the objects as loose as they are.
LEMMA Unloosened ==
  ASSUME Inv, NEW o \in Objects, NEW outcomes, Assign(o, outcomes), UNCHANGED loose,
         \A f \in outcomes \ {Failed} : f \in Frame /\ (Fits(frames[o]) => Fits(f))
  PROVE  Leaves(o)
<1>1. loose' \subseteq loose \cup {o} /\ loose \subseteq loose' \cup {o}
  OBVIOUS
<1>2. \A f \in outcomes \ {Failed} : Small(f) /\ o \notin loose' => Fits(f)
  BY Held
<1>3. QED
  BY <1>1, <1>2, Assigned

\* A call whose result is loose if one of the objects S was.
LEMMA Loosened ==
  ASSUME Inv, NEW o \in Objects, NEW outcomes, Assign(o, outcomes),
         NEW S \in SUBSET Objects, Loosen(o, \E x \in S : x \in loose),
         \A f \in outcomes \ {Failed} :
            f \in Frame /\ ((\A x \in S : Fits(frames[x])) => Fits(f))
  PROVE  Leaves(o)
<1>1. loose' = IF \E x \in S : x \in loose THEN loose \cup {o} ELSE loose \ {o}
  BY DEF Loosen
<1>2. loose' \subseteq loose \cup {o} /\ loose \subseteq loose' \cup {o}
  BY <1>1
<1>3. o \notin loose' => \A x \in S : Fits(frames[x])
  BY <1>1, Held
<1>4. QED
  BY <1>2, <1>3, Assigned

\* setLabel leaves a frame.
LEMMA RelabelOneLeaves ==
  ASSUME Inv, NEW o \in Objects, NEW name \in Names, NEW index \in Int, RelabelOne(o, name, index)
  PROVE  Leaves(o)
<1>1. \A f \in setLabel(frames[o], name, index) \ {Failed} :
         f \in Frame /\ (Fits(frames[o]) => Fits(f))
  BY Held, Stored, SetLabelType
<1>2. QED
  BY <1>1, Unloosened DEF RelabelOne

\* addColumn leaves a frame with one more field in header and rows.
LEMMA AddColumnLeaves ==
  ASSUME Inv, NEW o \in Objects, NEW name \in Names, NEW v \in Cells, AddColumn(o, name, v)
  PROVE  Leaves(o)
<1>1. \A f \in {addColumn(frames[o], name, v)} \ {Failed} :
         f \in Frame /\ (Fits(frames[o]) => Fits(f))
  BY Held, Stored, AddColumnType
<1>2. QED
  BY <1>1, Unloosened DEF AddColumn

\* addRow leaves a frame with a row as long as the header.
LEMMA AddRowLeaves ==
  ASSUME Inv, NEW o \in Objects, AddRow(o)
  PROVE  Leaves(o)
<1>1. \A f \in {addRow(frames[o])} \ {Failed} : f \in Frame /\ (Fits(frames[o]) => Fits(f))
  BY Held, AddRowType
<1>2. QED
  BY <1>1, Unloosened DEF AddRow

\* clear leaves a frame without rows.
LEMMA ClearLeaves ==
  ASSUME Inv, NEW o \in Objects, Clear(o)
  PROVE  Leaves(o)
<1>1. \A f \in {clear(frames[o])} \ {Failed} :
         f \in Frame /\ ((\A x \in {} : Fits(frames[x])) => Fits(f))
  BY Held, ClearType
<1>2. Loosen(o, \E x \in {} : x \in loose) /\ {} \in SUBSET Objects
  BY DEF Clear, Loosen
<1>3. QED
  BY <1>1, <1>2, Loosened DEF Clear

\* select(names) leaves a frame, whatever its source looks like.
LEMMA SelectLeaves ==
  ASSUME Inv, NEW o \in Objects, NEW src \in Objects, NEW n \in Nat, NEW names \in [1..n -> Names],
         Select(o, src, names)
  PROVE  Leaves(o)
<1>1. \A f \in selectNames(frames[src], names) \ {Failed} :
         f \in Frame /\ ((\A x \in {} : Fits(frames[x])) => Fits(f))
  BY Held, SelectNamesType
<1>2. Loosen(o, \E x \in {} : x \in loose) /\ {} \in SUBSET Objects
  BY DEF Select, Loosen
<1>3. QED
  BY <1>1, <1>2, Loosened DEF Select

\* extend leaves a frame with the rows of both.
LEMMA ExtendLeaves ==
  ASSUME Inv, NEW o \in Objects, NEW src \in Objects, Extend(o, src)
  PROVE  Leaves(o)
<1>1. \A f \in extend(frames[o], frames[src]) \ {Failed} :
         f \in Frame /\ ((\A x \in {o, src} : Fits(frames[x])) => Fits(f))
  BY Held, ExtendType
<1>2. Assign(o, extend(frames[o], frames[src])) /\ Loosen(o, \E x \in {o, src} : x \in loose)
  BY DEF Extend, Loosen
<1>3. {o, src} \in SUBSET Objects
  OBVIOUS
<1>4. QED
  BY <1>1, <1>2, <1>3, Loosened

\* The filters leave a frame with some of the rows of their source.
LEMMA WhereLeaves ==
  ASSUME Inv, NEW o \in Objects, NEW src \in Objects,
         NEW col, NEW p, NEW cols, NEW ps, Where(o, src, col, p) \/ WhereMany(o, src, cols, ps)
  PROVE  Leaves(o)
<1>1. \A f \in (where(frames[src], col, p) \cup whereMany(frames[src], cols, ps)) \ {Failed} :
         f \in Frame /\ ((\A x \in {src} : Fits(frames[x])) => Fits(f))
  BY Held, FilterType
<1>2. PICK outs \in {where(frames[src], col, p), whereMany(frames[src], cols, ps)} :
         Assign(o, outs)
  BY DEF Where, WhereMany
<1>3. Loosen(o, \E x \in {src} : x \in loose)
  BY DEF Where, WhereMany, Loosen
<1>4. \A f \in outs \ {Failed} : f \in Frame /\ ((\A x \in {src} : Fits(frames[x])) => Fits(f))
  BY <1>1, <1>2
<1>5. {src} \in SUBSET Objects
  OBVIOUS
<1>6. QED
  BY <1>2, <1>3, <1>4, <1>5, Loosened

\* Datablock::set and add leave a frame; what set loses behind a row is in no row.
LEMMA CellLeaves ==
  ASSUME Inv, NEW o \in Objects, NEW k, NEW index \in Int, NEW v \in Cells,
         SetCell(o, k, index, v) \/ AddCell(o, v)
  PROVE  Leaves(o)
<1>1. frames[o] \in Frame /\ Small(frames[o]) /\ v \in Double
  BY Held, Stored
<1>2. CASE SetCell(o, k, index, v)
  <2>1. PICK b \in set(frames[o].data[k], index, v) \ {Failed} :
           frames' = [frames EXCEPT ![o].data[k] = b]
    BY <1>2 DEF SetCell
  <2> DEFINE g == [frames[o] EXCEPT !.data[k] = b]
  <2>2. g \in Frame /\ Small(g) /\ (Fits(frames[o]) => Fits(g))
    BY <1>1, <1>2, <2>1, SetType DEF SetCell
  <2>3. frames' = [frames EXCEPT ![o] = g]
    BY <2>1
  <2> HIDE DEF g
  <2>4. Assign(o, {g})
    BY <2>2, <2>3, FrameIs DEF Assign
  <2>5. \A f \in {g} \ {Failed} : f \in Frame /\ (Fits(frames[o]) => Fits(f))
    BY <2>2
  <2>6. QED
    BY <1>2, <2>4, <2>5, Unloosened DEF SetCell
<1>3. CASE AddCell(o, v)
  <2> DEFINE g == [frames[o] EXCEPT !.data[rows(frames[o])] = Append(@, v)]
  <2>1. g \in Frame
    BY <1>1, <1>3, AddType DEF AddCell
  <2>2. Assign(o, {g}) /\ loose' = loose \cup {o}
    BY <1>3 DEF AddCell, Loosen
  <2> HIDE DEF g
  <2>3. \A f \in {g} \ {Failed} : Small(f) => f \in Frame
    BY <2>1
  <2>4. \A f \in {g} \ {Failed} : Small(f) /\ o \notin loose' => Fits(f)
    BY <2>2
  <2>5. loose' \subseteq loose \cup {o} /\ loose \subseteq loose' \cup {o}
    BY <2>2
  <2>6. QED
    BY <2>2, <2>3, <2>4, <2>5, Assigned
<1>4. QED
  BY <1>2, <1>3

\* Two empty frames.
LEMMA Started == Init => Inv
<1> SUFFICES ASSUME Init PROVE Inv
  OBVIOUS
<1>1. EmptyFrame \in Frame /\ columns(EmptyFrame) = 0 /\ rows(EmptyFrame) = 0
      /\ DOMAIN EmptyFrame.data = {}
  BY DEF EmptyFrame, Frame, columns, rows
<1>2. Small(EmptyFrame) /\ Fits(EmptyFrame)
  BY <1>1, DataFrameAssumption DEF Small, Fits
<1>3. frames \in [Objects -> Frame] /\ \A o \in Objects : frames[o] = EmptyFrame
  BY <1>1 DEF Init
<1>4. TypeOK
  BY <1>2, <1>3, DataFrameAssumption DEF Init, TypeOK
<1>5. TidyRowsFit
  BY <1>2, <1>3 DEF TidyRowsFit
<1>6. QED
  BY <1>4, <1>5 DEF Inv

\* Each call keeps the invariant.
LEMMA Stepped == Inv /\ [Next]_vars => Inv'
<1> SUFFICES ASSUME Inv, [Next]_vars PROVE Inv'
  OBVIOUS
<1>1. CASE UNCHANGED vars
  BY <1>1 DEF vars, Inv, TypeOK, TidyRowsFit
<1>2. CASE Next
  <2>1. PICK o \in Objects :
        \/ \E file \in Files : Read(o, file)
        \/ \E n \in 0..MaxColumns : \E labels \in [1..n -> Names] : Relabel(o, labels)
        \/ \E name \in Names, index \in Indexes : RelabelOne(o, name, index)
        \/ \E src \in Objects : Extend(o, src)
        \/ \E name \in Names, v \in Cells : AddColumn(o, name, v)
        \/ AddRow(o)
        \/ Clear(o)
        \/ \E k \in 1..MaxRows, index \in Indexes, v \in Cells : SetCell(o, k, index, v)
        \/ \E v \in Cells : AddCell(o, v)
        \/ \E src \in Objects, col \in Indexes, p \in Predicates : Where(o, src, col, p)
        \/ \E src \in Objects, c1, c2 \in Indexes, p1, p2 \in Predicates :
               WhereMany(o, src, <<c1, c2>>, <<p1, p2>>)
        \/ \E src \in Objects, n \in 1..MaxColumns : \E names \in [1..n -> Names] :
               Select(o, src, names)
    BY <1>2 DEF Next, Call
  <2>2. Indexes \subseteq Int /\ 0..MaxColumns \subseteq Nat
    BY DataFrameAssumption DEF Indexes
  <2> SUFFICES Leaves(o)
    BY <1>2, Left DEF Next
  <2>3. CASE \E file \in Files : Read(o, file)
    BY <2>3, ReadLeaves
  <2>4. CASE \E n \in 0..MaxColumns : \E labels \in [1..n -> Names] : Relabel(o, labels)
    BY <2>2, <2>4, RelabelLeaves
  <2>5. CASE \E name \in Names, index \in Indexes : RelabelOne(o, name, index)
    BY <2>2, <2>5, RelabelOneLeaves
  <2>6. CASE \E src \in Objects : Extend(o, src)
    BY <2>6, ExtendLeaves
  <2>7. CASE \E name \in Names, v \in Cells : AddColumn(o, name, v)
    BY <2>7, AddColumnLeaves
  <2>8. CASE AddRow(o)
    BY <2>8, AddRowLeaves
  <2>9. CASE Clear(o)
    BY <2>9, ClearLeaves
  <2>10. CASE \E k \in 1..MaxRows, index \in Indexes, v \in Cells : SetCell(o, k, index, v)
    BY <2>2, <2>10, CellLeaves
  <2>11. CASE \E v \in Cells : AddCell(o, v)
    BY <2>11, CellLeaves
  <2>12. CASE \E src \in Objects, col \in Indexes, p \in Predicates : Where(o, src, col, p)
    BY <2>12, WhereLeaves
  <2>13. CASE \E src \in Objects, c1, c2 \in Indexes, p1, p2 \in Predicates :
               WhereMany(o, src, <<c1, c2>>, <<p1, p2>>)
    BY <2>13, WhereLeaves
  <2>14. CASE \E src \in Objects, n \in 1..MaxColumns : \E names \in [1..n -> Names] :
               Select(o, src, names)
    BY <2>2, <2>14, SelectLeaves
  <2>15. QED
    BY <2>1, <2>3, <2>4, <2>5, <2>6, <2>7, <2>8, <2>9, <2>10, <2>11, <2>12, <2>13, <2>14
<1>3. QED
  BY <1>1, <1>2

\* Every reachable frame is a frame of bounded size.
THEOREM TypeCorrect == Spec => []TypeOK
<1>1. Inv => TypeOK
  BY DEF Inv
<1>2. QED
  BY <1>1, Started, Stepped, PTL DEF Spec

\* No call on frames whose rows fit makes rows that do not, but for those that
\* are known to.
THEOREM TidyRows == Spec => []TidyRowsFit
<1>1. Inv => TidyRowsFit
  BY DEF Inv
<1>2. QED
  BY <1>1, Started, Stepped, PTL DEF Spec

-----------------------------------------------------------------------------
(* Means.                                                                  *)

\* Multiplication by a natural number is monotone.
LEMMA TimesMonotone == \A a, b \in Int : \A n \in Nat : a <= b => a * n <= b * n
<1> SUFFICES ASSUME NEW a \in Int, NEW b \in Int, a <= b
             PROVE  \A n \in Nat : a * n <= b * n
  OBVIOUS
<1> DEFINE S == {n \in Nat : a * n <= b * n}
<1>1. 0 \in S
  BY SMT
<1>2. \A n \in Nat : n \in S => n + 1 \in S
  <2> SUFFICES ASSUME NEW n \in Nat, a * n <= b * n
               PROVE  a * (n + 1) <= b * (n + 1)
    OBVIOUS
  <2>1. a * (n + 1) = a * n + a /\ b * (n + 1) = b * n + b
    BY SMT
  <2>2. a * n \in Int /\ b * n \in Int
    BY SMT
  <2>3. QED
    BY <2>1, <2>2
<1> HIDE DEF S
<1>3. Nat \subseteq S
  BY <1>1, <1>2, SetInduction
<1>4. QED
  BY <1>3 DEF S

\* A bound on k numbers, and one more number: the worse of the two bounds all.
LEMMA OneMore ==
  ASSUME NEW k \in Nat, NEW a \in Int, NEW v \in Int, NEW sum \in Int
  PROVE  /\ a * k <= sum /\ a <= v => a * (k + 1) <= sum + v
         /\ a * k <= sum /\ v <= a => v * (k + 1) <= sum + v
         /\ sum <= a * k /\ v <= a => sum + v <= a * (k + 1)
         /\ sum <= a * k /\ a <= v => sum + v <= v * (k + 1)
<1> DEFINE ak == a * k
           vk == v * k
<1>1. ak \in Int /\ vk \in Int
  BY SMT
<1>2. a * (k + 1) = ak + a /\ v * (k + 1) = vk + v
  BY SMT
<1>3. (a <= v => ak <= vk) /\ (v <= a => vk <= ak)
  BY TimesMonotone, Zenon
<1> HIDE DEF ak, vk
<1>4. /\ ak <= sum /\ a <= v => ak + a <= sum + v
      /\ ak <= sum /\ v <= a => vk + v <= sum + v
      /\ sum <= ak /\ v <= a => sum + v <= ak + a
      /\ sum <= ak /\ a <= v => sum + v <= vk + v
  BY <1>1, <1>3
<1>5. QED
  BY <1>2, <1>4, Zenon DEF ak, vk

\* What is between two of k numbers on average.
Between(s, k, sum) ==
    \E i, j \in 1..k : /\ s[i] \in Int /\ s[j] \in Int
                       /\ s[i] * k <= sum /\ sum <= s[j] * k

\* The sum of the first k numbers is NaN with a NaN among them, or it is k times
\* what is between two of them.
LEMMA SumBetween ==
  ASSUME NEW s \in Seq(Double), NEW t, Totalling(s, t)
  PROVE  \A k \in 1 .. Len(s) :
            IF t[k] = NaN THEN \E j \in 1..k : s[j] = NaN
            ELSE t[k] \in Int /\ Between(s, k, t[k])
<1> DEFINE n == Len(s)
           Right(k) == IF t[k] = NaN THEN \E j \in 1..k : s[j] = NaN
                       ELSE t[k] \in Int /\ Between(s, k, t[k])
           S == {k \in 0..n : k = 0 \/ Right(k)}
<1>1. n \in Nat /\ t[0] = 0 /\ \A k \in 1..n : s[k] \in Double /\ t[k - 1] \in Double
                                                /\ t[k] = Plus(t[k - 1], s[k])
  BY DEF Totalling
<1>2. 0 \in S
  BY <1>1
<1>3. \A k \in 0 .. n - 1 : k \in S => k + 1 \in S
  <2> SUFFICES ASSUME NEW k \in 0 .. n - 1, k \in S
               PROVE  Right(k + 1)
    BY <1>1
  <2> DEFINE v == s[k + 1]
  <2>1. t[k + 1] = Plus(t[k], v) /\ v \in Double /\ t[k] \in Double
    <3>1. k + 1 \in 1..n /\ (k + 1) - 1 = k
      BY <1>1
    <3>2. QED
      BY <1>1, <3>1
  <2>2. CASE v = NaN
    <3>1. t[k + 1] = NaN
      BY <2>1, <2>2 DEF Plus
    <3>2. QED
      BY <2>2, <3>1
  <2>3. CASE t[k] = NaN /\ v # NaN
    <3>1. k # 0
      BY <1>1, <2>3, FramesAssumption
    <3>2. PICK j \in 1..k : s[j] = NaN
      BY <2>3, <3>1
    <3>3. t[k + 1] = NaN
      BY <2>1, <2>3 DEF Plus
    <3>4. j \in 1 .. k + 1
      BY <3>2
    <3>5. QED
      BY <3>2, <3>3, <3>4
  <2>4. CASE t[k] # NaN /\ v # NaN
    <3>1. v \in Int /\ t[k] \in Int /\ t[k + 1] = t[k] + v
      BY <2>1, <2>4 DEF Plus, Double
    <3>2. t[k + 1] # NaN /\ t[k + 1] \in Int
      BY <3>1, FramesAssumption
    <3>3. CASE k = 0
      <4>1. t[k + 1] = v /\ k + 1 = 1
        BY <1>1, <3>1, <3>3
      <4>2. v * 1 = v
        BY <3>1
      <4>3. Between(s, k + 1, t[k + 1])
        BY <3>1, <4>1, <4>2 DEF Between
      <4>4. QED
        BY <3>2, <4>3
    <3>4. CASE k # 0
      <4>1. PICK i \in 1..k, j \in 1..k : /\ s[i] \in Int /\ s[j] \in Int
                                          /\ s[i] * k <= t[k] /\ t[k] <= s[j] * k
        BY <2>4, <3>4 DEF Between
      <4>2. k \in Nat
        BY <1>1
      <4>3. /\ s[i] <= v => s[i] * (k + 1) <= t[k] + v
            /\ v <= s[i] => v * (k + 1) <= t[k] + v
        BY <3>1, <4>1, <4>2, OneMore
      <4>4. /\ v <= s[j] => t[k] + v <= s[j] * (k + 1)
            /\ s[j] <= v => t[k] + v <= v * (k + 1)
        BY <3>1, <4>1, <4>2, OneMore
      <4>5. PICK l \in {i, k + 1} : s[l] \in Int /\ s[l] * (k + 1) <= t[k] + v
        <5>1. s[i] <= v \/ v <= s[i]
          BY <3>1, <4>1
        <5>2. QED
          BY <3>1, <4>1, <4>3, <5>1
      <4>6. PICK h \in {j, k + 1} : s[h] \in Int /\ t[k] + v <= s[h] * (k + 1)
        <5>1. s[j] <= v \/ v <= s[j]
          BY <3>1, <4>1
        <5>2. QED
          BY <3>1, <4>1, <4>4, <5>1
      <4>7. l \in 1 .. k + 1 /\ h \in 1 .. k + 1
        BY <4>1, <4>5, <4>6, SMTT(30)
      <4>8. Between(s, k + 1, t[k + 1])
        <5>1. s[l] * (k + 1) <= t[k + 1] /\ t[k + 1] <= s[h] * (k + 1)
          BY <3>1, <4>5, <4>6
        <5>2. QED
          BY <4>5, <4>6, <4>7, <5>1, Zenon DEF Between
      <4>9. QED
        BY <3>2, <4>8
    <3>5. QED
      BY <3>3, <3>4
  <2>5. QED
    BY <2>2, <2>3, <2>4
<1> HIDE DEF S
<1>4. 0..n \subseteq S
  BY <1>1, <1>2, <1>3, UptoInduction
<1>5. QED
  <2>1. \A k \in 1..n : k \in S
    BY <1>1, <1>4
  <2>2. QED
    BY <2>1 DEF S

\* The mean of numbers lies between two of them, or it is NaN with a NaN among
\* them or with none of them.
LEMMA MeanBetween ==
  ASSUME NEW s \in Seq(Double)
  PROVE  IF Mean(s) = NaN THEN s = <<>> \/ \E k \in 1 .. Len(s) : s[k] = NaN
         ELSE /\ Mean(s).n = Len(s)
              /\ Between(s, Len(s), Mean(s).sum)
<1> DEFINE n == Len(s)
<1>1. PICK t : Totalling(s, t) /\ Sum(s) = t[n]
  BY SumIs
<1>2. CASE s = <<>>
  BY <1>2 DEF Mean
<1>3. CASE s # <<>> /\ Sum(s) = NaN
  <2>1. n \in 1..n
    BY <1>3
  <2>2. QED
    BY <1>1, <1>3, <2>1, SumBetween DEF Mean
<1>4. CASE s # <<>> /\ Sum(s) # NaN
  <2>1. n \in 1..n
    BY <1>4
  <2>2. Sum(s) \in Int /\ Between(s, n, Sum(s))
    BY <1>1, <1>4, <2>1, SumBetween
  <2>3. Mean(s) = [sum |-> Sum(s), n |-> n]
    BY <1>4 DEF Mean
  <2>4. Mean(s).sum = Sum(s) /\ Mean(s).n = n
    BY <2>3
  <2>5. Mean(s) # NaN
    <3>1. n \in Nat \ {0}
      BY <1>4
    <3>2. Mean(s) \in Ratio
      BY <2>2, <2>3, <3>1 DEF Ratio
    <3>3. QED
      BY <3>2, FramesAssumption
  <2>6. QED
    BY <2>2, <2>4, <2>5
<1>5. QED
  BY <1>2, <1>3, <1>4

\* Whatever the program did with its frames, the mean of a column whose rows fit
\* lies between two of its values.
THEOREM MeansAreInRange == Spec => []AverageInRange
<1>1. Inv => AverageInRange
  <2> SUFFICES ASSUME Inv, NEW o \in Objects \ loose, NEW avg \in GetAverage(frames[o])
               PROVE  /\ avg # Failed
                      /\ \A i \in 1 .. columns(frames[o]) :
                            LET column == {frames[o].data[k][i] : k \in DOMAIN frames[o].data} IN
                            IF avg[i] = NaN THEN column = {} \/ NaN \in column
                            ELSE \E lo, hi \in column :
                                     /\ lo * avg[i].n <= avg[i].sum
                                     /\ avg[i].sum <= hi * avg[i].n
                                     /\ avg[i].n = rows(frames[o])
    BY Zenon DEF AverageInRange
  <2> DEFINE f == frames[o]
             Column(i) == [k \in 1 .. rows(f) |-> f.data[k][i]]
  <2>1. Fitting(f)
    BY Held, FitsIs
  <2> HIDE DEF f
  <2>2. avg = [i \in 1 .. columns(f) |-> Mean(Column(i))]
    BY <2>1, AverageIs DEF f
  <2>3. rows(f) \in Nat /\ columns(f) \in Nat /\ f.data \in Seq(Block)
        /\ DOMAIN f.data = 1 .. rows(f)
    BY <2>1 DEF Fitting, IsFrame, rows, columns
  <2>4. \A k \in 1 .. rows(f) : \A i \in 1 .. columns(f) : f.data[k][i] \in Double
    <3>1. \A k \in 1 .. rows(f) : f.data[k] \in Seq(Double) /\ Len(f.data[k]) = columns(f)
      BY <2>1, <2>3, ElementOfSeq DEF Fitting, Block
    <3>2. QED
      BY <3>1
  <2>5. avg # Failed
    <3>1. \A i \in 1 .. columns(f) : Mean(Column(i)) \in Ratio \cup {NaN}
      <4> SUFFICES ASSUME NEW i \in 1 .. columns(f) PROVE Mean(Column(i)) \in Ratio \cup {NaN}
        OBVIOUS
      <4>1. Column(i) \in Seq(Double)
        BY <2>3, <2>4
      <4>2. QED
        BY <4>1, MeanType
    <3> HIDE DEF Column
    <3>2. avg \in Seq(Ratio \cup {NaN})
      <4> DEFINE R == Ratio \cup {NaN}
                 M(i) == Mean(Column(i))
      <4>1. \A i \in 1 .. columns(f) : M(i) \in R
        BY <3>1
      <4>2. avg = [i \in 1 .. columns(f) |-> M(i)]
        BY <2>2
      <4> HIDE DEF R, M
      <4>3. avg \in Seq(R)
        BY <2>3, <4>1, <4>2
      <4>4. QED
        BY <4>3 DEF R
    <3>3. QED
      BY <3>2, FramesAssumption
  <2>6. ASSUME NEW i \in 1 .. columns(f)
        PROVE  LET column == {f.data[k][i] : k \in DOMAIN f.data} IN
               IF avg[i] = NaN THEN column = {} \/ NaN \in column
               ELSE \E lo, hi \in column : /\ lo * avg[i].n <= avg[i].sum
                                           /\ avg[i].sum <= hi * avg[i].n
                                           /\ avg[i].n = rows(f)
    <3> DEFINE column == {f.data[k][i] : k \in DOMAIN f.data}
               s == Column(i)
    <3>1. \A k \in 1 .. rows(f) : f.data[k][i] \in Double
      BY <2>4
    <3>2. s \in Seq(Double) /\ Len(s) = rows(f) /\ \A k \in 1 .. rows(f) : s[k] = f.data[k][i]
      BY <2>3, <3>1
    <3>3. \A k \in 1 .. rows(f) : s[k] \in column
      BY <2>3, <3>2
    <3>4. avg[i] = Mean(s)
      BY <2>2
    <3>5. s = <<>> => column = {}
      BY <2>3, <3>2
    <3> HIDE DEF s, column
    <3>6. CASE Mean(s) = NaN
      <4>1. s = <<>> \/ \E k \in 1 .. Len(s) : s[k] = NaN
        BY <3>2, <3>6, MeanBetween
      <4>2. column = {} \/ NaN \in column
        BY <3>2, <3>3, <3>5, <4>1
      <4>3. QED
        BY <3>4, <3>6, <4>2 DEF column
    <3>7. CASE Mean(s) # NaN
      <4>1. Mean(s).n = rows(f) /\ Between(s, rows(f), Mean(s).sum)
        BY <3>2, <3>7, MeanBetween
      <4>2. PICK a \in 1 .. rows(f), b \in 1 .. rows(f) :
               s[a] * rows(f) <= Mean(s).sum /\ Mean(s).sum <= s[b] * rows(f)
        BY <4>1 DEF Between
      <4>3. s[a] \in column /\ s[b] \in column
        BY <3>3
      <4>4. \E lo, hi \in column : /\ lo * avg[i].n <= avg[i].sum
                                   /\ avg[i].sum <= hi * avg[i].n
                                   /\ avg[i].n = rows(f)
        BY <3>4, <4>1, <4>2, <4>3
      <4>5. QED
        BY <3>4, <3>7, <4>4 DEF column
    <3>8. QED
      BY <3>6, <3>7
  <2>7. QED
    BY <2>5, <2>6 DEF f
<1>2. QED
  BY <1>1, Started, Stepped, PTL DEF Spec

-----------------------------------------------------------------------------
(* Selecting and filtering.                                                *)

\* The labels at cols.
Labels(f, cols) == [k \in DOMAIN cols |-> f.label[cols[k] + 1]]

\* The rows of f projected, under a header.
ProjectedRows(label, f, cols) ==
    [label |-> label, data |-> [k \in 1 .. rows(f) |-> Projected(f.data[k], cols)]]

\* The rows of g are those of f, projected.
ProjectsTo(f, g, cols) ==
    rows(g) = rows(f) /\ \A k \in 1 .. rows(f) : g.data[k] = Projected(f.data[k], cols)

\* The same rows of f are chosen.
Agree(f, chosen, picked) == \A k \in 1 .. rows(f) : chosen[k] <=> picked[k]

\* The kept rows of projected rows are the projected kept rows.
LEMMA KeepProjected ==
  ASSUME NEW f, IsFrame(f), NEW g, IsFrame(g), NEW cols, ProjectsTo(f, g, cols),
         NEW chosen, NEW picked, Agree(f, chosen, picked),
         NEW h, h = Keep(f, chosen)
  PROVE  Keep(g, picked) = ProjectedRows(g.label, h, cols)
<1> DEFINE n == rows(f)
<1>1. n \in Nat
  BY DEF IsFrame, rows
<1>2. PICK t : Keeping(f, chosen, t) /\ Keep(f, chosen) = [label |-> f.label, data |-> t[n]]
  BY KeepIs
<1>3. PICK u : Keeping(g, picked, u) /\ Keep(g, picked) = [label |-> g.label, data |-> u[n]]
  BY KeepIs DEF ProjectsTo
<1> DEFINE Like(k) == /\ Len(u[k]) = Len(t[k])
                      /\ \A i \in 1 .. Len(t[k]) : u[k][i] = Projected(t[k][i], cols)
           S == {k \in 0..n : Like(k)}
<1>4. /\ \A k \in 0..n : t[k] \in Seq(Block) /\ u[k] \in Seq(Block)
      /\ t[0] = <<>> /\ u[0] = <<>>
      /\ \A k \in 1..n : /\ t[k] = IF chosen[k] THEN Append(t[k - 1], f.data[k]) ELSE t[k - 1]
                         /\ u[k] = IF picked[k] THEN Append(u[k - 1], g.data[k]) ELSE u[k - 1]
  BY <1>2, <1>3 DEF Keeping, ProjectsTo
<1>5. 0 \in S
  BY <1>1, <1>4
<1>6. \A k \in 0 .. n - 1 : k \in S => k + 1 \in S
  <2> SUFFICES ASSUME NEW k \in 0 .. n - 1, Like(k)
               PROVE  Like(k + 1)
    BY <1>1
  <2> DEFINE x == f.data[k + 1]
             y == g.data[k + 1]
  <2>1. k + 1 \in 1..n /\ (k + 1) - 1 = k /\ k \in 0..n
    BY <1>1
  <2>2. /\ t[k + 1] = IF chosen[k + 1] THEN Append(t[k], x) ELSE t[k]
        /\ u[k + 1] = IF picked[k + 1] THEN Append(u[k], y) ELSE u[k]
        /\ chosen[k + 1] <=> picked[k + 1]
    BY <1>4, <2>1 DEF Agree
  <2>3. CASE ~chosen[k + 1]
    BY <2>2, <2>3
  <2>4. CASE chosen[k + 1]
    <3>1. y = Projected(x, cols)
      BY <2>1 DEF ProjectsTo
    <3>2. t[k] \in Seq(Block) /\ u[k] \in Seq(Block) /\ t[k + 1] = Append(t[k], x) /\ u[k + 1] = Append(u[k], y)
      BY <1>4, <2>1, <2>2, <2>4
    <3> HIDE DEF x, y
    <3>3. Len(u[k + 1]) = Len(t[k + 1]) /\ Len(t[k + 1]) = Len(t[k]) + 1
      BY <3>2
    <3>4. ASSUME NEW i \in 1 .. Len(t[k + 1])
          PROVE  u[k + 1][i] = Projected(t[k + 1][i], cols)
      <4>1. CASE i \in 1 .. Len(t[k])
        <5>1. u[k + 1][i] = u[k][i] /\ t[k + 1][i] = t[k][i]
          BY <3>2, <4>1
        <5>2. QED
          BY <4>1, <5>1
      <4>2. CASE i = Len(t[k]) + 1
        <5>1. u[k + 1][i] = y /\ t[k + 1][i] = x
          BY <3>2, <4>2
        <5>2. QED
          BY <3>1, <5>1
      <4>3. QED
        BY <3>2, <3>3, <4>1, <4>2
    <3>5. QED
      BY <3>3, <3>4
  <2>5. QED
    BY <2>3, <2>4
<1> HIDE DEF S
<1>7. n \in S
  <2>1. 0..n \subseteq S
    BY <1>1, <1>5, <1>6, UptoInduction
  <2>2. QED
    BY <1>1, <2>1
<1>8. Like(n)
  BY <1>7 DEF S
<1>9. h.data = t[n] /\ rows(h) = Len(t[n])
  BY <1>2 DEF rows
<1>10. u[n] = [k \in 1 .. Len(t[n]) |-> Projected(t[n][k], cols)]
  <2>1. u[n] \in Seq(Block) /\ Len(u[n]) = Len(t[n])
    BY <1>1, <1>4, <1>8
  <2>2. u[n] = [k \in 1 .. Len(u[n]) |-> u[n][k]]
    BY <2>1
  <2>3. QED
    BY <1>8, <2>1, <2>2
<1>11. QED
  BY <1>3, <1>9, <1>10 DEF ProjectedRows

\* WhereIs, with the column counted from 1.
LEMMA WhereAt ==
  ASSUME NEW f, IsFrame(f), NEW col, NEW p, NEW i, i = col + 1,
         \A k \in 1 .. rows(f) : col \in 0 .. Len(f.data[k]) - 1
  PROVE  where(f, col, p) = {Chosen(f, {b \in Block : b[i] \in p})}
<1>1. {b \in Block : b[i] \in p} = {b \in Block : b[col + 1] \in p}
  OBVIOUS
<1>2. where(f, col, p) = {Chosen(f, {b \in Block : b[col + 1] \in p})}
  BY WhereIs
<1>3. QED
  BY <1>1, <1>2, Zenon

\* h is what is left of f, and g has what is left of f projected.
FilteredAlike(f, g, cols, i, p, h) ==
    /\ where(f, cols[i], p) = {h}
    /\ Fitting(h) /\ h.label = f.label
    /\ where(g, i - 1, p) = {ProjectedRows(g.label, h, cols)}

\* Filtering the selected columns by position i - 1 is selecting of the frame
\* filtered by the column at that position.
LEMMA FilterSelected ==
  ASSUME NEW f, Fitting(f), NEW cols \in Seq(0 .. columns(f) - 1), NEW i \in 1 .. Len(cols), NEW p,
         NEW g, g = ProjectedRows(Labels(f, cols), f, cols)
  PROVE  \E h : FilteredAlike(f, g, cols, i, p, h)
<1> DEFINE n == rows(f)
           R == {b \in Block : b[cols[i] + 1] \in p}
           Q == {b \in Block : b[i] \in p}
           h == Chosen(f, R)
<1>1. /\ n \in Nat /\ f.data \in Seq(Block) /\ DOMAIN f.data = 1..n /\ columns(f) \in Nat
      /\ \A k \in 1..n : f.data[k] \in Block /\ Len(f.data[k]) = columns(f)
      /\ Len(cols) \in Nat /\ DOMAIN cols = 1 .. Len(cols)
      /\ \A k \in 1 .. Len(cols) : cols[k] \in 0 .. columns(f) - 1
  BY ElementOfSeq DEF Fitting, IsFrame, rows, columns
<1>2. [k \in 1..n |-> Projected(f.data[k], cols)] \in Seq(Block)
  BY RowsProjected
<1>3. /\ IsFrame(g) /\ rows(g) = n /\ DOMAIN g.data = 1..n
      /\ \A k \in 1..n : g.data[k] = Projected(f.data[k], cols) /\ g.data[k] \in Block
  <2> DEFINE L == [k \in DOMAIN cols |-> f.label[cols[k] + 1]]
             D == [k \in 1..n |-> Projected(f.data[k], cols)]
  <2>1. g = [label |-> L, data |-> D]
    BY DEF ProjectedRows, Labels
  <2>2. Len(L) \in Nat /\ DOMAIN L = 1 .. Len(L)
    BY <1>1
  <2>3. D \in Seq(Block) /\ Len(D) = n /\ \A k \in 1..n : D[k] = Projected(f.data[k], cols)
    BY <1>1, <1>2
  <2>4. \A k \in 1..n : D[k] \in Block
    BY <2>3, ElementOfSeq
  <2> HIDE DEF L, D
  <2>5. g.label = L /\ g.data = D /\ g = [label |-> g.label, data |-> g.data]
    BY <2>1
  <2>6. IsFrame(g) /\ rows(g) = n
    BY <2>2, <2>3, <2>5 DEF IsFrame, rows
  <2>7. DOMAIN D = 1..n
    BY <2>3
  <2>8. QED
    BY <2>3, <2>4, <2>5, <2>6, <2>7
<1>4. \A k \in 1..n : Len(g.data[k]) = Len(cols) /\ g.data[k][i] = f.data[k][cols[i] + 1]
  <2> SUFFICES ASSUME NEW k \in 1..n
               PROVE  Len(g.data[k]) = Len(cols) /\ g.data[k][i] = f.data[k][cols[i] + 1]
    OBVIOUS
  <2>1. g.data[k] = [j \in 1 .. Len(cols) |-> f.data[k][cols[j] + 1]]
    BY <1>3 DEF Projected
  <2>2. QED
    BY <1>1, <2>1
<1>5. where(f, cols[i], p) = {h}
  <2>1. \A k \in 1..n : cols[i] \in 0 .. Len(f.data[k]) - 1
    BY <1>1
  <2>2. IsFrame(f)
    BY DEF Fitting
  <2>3. QED
    BY <2>1, <2>2, WhereIs
<1>6. where(g, i - 1, p) = {Chosen(g, Q)}
  <2>1. \A k \in 1 .. rows(g) : i - 1 \in 0 .. Len(g.data[k]) - 1
    <3>1. i - 1 \in 0 .. Len(cols) - 1
      BY <1>1
    <3>2. QED
      BY <1>3, <1>4, <3>1
  <2>2. i = (i - 1) + 1 /\ IsFrame(g)
    BY <1>1, <1>3
  <2>3. QED
    BY <2>1, <2>2, WhereAt
<1> DEFINE c == [k \in DOMAIN f.data |-> f.data[k] \in R]
           d == [k \in DOMAIN g.data |-> g.data[k] \in Q]
<1>7. \A k \in 1..n : c[k] <=> d[k]
  <2>1. \A k \in 1..n : g.data[k] \in Q <=> f.data[k] \in R
    BY <1>1, <1>3, <1>4
  <2> HIDE DEF Q, R
  <2>2. QED
    BY <1>1, <1>3, <2>1
<1>8. Chosen(g, Q) = Keep(g, d) /\ h = Keep(f, c)
  BY DEF Chosen
<1>9. IsFrame(f)
  BY DEF Fitting
<1>10. Keep(g, d) = ProjectedRows(g.label, h, cols)
  <2>1. IsFrame(g) /\ ProjectsTo(f, g, cols)
    BY <1>3 DEF ProjectsTo
  <2>2. Agree(f, c, d)
    BY <1>7 DEF Agree
  <2> HIDE DEF c, d, h
  <2>3. QED
    BY <1>8, <1>9, <2>1, <2>2, KeepProjected
<1> HIDE DEF c, d
<1>11. Fitting(h) /\ h.label = f.label
  <2>1. KeptOf(f, c, h)
    BY <1>8, <1>9, Kept
  <2>2. IsFrame(h) /\ h.label = f.label /\ \A k \in 1 .. rows(h) : \E j \in 1..n : h.data[k] = f.data[j]
    BY <2>1 DEF KeptOf
  <2> HIDE DEF h
  <2>3. QED
    BY <1>1, <2>2 DEF Fitting, columns
<1> HIDE DEF h
<1>12. FilteredAlike(f, g, cols, i, p, h)
  BY <1>5, <1>6, <1>8, <1>10, <1>11 DEF FilteredAlike
<1>13. QED
  BY <1>12

\* select(<<n1, n2>>), of the columns that getColumn finds.
LEMMA SelectTwo ==
  ASSUME NEW f, Fitting(f), NEW n1, NEW n2
  PROVE  LET c1 == getColumn(f, n1)
             c2 == getColumn(f, n2)
         IN  /\ c1 \in -1 .. columns(f) - 1 /\ c2 \in -1 .. columns(f) - 1
             /\ -1 \in {c1, c2} => selectNames(f, <<n1, n2>>) = {Failed}
             /\ -1 \notin {c1, c2} =>
                   selectNames(f, <<n1, n2>>)
                     = {ProjectedRows(Labels(f, <<c1, c2>>), f, <<c1, c2>>)}
<1> DEFINE c1 == getColumn(f, n1)
           c2 == getColumn(f, n2)
           cols == <<c1, c2>>
<1>1. columns(f) \in Nat
  BY DEF Fitting, IsFrame, columns
<1>2. c1 \in -1 .. columns(f) - 1 /\ c2 \in -1 .. columns(f) - 1
  BY ColumnIs DEF Fitting
<1>3. selectNames(f, <<n1, n2>>) = select(f, cols)
  <2>1. [k \in DOMAIN <<n1, n2>> |-> getColumn(f, <<n1, n2>>[k])] = cols
    OBVIOUS
  <2>2. QED
    BY <2>1 DEF selectNames
<1> HIDE DEF c1, c2
<1>4. cols[1] = c1 /\ cols[2] = c2 /\ DOMAIN cols = 1..2
  OBVIOUS
<1>5. CASE -1 \in {c1, c2}
  <2>1. \E k \in DOMAIN cols : cols[k] \notin 0 .. columns(f) - 1
    <3>1. -1 \notin 0 .. columns(f) - 1
      BY <1>1
    <3>2. QED
      BY <1>4, <1>5, <3>1
  <2>2. select(f, cols) = {Failed}
    BY <2>1 DEF select
  <2>3. QED
    BY <1>2, <1>3, <1>5, <2>2 DEF c1, c2
<1>6. CASE -1 \notin {c1, c2}
  <2>1. cols \in Seq(0 .. columns(f) - 1)
    BY <1>1, <1>2, <1>6
  <2> HIDE DEF cols
  <2>2. select(f, cols) = {ProjectedRows(Labels(f, cols), f, cols)}
    BY <2>1, SelectIs DEF ProjectedRows, Labels
  <2>3. QED
    BY <1>2, <1>3, <1>6, <2>2 DEF c1, c2, cols
<1>7. QED
  BY <1>5, <1>6

\* What follows a single outcome.
LEMMA ThenFilter ==
  ASSUME NEW x, x # Failed, NEW col, NEW p
  PROVE  Then({x}, LAMBDA f : where(f, col, p)) = where(x, col, p)
BY Zenon DEF Then

\* Projecting the one outcome of a call.
LEMMA ThenSelect ==
  ASSUME NEW x, x # Failed, NEW names
  PROVE  Then({x}, LAMBDA f : selectNames(f, names)) = selectNames(x, names)
BY Zenon DEF Then

\* Filtering after a call that failed.
LEMMA NoneThen ==
  ASSUME NEW col, NEW p
  PROVE  Then({Failed}, LAMBDA f : where(f, col, p)) = {Failed}
BY Zenon DEF Then

\* Selecting and filtering by the new position, or filtering and selecting.
LEMMA SelectAndFilter ==
  ASSUME NEW f \in Frame, Fits(f), NEW n1 \in STRING, NEW n2 \in STRING, NEW p
  PROVE  Then(selectNames(f, <<n1, n2>>), LAMBDA g : where(g, 1, p))
           = IF -1 \in {getColumn(f, n1), getColumn(f, n2)} THEN {Failed}
             ELSE Then(where(f, getColumn(f, n2), p), LAMBDA g : selectNames(g, <<n1, n2>>))
<1> DEFINE c1 == getColumn(f, n1)
           c2 == getColumn(f, n2)
           cols == <<c1, c2>>
           L == Labels(f, cols)
           g == ProjectedRows(L, f, cols)
<1>1. Fitting(f) /\ columns(f) \in Nat
  BY FitsIs DEF Frame, columns
<1>2. /\ c1 \in -1 .. columns(f) - 1 /\ c2 \in -1 .. columns(f) - 1
      /\ -1 \in {c1, c2} => selectNames(f, <<n1, n2>>) = {Failed}
      /\ -1 \notin {c1, c2} => selectNames(f, <<n1, n2>>) = {g}
  BY <1>1, SelectTwo
<1> HIDE DEF c1, c2
<1>3. CASE -1 \in {c1, c2}
  <2>1. selectNames(f, <<n1, n2>>) = {Failed}
    BY <1>2, <1>3
  <2>2. Then(selectNames(f, <<n1, n2>>), LAMBDA x : where(x, 1, p)) = {Failed}
    <3>1. Then({Failed}, LAMBDA x : where(x, 1, p)) = {Failed}
      BY Zenon DEF Then
    <3>2. QED
      BY <2>1, <3>1
  <2>3. QED
    BY <1>3, <2>2 DEF c1, c2
<1>4. CASE -1 \notin {c1, c2}
  <2>1. cols \in Seq(0 .. columns(f) - 1) /\ Len(cols) = 2 /\ DOMAIN cols = 1..2 /\ cols[2] = c2
    BY <1>1, <1>2, <1>4
  <2>2. L \in Seq(STRING)
    <3>1. \A k \in 1..2 : cols[k] + 1 \in 1 .. Len(f.label)
      BY <1>1, <1>2, <1>4 DEF columns
    <3>2. \A i \in 1 .. Len(f.label) : f.label[i] \in STRING
      BY DEF Frame
    <3>3. \A k \in 1..2 : f.label[cols[k] + 1] \in STRING
      BY <3>1, <3>2
    <3> HIDE DEF cols
    <3>4. QED
      BY <2>1, <3>3 DEF Labels
  <2>3. g # Failed
    <3>1. g \in selectNames(f, <<n1, n2>>) /\ g = [label |-> L, data |-> g.data]
      BY <1>2, <1>4 DEF ProjectedRows
    <3>2. [k \in 1 .. rows(f) |-> Projected(f.data[k], cols)] \in Seq(Block)
      BY <1>1, <2>1, RowsProjected
    <3>3. g \in Frame
      BY <2>2, <3>2 DEF ProjectedRows, Frame
    <3>4. QED
      BY <3>3, FrameIs
  <2> HIDE DEF cols, L
  <2>4. PICK h : /\ where(f, cols[2], p) = {h}
                 /\ Fitting(h) /\ h.label = f.label
                 /\ where(g, 2 - 1, p) = {ProjectedRows(g.label, h, cols)}
    <3>1. 2 \in 1 .. Len(cols)
      BY <2>1
    <3>2. g = ProjectedRows(Labels(f, cols), f, cols)
      BY DEF L
    <3> HIDE DEF g
    <3>3. \E h : FilteredAlike(f, g, cols, 2, p, h)
      BY <1>1, <2>1, <3>1, <3>2, FilterSelected
    <3>4. QED
      BY <3>3 DEF FilteredAlike
  <2>5. g.label = L
    BY DEF ProjectedRows
  <2>6. Then(selectNames(f, <<n1, n2>>), LAMBDA x : where(x, 1, p)) = {ProjectedRows(L, h, cols)}
    <3>1. Then({g}, LAMBDA x : where(x, 1, p)) = where(g, 1, p)
      BY <2>3, ThenFilter
    <3>2. where(g, 1, p) = {ProjectedRows(L, h, cols)}
      BY <2>4, <2>5
    <3>3. QED
      BY <1>2, <1>4, <3>1, <3>2
  <2>7. h # Failed
    <3>1. h \in Frame
      BY <2>4, IsAFrame DEF Fitting, Frame
    <3>2. QED
      BY <3>1, FrameIs
  <2>8. getColumn(h, n1) = c1 /\ getColumn(h, n2) = c2
    BY <2>4 DEF getColumn, c1, c2
  <2>9. selectNames(h, <<n1, n2>>) = {ProjectedRows(L, h, cols)}
    BY <1>4, <2>4, <2>8, SelectTwo DEF L, Labels, cols
  <2>10. Then(where(f, c2, p), LAMBDA x : selectNames(x, <<n1, n2>>)) = {ProjectedRows(L, h, cols)}
    <3>1. where(f, c2, p) = {h}
      BY <2>1, <2>4
    <3>2. Then({h}, LAMBDA x : selectNames(x, <<n1, n2>>)) = selectNames(h, <<n1, n2>>)
      BY <2>7, ThenSelect
    <3>3. QED
      BY <2>9, <3>1, <3>2
  <2>11. QED
    BY <1>4, <2>6, <2>10 DEF c1, c2
<1>5. QED
  BY <1>3, <1>4

\* Columns selected by name and filtered by their new position are the columns
\* of the rows filtered by name, or fail if a name is not there.
THEOREM SelectCommutes == Spec => []SelectThenWhere
<1>1. Inv => SelectThenWhere
  <2> SUFFICES ASSUME Inv, NEW o \in Objects \ loose, NEW n1 \in Names, NEW n2 \in Names,
                      NEW p \in Predicates
               PROVE  Then(selectNames(frames[o], <<n1, n2>>), LAMBDA f : where(f, 1, p))
                        = IF -1 \in {getColumn(frames[o], n1), getColumn(frames[o], n2)}
                          THEN {Failed}
                          ELSE Then(where(frames[o], getColumn(frames[o], n2), p),
                                    LAMBDA f : selectNames(f, <<n1, n2>>))
    BY Zenon DEF SelectThenWhere
  <2>1. frames[o] \in Frame /\ Fits(frames[o]) /\ n1 \in STRING /\ n2 \in STRING
    BY Held, Stored
  <2>2. QED
    BY <2>1, SelectAndFilter, Zenon
<1>2. QED
  BY <1>1, Started, Stepped, PTL DEF Spec

-----------------------------------------------------------------------------
(* Filtering twice.                                                        *)

\* The verdicts on a block of where(col, p).
Verdict(b, col, p) == {IF v = Failed THEN Failed ELSE v \in p : v \in get(b, col)}

\* There is a verdict, or a failure, on every block.
LEMMA VerdictIs ==
  ASSUME NEW b \in Block, NEW col, NEW p
  PROVE  /\ Verdict(b, col, p) \subseteq BOOLEAN \cup {Failed}
         /\ Verdict(b, col, p) # {}
         /\ Failed \in Verdict(b, col, p) <=> Failed \in get(b, col)
         /\ TRUE \in Verdict(b, col, p) <=> \E v \in get(b, col) : v # Failed /\ v \in p
         /\ FALSE \in Verdict(b, col, p) <=> \E v \in get(b, col) : v # Failed /\ v \notin p
<1>1. get(b, col) # {}
  BY FramesAssumption DEF get
<1>2. Failed \notin BOOLEAN /\ TRUE # Failed /\ FALSE # Failed
  BY FramesAssumption
<1>3. \A v \in get(b, col) : (IF v = Failed THEN Failed ELSE v \in p) \in BOOLEAN \cup {Failed}
  OBVIOUS
<1>4. Verdict(b, col, p) \subseteq BOOLEAN \cup {Failed}
  BY <1>3, Zenon DEF Verdict
<1>5. Verdict(b, col, p) # {}
  BY <1>1, Zenon DEF Verdict
<1>6. \A x : x \in Verdict(b, col, p)
               <=> \E v \in get(b, col) : x = IF v = Failed THEN Failed ELSE v \in p
  BY Zenon DEF Verdict
<1>7. \A v : /\ (v \in p) # Failed
             /\ TRUE = (v \in p) <=> v \in p
             /\ FALSE = (v \in p) <=> v \notin p
  <2> TAKE v
  <2>1. (v \in p) # Failed
    <3> DEFINE x == v \in p
    <3>1. x \in BOOLEAN
      OBVIOUS
    <3> HIDE DEF x
    <3>2. x # Failed
      BY <1>2, <3>1
    <3>3. QED
      BY <3>2 DEF x
  <2>2. TRUE = (v \in p) <=> v \in p
    OBVIOUS
  <2>3. FALSE = (v \in p) <=> v \notin p
    OBVIOUS
  <2>4. QED
    BY <2>1, <2>2, <2>3
<1>8. Failed \in Verdict(b, col, p) <=> Failed \in get(b, col)
  BY <1>6, <1>7, Zenon
<1>9. TRUE \in Verdict(b, col, p) <=> \E v \in get(b, col) : v # Failed /\ v \in p
  BY <1>2, <1>6, <1>7, Zenon
<1>10. FALSE \in Verdict(b, col, p) <=> \E v \in get(b, col) : v # Failed /\ v \notin p
  BY <1>2, <1>6, <1>7, Zenon
<1>11. QED
  BY <1>4, <1>5, <1>8, <1>9, <1>10

\* The verdicts on a block of where(cols, ps), for two columns.
Verdict2(b, c1, p1, c2, p2) ==
    LET from[i \in 1 .. Len(<<c1, c2>>) + 1] ==
          IF i > Len(<<c1, c2>>) THEN {TRUE}
          ELSE UNION {IF v = Failed THEN {Failed}
                      ELSE IF v \in <<p1, p2>>[i] THEN from[i + 1]
                      ELSE {FALSE} : v \in get(b, <<c1, c2>>[i])}
    IN  from[1]

\* The outcomes of filtering f with these verdicts on its rows.
Outcomes(f, outs) == {IF c = Failed THEN Failed ELSE Keep(f, c) : c \in Sequenced(outs)}

\* The verdicts on the rows of f.
Verdicts(f, col, p) == [k \in DOMAIN f.data |-> Verdict(f.data[k], col, p)]
Verdicts2(f, c1, p1, c2, p2) == [k \in DOMAIN f.data |-> Verdict2(f.data[k], c1, p1, c2, p2)]

\* where(col, p) keeps the rows by one verdict for each.
LEMMA WhereVerdicts ==
  ASSUME NEW f, NEW col, NEW p
  PROVE  where(f, col, p) = Outcomes(f, Verdicts(f, col, p))
BY DEF where, Filtered, Verdict, Outcomes, Verdicts

\* where(cols, ps) keeps the rows by one verdict for each.
LEMMA WhereManyVerdicts ==
  ASSUME NEW f, NEW c1, NEW p1, NEW c2, NEW p2
  PROVE  whereMany(f, <<c1, c2>>, <<p1, p2>>) = Outcomes(f, Verdicts2(f, c1, p1, c2, p2))
BY DEF whereMany, Filtered, Verdict2, Outcomes, Verdicts2

\* The verdict of the first filter, or of the second where the first is true: a row
\* is tested up to the first predicate that is false.
Follows(y, V, W) ==
    \/ Failed \in V /\ y = Failed
    \/ TRUE \in V /\ y \in W
    \/ FALSE \in V /\ y = FALSE

\* The verdict of two predicates: that of the first, if it is false or a failure, else
\* that of the second.
LEMMA Verdict2Is ==
  ASSUME NEW b \in Block, NEW c1, NEW p1, NEW c2, NEW p2, NEW y
  PROVE  y \in Verdict2(b, c1, p1, c2, p2) <=> Follows(y, Verdict(b, c1, p1), Verdict(b, c2, p2))
<1> DEFINE Tested(T, p, col) == UNION {IF v = Failed THEN {Failed}
                                       ELSE IF v \in p THEN T ELSE {FALSE} : v \in get(b, col)}
           second == Tested({TRUE}, p2, c2)
           first == Tested(second, p1, c1)
           Body(t) == [i \in 1 .. Len(<<c1, c2>>) + 1 |->
                          IF i > Len(<<c1, c2>>) THEN {TRUE}
                          ELSE UNION {IF v = Failed THEN {Failed}
                                      ELSE IF v \in <<p1, p2>>[i] THEN t[i + 1]
                                      ELSE {FALSE} : v \in get(b, <<c1, c2>>[i])}]
           from == CHOOSE t : t = Body(t)
           w == [i \in 1..3 |-> IF i = 3 THEN {TRUE} ELSE IF i = 2 THEN second ELSE first]
<1>1. Verdict2(b, c1, p1, c2, p2) = from[1]
  BY DEF Verdict2
<1>2. /\ Len(<<c1, c2>>) = 2 /\ 1 .. Len(<<c1, c2>>) + 1 = 1..3
      /\ <<c1, c2>>[1] = c1 /\ <<c1, c2>>[2] = c2
      /\ <<p1, p2>>[1] = p1 /\ <<p1, p2>>[2] = p2
  OBVIOUS
<1> DEFINE Entry(t, i) == IF i > Len(<<c1, c2>>) THEN {TRUE}
                          ELSE Tested(t[i + 1], <<p1, p2>>[i], <<c1, c2>>[i])
<1>3. \A t : Body(t) = [i \in 1..3 |-> Entry(t, i)]
  BY <1>2
<1>4. \A t : Entry(t, 3) = {TRUE} /\ Entry(t, 2) = Tested(t[3], p2, c2) /\ Entry(t, 1) = Tested(t[2], p1, c1)
  <2> HIDE DEF Tested
  <2>1. QED
    BY <1>2
<1>5. w[3] = {TRUE} /\ w[2] = second /\ w[1] = first
  <2> HIDE DEF first, second
  <2>1. QED
    OBVIOUS
<1> HIDE DEF Body, Entry
<1>6. w = Body(w)
  <2>1. \A i \in 1..3 : w[i] = Entry(w, i)
    <3> HIDE DEF Tested
    <3>1. Entry(w, 2) = second
      BY <1>4, <1>5, Zenon
    <3>2. Entry(w, 1) = first
      BY <1>4, <1>5, Zenon
    <3> HIDE DEF w, first, second
    <3>3. w[1] = Entry(w, 1) /\ w[2] = Entry(w, 2) /\ w[3] = Entry(w, 3)
      BY <1>4, <1>5, <3>1, <3>2
    <3>4. QED
      BY <3>3
  <2>2. w = [i \in 1..3 |-> w[i]]
    <3> HIDE DEF first, second
    <3>1. QED
      OBVIOUS
  <2> HIDE DEF w
  <2>3. QED
    BY <1>3, <2>1, <2>2
<1>7. from = Body(from)
  <2> HIDE DEF w
  <2>1. QED
    BY <1>6
<1> HIDE DEF from, w
<1>8. from[1] = first
  <2>1. from[1] = Entry(from, 1) /\ from[2] = Entry(from, 2) /\ from[3] = Entry(from, 3)
    <3>1. from = [i \in 1..3 |-> Entry(from, i)]
      BY <1>3, <1>7
    <3> HIDE DEF Tested
    <3>2. QED
      BY <3>1
  <2>2. from[3] = {TRUE}
    BY <1>4, <2>1
  <2> HIDE DEF Tested
  <2>3. from[2] = second
    BY <1>4, <2>1, <2>2, Zenon
  <2>4. QED
    BY <1>4, <2>1, <2>3, Zenon
<1>9. \A T, p, col, x : x \in Tested(T, p, col)
                           <=> \/ x = Failed /\ Failed \in get(b, col)
                               \/ x \in T /\ \E v \in get(b, col) : v # Failed /\ v \in p
                               \/ x = FALSE /\ \E v \in get(b, col) : v # Failed /\ v \notin p
  <2>1. \A T, p, col, x : x \in Tested(T, p, col)
           <=> \E v \in get(b, col) : x \in IF v = Failed THEN {Failed}
                                            ELSE IF v \in p THEN T ELSE {FALSE}
    BY Zenon
  <2> HIDE DEF Tested
  <2> TAKE T, p, col, x
  <2>2. x \in Tested(T, p, col)
           <=> \E v \in get(b, col) : x \in IF v = Failed THEN {Failed}
                                            ELSE IF v \in p THEN T ELSE {FALSE}
    BY <2>1, Zenon
  <2>3. \A v : x \in (IF v = Failed THEN {Failed} ELSE IF v \in p THEN T ELSE {FALSE})
              <=> \/ x = Failed /\ v = Failed
                  \/ x \in T /\ v # Failed /\ v \in p
                  \/ x = FALSE /\ v # Failed /\ v \notin p
    OBVIOUS
  <2>4. QED
    BY <2>2, <2>3, Zenon
<1> HIDE DEF Tested
<1>10. \A x : x \in second <=> x \in Verdict(b, c2, p2)
  <2> TAKE x
  <2>1. x \in second <=> \/ x = Failed /\ Failed \in get(b, c2)
                         \/ x \in {TRUE} /\ \E v \in get(b, c2) : v # Failed /\ v \in p2
                         \/ x = FALSE /\ \E v \in get(b, c2) : v # Failed /\ v \notin p2
    BY <1>9, Zenon
  <2>2. x \in Verdict(b, c2, p2) => x = Failed \/ x = TRUE \/ x = FALSE
    BY VerdictIs
  <2> HIDE DEF second
  <2>3. Failed # TRUE /\ Failed # FALSE /\ TRUE # FALSE
    BY FramesAssumption
  <2>4. /\ Failed \in Verdict(b, c2, p2) <=> Failed \in get(b, c2)
        /\ TRUE \in Verdict(b, c2, p2) <=> \E v \in get(b, c2) : v # Failed /\ v \in p2
        /\ FALSE \in Verdict(b, c2, p2) <=> \E v \in get(b, c2) : v # Failed /\ v \notin p2
    BY VerdictIs
  <2>5. CASE x = Failed
    BY <2>1, <2>3, <2>4, <2>5
  <2>6. CASE x = TRUE
    BY <2>1, <2>3, <2>4, <2>6
  <2>7. CASE x = FALSE
    BY <2>1, <2>3, <2>4, <2>7
  <2>8. QED
    BY <2>1, <2>2, <2>5, <2>6, <2>7
<1>11. y \in first <=> \/ y = Failed /\ Failed \in get(b, c1)
                       \/ y \in second /\ \E v \in get(b, c1) : v # Failed /\ v \in p1
                       \/ y = FALSE /\ \E v \in get(b, c1) : v # Failed /\ v \notin p1
  BY <1>9, Zenon
<1> HIDE DEF first, second
<1>12. QED
  BY <1>1, <1>8, <1>10, <1>11, VerdictIs DEF Follows

\* One verdict on each row, or the failure of one.
LEMMA SequencedVerdicts ==
  ASSUME NEW n \in Nat, NEW outs \in [1..n -> SUBSET (BOOLEAN \cup {Failed})]
  PROVE  /\ Failed \in Sequenced(outs) <=> \E k \in 1..n : Failed \in outs[k]
         /\ \A c : c \in Sequenced(outs) /\ c # Failed
                      <=> c \in [1..n -> BOOLEAN] /\ \A k \in 1..n : c[k] \in outs[k]
<1> DEFINE O == BOOLEAN \cup {Failed}
<1>1. outs \in Seq(SUBSET O) /\ Len(outs) = n /\ DOMAIN outs = 1..n
  <2> HIDE DEF O
  <2>1. QED
    BY DEF O
<1>2. \A k \in 1..n : outs[k] \subseteq BOOLEAN \cup {Failed}
  OBVIOUS
<1> HIDE DEF O
<1>3. Sequenced(outs) = Choices(O, outs, n)
                          \cup {o \in {Failed} : \E k \in DOMAIN outs : o \in outs[k]}
  BY <1>1, SequencedIs
<1>4. \A c : c \in Choices(O, outs, n)
              <=> c \in [1..n -> BOOLEAN] /\ \A k \in 1..n : c[k] \in outs[k]
  <2> TAKE c
  <2>1. ASSUME c \in Choices(O, outs, n)
        PROVE  c \in [1..n -> BOOLEAN] /\ \A k \in 1..n : c[k] \in outs[k]
    <3>1. c \in Seq(O) /\ Len(c) = n /\ \A k \in 1..n : c[k] \in outs[k] \ {Failed}
      BY <2>1 DEF Choices
    <3>2. \A k \in 1..n : c[k] \in BOOLEAN
      BY <1>2, <3>1
    <3>3. QED
      BY <3>1, <3>2
  <2>2. ASSUME c \in [1..n -> BOOLEAN], \A k \in 1..n : c[k] \in outs[k]
        PROVE  c \in Choices(O, outs, n)
    <3>1. \A k \in 1..n : c[k] \in O /\ c[k] # Failed
      BY <2>2, FramesAssumption DEF O
    <3>2. c \in Seq(O) /\ Len(c) = n
      BY <2>2, <3>1
    <3>3. QED
      BY <2>2, <3>1, <3>2 DEF Choices
  <2>3. QED
    BY <2>1, <2>2
<1>5. \A c \in Choices(O, outs, n) : c # Failed
  <2>1. [1..n -> BOOLEAN] \subseteq Seq(BOOLEAN)
    OBVIOUS
  <2>2. QED
    BY <1>4, <2>1, FramesAssumption
<1>6. \A o : o \in Sequenced(outs)
              <=> o \in Choices(O, outs, n) \/ (o = Failed /\ \E k \in 1..n : Failed \in outs[k])
  BY <1>1, <1>3
<1>7. QED
  BY <1>4, <1>5, <1>6

\* The rows kept of a frame, and where each comes from.
LEMMA KeptFrom ==
  ASSUME NEW f, IsFrame(f), NEW chosen, NEW t, Keeping(f, chosen, t)
  PROVE  /\ \A i \in 1 .. Len(t[rows(f)]) : \E j \in 1 .. rows(f) : chosen[j] /\ Len(t[j]) = i
         /\ \A j, k \in 1 .. rows(f) : chosen[j] /\ chosen[k] /\ Len(t[j]) = Len(t[k]) => j = k
<1> DEFINE n == rows(f)
           S == {m \in 0..n : \A i \in 1 .. Len(t[m]) : \E j \in 1..m : chosen[j] /\ Len(t[j]) = i}
<1>1. n \in Nat
  BY DEF IsFrame, rows
<1>2. /\ \A m \in 0..n : t[m] \in Seq(Block) /\ Len(t[m]) \in Nat
      /\ t[0] = <<>>
      /\ \A m \in 1..n : t[m] = IF chosen[m] THEN Append(t[m - 1], f.data[m]) ELSE t[m - 1]
  BY <1>1 DEF Keeping
<1>3. \A m \in 1..n : Len(t[m]) = IF chosen[m] THEN Len(t[m - 1]) + 1 ELSE Len(t[m - 1])
  <2> TAKE m \in 1..n
  <2>1. m - 1 \in 0..n
    BY <1>1
  <2>2. t[m - 1] \in Seq(Block)
    BY <1>2, <2>1
  <2>3. CASE chosen[m]
    <3>1. t[m] = Append(t[m - 1], f.data[m])
      BY <1>2, <2>3
    <3>2. QED
      BY <2>2, <2>3, <3>1
  <2>4. CASE ~chosen[m]
    BY <1>2, <2>4
  <2>5. QED
    BY <2>3, <2>4
<1>4. 0 \in S
  BY <1>1, <1>2
<1>5. \A m \in 0 .. n - 1 : m \in S => m + 1 \in S
  <2> SUFFICES ASSUME NEW m \in 0 .. n - 1, m \in S, NEW i \in 1 .. Len(t[m + 1])
               PROVE  \E j \in 1 .. m + 1 : chosen[j] /\ Len(t[j]) = i
    BY <1>1
  <2>1. m + 1 \in 1..n /\ (m + 1) - 1 = m /\ m \in 0..n /\ m + 1 \in 1 .. m + 1
    BY <1>1
  <2>2. Len(t[m + 1]) = IF chosen[m + 1] THEN Len(t[m]) + 1 ELSE Len(t[m])
    BY <1>3, <2>1
  <2>3. CASE i \in 1 .. Len(t[m])
    <3>1. PICK j \in 1..m : chosen[j] /\ Len(t[j]) = i
      BY <2>3
    <3>2. j \in 1 .. m + 1
      BY <2>1
    <3>3. QED
      BY <3>1, <3>2
  <2>4. CASE i \notin 1 .. Len(t[m])
    <3>1. chosen[m + 1] /\ Len(t[m + 1]) = i
      BY <1>2, <2>1, <2>2, <2>4
    <3>2. QED
      BY <2>1, <3>1
  <2>5. QED
    BY <2>3, <2>4
<1> HIDE DEF S
<1>6. n \in S
  <2>1. 0..n \subseteq S
    BY <1>1, <1>4, <1>5, UptoInduction
  <2>2. QED
    BY <1>1, <2>1
<1>7. ASSUME NEW j \in 1..n, NEW k \in 1..n, j < k, chosen[j], chosen[k]
      PROVE  Len(t[j]) < Len(t[k])
  <2>1. k - 1 \in 0..n /\ j \in 1 .. k - 1
    BY <1>1, <1>7
  <2>2. Placed(f, chosen, t, k - 1)
    BY <2>1, KeptRows
  <2>3. Len(t[j]) <= Len(t[k - 1])
    BY <1>2, <1>7, <2>1, <2>2 DEF Placed
  <2>4. Len(t[k]) = Len(t[k - 1]) + 1
    BY <1>3, <1>7
  <2>5. QED
    BY <1>1, <1>2, <2>1, <2>3, <2>4
<1>8. \A j, k \in 1..n : chosen[j] /\ chosen[k] /\ Len(t[j]) = Len(t[k]) => j = k
  <2> SUFFICES ASSUME NEW j \in 1..n, NEW k \in 1..n, chosen[j], chosen[k], Len(t[j]) = Len(t[k]), j # k
               PROVE  FALSE
    OBVIOUS
  <2>1. Len(t[j]) \in Nat /\ Len(t[k]) \in Nat
    BY <1>1, <1>2
  <2>2. j < k \/ k < j
    BY <1>1
  <2>3. QED
    BY <1>7, <2>1, <2>2
<1>9. \A i \in 1 .. Len(t[n]) : \E j \in 1..n : chosen[j] /\ Len(t[j]) = i
  BY <1>6 DEF S
<1>10. QED
  BY <1>8, <1>9

\* c keeps the rows that e keeps of those that d keeps.
Composed(f, d, t, e, c) == \A j \in 1 .. rows(f) : c[j] <=> d[j] /\ e[Len(t[j])]

\* Filtering what a filter has kept is one filter.
LEMMA KeepTwice ==
  ASSUME NEW f, IsFrame(f), NEW d, NEW t, Keeping(f, d, t),
         NEW h, h = [label |-> f.label, data |-> t[rows(f)]],
         NEW e, NEW c, Composed(f, d, t, e, c)
  PROVE  Keep(h, e) = Keep(f, c)
<1> DEFINE n == rows(f)
<1>1. n \in Nat
  BY DEF IsFrame, rows
<1>2. /\ \A m \in 0..n : t[m] \in Seq(Block) /\ Len(t[m]) \in Nat
      /\ t[0] = <<>>
      /\ \A m \in 1..n : t[m] = IF d[m] THEN Append(t[m - 1], f.data[m]) ELSE t[m - 1]
  BY <1>1 DEF Keeping
<1>3. IsFrame(h) /\ rows(h) = Len(t[n]) /\ h.data = t[n] /\ h.label = f.label
  BY <1>1, <1>2 DEF IsFrame, rows
<1>4. PICK u : Keeping(h, e, u) /\ Keep(h, e) = [label |-> h.label, data |-> u[Len(t[n])]]
  BY <1>3, KeepIs
<1>5. PICK w : Keeping(f, c, w) /\ Keep(f, c) = [label |-> f.label, data |-> w[n]]
  BY KeepIs
<1> DEFINE S == {k \in 0..n : u[Len(t[k])] = w[k]}
<1>6. u[0] = <<>> /\ w[0] = <<>> /\ Len(t[0]) = 0
  BY <1>2, <1>4, <1>5 DEF Keeping
<1>7. 0 \in S
  BY <1>1, <1>6
<1>8. \A k \in 0 .. n - 1 : k \in S => k + 1 \in S
  <2> SUFFICES ASSUME NEW k \in 0 .. n - 1, u[Len(t[k])] = w[k]
               PROVE  u[Len(t[k + 1])] = w[k + 1]
    BY <1>1
  <2> DEFINE m == k + 1
  <2>1. m \in 1..n /\ m - 1 = k /\ k \in 0..n /\ n \in 0..n
    BY <1>1
  <2> HIDE DEF m
  <2>2. t[m] = IF d[m] THEN Append(t[k], f.data[m]) ELSE t[k]
    BY <1>2, <2>1
  <2>3. w[m] = IF c[m] THEN Append(w[k], f.data[m]) ELSE w[k]
    BY <1>5, <2>1 DEF Keeping
  <2>4. c[m] <=> d[m] /\ e[Len(t[m])]
    BY <2>1 DEF Composed
  <2>5. CASE ~d[m]
    BY <2>2, <2>3, <2>4, <2>5 DEF m
  <2>6. CASE d[m]
    <3>1. Len(t[m]) = Len(t[k]) + 1
      BY <1>2, <2>1, <2>2, <2>6
    <3>2. Placed(f, d, t, n)
      BY <2>1, KeptRows
    <3>3. Len(t[m]) \in 1 .. Len(t[n]) /\ t[n][Len(t[m])] = f.data[m]
      BY <2>1, <2>6, <3>2 DEF Placed
    <3>4. Len(t[m]) - 1 = Len(t[k])
      BY <1>2, <2>1, <3>1
    <3>5. u[Len(t[m])] = IF e[Len(t[m])] THEN Append(u[Len(t[m]) - 1], h.data[Len(t[m])])
                         ELSE u[Len(t[m]) - 1]
      BY <1>3, <1>4, <3>3 DEF Keeping
    <3>6. u[Len(t[m])] = w[m]
      BY <1>3, <2>3, <2>4, <2>6, <3>3, <3>4, <3>5
    <3>7. QED
      BY <3>6 DEF m
  <2>7. QED
    BY <2>5, <2>6
<1> HIDE DEF S
<1>9. n \in S
  <2>1. 0..n \subseteq S
    BY <1>1, <1>7, <1>8, UptoInduction
  <2>2. QED
    BY <1>1, <2>1
<1>10. u[Len(t[n])] = w[n]
  BY <1>9 DEF S
<1>11. QED
  BY <1>3, <1>4, <1>5, <1>10

\* The outcomes are the failure, if one of the verdicts may be, and the rows kept
\* by the other verdicts.
Filters(f, outs, S) ==
    /\ Failed \in S <=> \E k \in 1 .. rows(f) : Failed \in outs[k]
    /\ \A g : g \in S /\ g # Failed
                 <=> \E c \in [1 .. rows(f) -> BOOLEAN] :
                        g = Keep(f, c) /\ \A k \in 1 .. rows(f) : c[k] \in outs[k]

\* The outcomes of a filter: one frame for each choice of verdicts, and the failure if a
\* row may fail.
LEMMA OutcomesAre ==
  ASSUME NEW f \in Frame, NEW outs \in [1 .. rows(f) -> SUBSET (BOOLEAN \cup {Failed})]
  PROVE  Filters(f, outs, Outcomes(f, outs))
<1>1. rows(f) \in Nat
  BY DEF Frame, rows
<1>2. \A c : Keep(f, c) # Failed
  BY KeptType, FrameIs
<1>3. \A g : g \in Outcomes(f, outs)
              <=> \E c \in Sequenced(outs) : g = IF c = Failed THEN Failed ELSE Keep(f, c)
  BY Zenon DEF Outcomes
<1>4. Failed \in Sequenced(outs) <=> \E k \in 1 .. rows(f) : Failed \in outs[k]
  BY <1>1, SequencedVerdicts
<1>5. \A c : c \in Sequenced(outs) /\ c # Failed
              <=> c \in [1 .. rows(f) -> BOOLEAN] /\ \A k \in 1 .. rows(f) : c[k] \in outs[k]
  BY <1>1, SequencedVerdicts
<1>6. Failed \in Outcomes(f, outs) <=> Failed \in Sequenced(outs)
  BY <1>2, <1>3, Zenon
<1>7. ASSUME NEW g
      PROVE  g \in Outcomes(f, outs) /\ g # Failed
               <=> \E c \in [1 .. rows(f) -> BOOLEAN] :
                      g = Keep(f, c) /\ \A k \in 1 .. rows(f) : c[k] \in outs[k]
  <2>1. g \in Outcomes(f, outs) /\ g # Failed
          <=> \E c : c \in Sequenced(outs) /\ c # Failed /\ g = Keep(f, c)
    BY <1>2, <1>3, Zenon
  <2>2. QED
    BY <1>5, <2>1, Zenon
<1>8. QED
  BY <1>4, <1>6, <1>7, Zenon DEF Filters

\* The outcomes of where(col, p) ...
LEMMA WhereOutcomes ==
  ASSUME NEW f \in Frame, NEW col, NEW p
  PROVE  Filters(f, Verdicts(f, col, p), where(f, col, p))
<1> DEFINE O == BOOLEAN \cup {Failed}
<1>1. DOMAIN f.data = 1 .. rows(f) /\ \A k \in 1 .. rows(f) : f.data[k] \in Block
  BY ElementOfSeq DEF Frame, rows
<1>2. \A k \in 1 .. rows(f) : Verdict(f.data[k], col, p) \in SUBSET O
  BY <1>1, VerdictIs
<1>3. Verdicts(f, col, p) \in [1 .. rows(f) -> SUBSET O]
  <2> HIDE DEF O
  <2>1. QED
    BY <1>1, <1>2 DEF Verdicts
<1>4. QED
  BY <1>3, WhereVerdicts, OutcomesAre

\* ... and of where(cols, ps).
LEMMA WhereManyOutcomes ==
  ASSUME NEW f \in Frame, NEW c1, NEW p1, NEW c2, NEW p2
  PROVE  Filters(f, Verdicts2(f, c1, p1, c2, p2), whereMany(f, <<c1, c2>>, <<p1, p2>>))
<1> DEFINE O == BOOLEAN \cup {Failed}
<1>1. DOMAIN f.data = 1 .. rows(f) /\ \A k \in 1 .. rows(f) : f.data[k] \in Block
  BY ElementOfSeq DEF Frame, rows
<1>2. \A k \in 1 .. rows(f) : Verdict2(f.data[k], c1, p1, c2, p2) \in SUBSET O
  <2> SUFFICES ASSUME NEW k \in 1 .. rows(f), NEW y \in Verdict2(f.data[k], c1, p1, c2, p2)
               PROVE  y \in O
    OBVIOUS
  <2>1. Follows(y, Verdict(f.data[k], c1, p1), Verdict(f.data[k], c2, p2))
    BY <1>1, Verdict2Is
  <2>2. Verdict(f.data[k], c2, p2) \subseteq O
    BY <1>1, VerdictIs
  <2>3. QED
    BY <2>1, <2>2 DEF Follows
<1>3. Verdicts2(f, c1, p1, c2, p2) \in [1 .. rows(f) -> SUBSET O]
  <2> HIDE DEF O
  <2>1. QED
    BY <1>1, <1>2 DEF Verdicts2
<1>4. QED
  BY <1>3, WhereManyVerdicts, OutcomesAre

\* The outcomes of filtering what is left of f.
ThenWhere(f, c1, p1, c2, p2) == Then(where(f, c1, p1), LAMBDA g : where(g, c2, p2))

\* An outcome of two filters in a row is an outcome of the second on one of the first.
LEMMA ThenWhereIs ==
  ASSUME NEW f, NEW c1, NEW p1, NEW c2, NEW p2, NEW g
  PROVE  g \in ThenWhere(f, c1, p1, c2, p2)
           <=> \E x \in where(f, c1, p1) : g \in IF x = Failed THEN {Failed} ELSE where(x, c2, p2)
BY Zenon DEF ThenWhere, Then

\* What is known of the verdicts of the two filters on the rows of f.
RowVerdicts(f, c1, p1, c2, p2) ==
    \A k \in 1 .. rows(f) :
        /\ f.data[k] \in Block
        /\ Verdicts(f, c1, p1)[k] = Verdict(f.data[k], c1, p1)
        /\ Verdicts2(f, c1, p1, c2, p2)[k] = Verdict2(f.data[k], c1, p1, c2, p2)
        /\ Verdict(f.data[k], c1, p1) \subseteq BOOLEAN \cup {Failed}
        /\ Verdict(f.data[k], c1, p1) # {}
        /\ Verdict(f.data[k], c2, p2) \subseteq BOOLEAN \cup {Failed}

\* The verdicts on each row have the types that the two filters need.
LEMMA RowVerdictsHold ==
  ASSUME NEW f \in Frame, NEW c1, NEW p1, NEW c2, NEW p2
  PROVE  RowVerdicts(f, c1, p1, c2, p2)
<1>1. DOMAIN f.data = 1 .. rows(f) /\ \A k \in 1 .. rows(f) : f.data[k] \in Block
  BY ElementOfSeq DEF Frame, rows
<1>2. QED
  BY <1>1, VerdictIs DEF RowVerdicts, Verdicts, Verdicts2

\* One of the filters fails on a row that gets that far.
LEMMA FailAlike ==
  ASSUME NEW f \in Frame, NEW c1, NEW p1, NEW c2, NEW p2
  PROVE  Failed \in whereMany(f, <<c1, c2>>, <<p1, p2>>)
           <=> Failed \in ThenWhere(f, c1, p1, c2, p2)
<1> DEFINE n == rows(f)
           V(k) == Verdict(f.data[k], c1, p1)
           W(k) == Verdict(f.data[k], c2, p2)
           one == where(f, c1, p1)
           both == whereMany(f, <<c1, c2>>, <<p1, p2>>)
<1>1. n \in Nat /\ RowVerdicts(f, c1, p1, c2, p2)
  BY RowVerdictsHold DEF Frame, rows
<1>2. \A k \in 1..n : /\ f.data[k] \in Block
                      /\ Verdicts(f, c1, p1)[k] = V(k)
                      /\ Verdicts2(f, c1, p1, c2, p2)[k] = Verdict2(f.data[k], c1, p1, c2, p2)
                      /\ V(k) \subseteq BOOLEAN \cup {Failed}
                      /\ V(k) # {}
  BY <1>1 DEF RowVerdicts
<1>3. Failed # TRUE /\ Failed # FALSE
  BY FramesAssumption
<1>4. Failed \in both <=> \E k \in 1..n : Failed \in V(k) \/ (TRUE \in V(k) /\ Failed \in W(k))
  <2>1. Failed \in both <=> \E k \in 1..n : Failed \in Verdicts2(f, c1, p1, c2, p2)[k]
    BY WhereManyOutcomes DEF Filters
  <2>2. ASSUME NEW k \in 1..n
        PROVE  Failed \in Verdicts2(f, c1, p1, c2, p2)[k]
                 <=> Failed \in V(k) \/ (TRUE \in V(k) /\ Failed \in W(k))
    <3>1. Failed \in Verdict2(f.data[k], c1, p1, c2, p2) <=> Follows(Failed, V(k), W(k))
      BY <1>2, Verdict2Is
    <3>2. Follows(Failed, V(k), W(k)) <=> Failed \in V(k) \/ (TRUE \in V(k) /\ Failed \in W(k))
      BY <1>3 DEF Follows
    <3>3. QED
      BY <1>2, <3>1, <3>2
  <2>3. QED
    BY <2>1, <2>2
<1>5. Failed \in one <=> \E k \in 1..n : Failed \in V(k)
  BY <1>2, WhereOutcomes DEF Filters
<1>6. \A h : h \in one /\ h # Failed
               <=> \E c \in [1..n -> BOOLEAN] : h = Keep(f, c) /\ \A k \in 1..n : c[k] \in V(k)
  <2>1. \A h : h \in one /\ h # Failed
               <=> \E c \in [1..n -> BOOLEAN] :
                      h = Keep(f, c) /\ \A k \in 1..n : c[k] \in Verdicts(f, c1, p1)[k]
    BY WhereOutcomes DEF Filters
  <2>2. QED
    BY <1>2, <2>1
<1> HIDE DEF one, both
<1>7. ASSUME Failed \in both
      PROVE  Failed \in ThenWhere(f, c1, p1, c2, p2)
  <2>1. CASE \E k \in 1..n : Failed \in V(k)
    <3>1. Failed \in one
      BY <1>5, <2>1
    <3>2. QED
      BY <3>1, ThenWhereIs DEF one
  <2>2. CASE ~\E k \in 1..n : Failed \in V(k)
    <3>1. PICK k \in 1..n : TRUE \in V(k) /\ Failed \in W(k)
      BY <1>4, <1>7, <2>2
    <3> DEFINE d == [j \in 1..n |-> IF j = k THEN TRUE ELSE CHOOSE v \in V(j) : TRUE]
    <3>2. \A j \in 1..n : (CHOOSE v \in V(j) : TRUE) \in V(j)
      BY <1>2
    <3>3. \A j \in 1..n : V(j) \subseteq BOOLEAN
      BY <1>2, <2>2
    <3>4. \A j \in 1..n : d[j] \in V(j)
      BY <3>1, <3>2
    <3>5. d \in [1..n -> BOOLEAN] /\ d[k]
      <4> HIDE DEF V
      <4>1. \A j \in 1..n : (IF j = k THEN TRUE ELSE CHOOSE v \in V(j) : TRUE) \in BOOLEAN
        BY <3>2, <3>3
      <4>2. QED
        BY <4>1
    <3> HIDE DEF d
    <3> DEFINE h == Keep(f, d)
    <3>6. h \in one /\ h # Failed
      BY <1>6, <3>4, <3>5
    <3>7. h \in Frame
      BY KeptType
    <3>8. PICK i \in 1 .. rows(h) : h.data[i] = f.data[k]
      <4>1. KeptOf(f, d, h)
        BY Kept, FrameIs
      <4> HIDE DEF h
      <4>2. QED
        BY <3>1, <3>5, <4>1 DEF KeptOf
    <3> HIDE DEF h
    <3>9. RowVerdicts(h, c2, p2, c2, p2)
      BY <3>7, RowVerdictsHold
    <3>10. Failed \in Verdicts(h, c2, p2)[i]
      BY <3>1, <3>8, <3>9 DEF RowVerdicts
    <3>11. Failed \in where(h, c2, p2)
      BY <3>7, <3>8, <3>10, WhereOutcomes DEF Filters
    <3>12. QED
      BY <3>6, <3>11, ThenWhereIs DEF one
  <2>3. QED
    BY <2>1, <2>2
<1>8. ASSUME Failed \in ThenWhere(f, c1, p1, c2, p2)
      PROVE  Failed \in both
  <2>1. PICK x \in one : Failed \in IF x = Failed THEN {Failed} ELSE where(x, c2, p2)
    BY <1>8, ThenWhereIs DEF one
  <2>2. CASE x = Failed
    BY <1>4, <1>5, <2>1, <2>2
  <2>3. CASE x # Failed
    <3>1. PICK d \in [1..n -> BOOLEAN] : x = Keep(f, d) /\ \A k \in 1..n : d[k] \in V(k)
      BY <1>6, <2>1, <2>3
    <3>2. x \in Frame /\ Failed \in where(x, c2, p2)
      BY <2>1, <2>3, <3>1, KeptType
    <3>3. PICK i \in 1 .. rows(x) : Failed \in Verdicts(x, c2, p2)[i]
      BY <3>2, WhereOutcomes DEF Filters
    <3>4. RowVerdicts(x, c2, p2, c2, p2)
      BY <3>2, RowVerdictsHold
    <3>5. Failed \in Verdict(x.data[i], c2, p2)
      BY <3>3, <3>4 DEF RowVerdicts
    <3>6. PICK j \in 1..n : d[j] /\ x.data[i] = f.data[j]
      <4>1. KeptOf(f, d, x)
        BY <3>1, Kept, FrameIs
      <4>2. QED
        BY <3>3, <4>1 DEF KeptOf
    <3>7. TRUE \in V(j)
      BY <3>1, <3>6
    <3>8. QED
      BY <1>4, <3>5, <3>6, <3>7
  <2>4. QED
    BY <2>2, <2>3
<1>9. QED
  BY <1>7, <1>8 DEF both

\* What is kept by the one is kept by the other.
LEMMA KeepAlike ==
  ASSUME NEW f \in Frame, NEW c1, NEW p1, NEW c2, NEW p2, NEW g, g # Failed
  PROVE  g \in whereMany(f, <<c1, c2>>, <<p1, p2>>) <=> g \in ThenWhere(f, c1, p1, c2, p2)
<1> DEFINE n == rows(f)
           V(k) == Verdict(f.data[k], c1, p1)
           W(k) == Verdict(f.data[k], c2, p2)
           one == where(f, c1, p1)
           both == whereMany(f, <<c1, c2>>, <<p1, p2>>)
<1>1. n \in Nat /\ IsFrame(f) /\ RowVerdicts(f, c1, p1, c2, p2)
  BY RowVerdictsHold, FrameIs DEF Frame, rows
<1>2. \A k \in 1..n : /\ f.data[k] \in Block
                      /\ Verdicts(f, c1, p1)[k] = V(k)
                      /\ Verdicts2(f, c1, p1, c2, p2)[k] = Verdict2(f.data[k], c1, p1, c2, p2)
  BY <1>1 DEF RowVerdicts
<1>3. TRUE # FALSE /\ Failed # TRUE /\ Failed # FALSE
  BY FramesAssumption
<1>4. \A k \in 1..n : \A y \in BOOLEAN :
         y \in Verdicts2(f, c1, p1, c2, p2)[k]
           <=> (TRUE \in V(k) /\ y \in W(k)) \/ (FALSE \in V(k) /\ y = FALSE)
  <2> TAKE k \in 1..n
  <2> TAKE y \in BOOLEAN
  <2>1. y \in Verdict2(f.data[k], c1, p1, c2, p2) <=> Follows(y, V(k), W(k))
    BY <1>2, Verdict2Is
  <2>2. Follows(y, V(k), W(k)) <=> (TRUE \in V(k) /\ y \in W(k)) \/ (FALSE \in V(k) /\ y = FALSE)
    BY <1>3 DEF Follows
  <2>3. QED
    BY <1>2, <2>1, <2>2
<1>5. g \in both <=> \E c \in [1..n -> BOOLEAN] :
                        g = Keep(f, c) /\ \A k \in 1..n : c[k] \in Verdicts2(f, c1, p1, c2, p2)[k]
  BY WhereManyOutcomes DEF Filters
<1>6. \A h : h \in one /\ h # Failed
               <=> \E c \in [1..n -> BOOLEAN] : h = Keep(f, c) /\ \A k \in 1..n : c[k] \in V(k)
  <2>1. \A h : h \in one /\ h # Failed
               <=> \E c \in [1..n -> BOOLEAN] :
                      h = Keep(f, c) /\ \A k \in 1..n : c[k] \in Verdicts(f, c1, p1)[k]
    BY WhereOutcomes DEF Filters
  <2>2. QED
    BY <1>2, <2>1
<1>7. \A d : \E t : /\ Keeping(f, d, t) /\ Keep(f, d) = [label |-> f.label, data |-> t[n]]
                    /\ Keep(f, d) \in Frame /\ rows(Keep(f, d)) = Len(t[n])
                    /\ \A j \in 1..n : d[j] => /\ Len(t[j]) \in 1 .. Len(t[n])
                                               /\ Keep(f, d).data[Len(t[j])] = f.data[j]
  <2> TAKE d
  <2>1. PICK t : Keeping(f, d, t) /\ Keep(f, d) = [label |-> f.label, data |-> t[n]]
    BY <1>1, KeepIs
  <2>2. Keep(f, d) \in Frame
    BY KeptType
  <2>3. rows(Keep(f, d)) = Len(t[n]) /\ Keep(f, d).data = t[n]
    BY <2>1 DEF rows
  <2>4. Placed(f, d, t, n)
    BY <1>1, <2>1, KeptRows
  <2>5. \A j \in 1..n : d[j] => Len(t[j]) \in 1 .. Len(t[n]) /\ t[n][Len(t[j])] = f.data[j]
    BY <2>4 DEF Placed
  <2>6. QED
    BY <2>1, <2>2, <2>3, <2>5
<1> HIDE DEF one, both
<1>8. ASSUME g \in both
      PROVE  g \in ThenWhere(f, c1, p1, c2, p2)
  <2>1. PICK c \in [1..n -> BOOLEAN] :
           g = Keep(f, c) /\ \A k \in 1..n : c[k] \in Verdicts2(f, c1, p1, c2, p2)[k]
    BY <1>5, <1>8
  <2>2. \A k \in 1..n : (TRUE \in V(k) /\ c[k] \in W(k)) \/ (FALSE \in V(k) /\ c[k] = FALSE)
    BY <1>4, <2>1
  <2> DEFINE R == {k \in 1..n : TRUE \in V(k) /\ c[k] \in W(k)}
             d == [k \in 1..n |-> IF k \in R THEN TRUE ELSE FALSE]
  <2>3. d \in [1..n -> BOOLEAN] /\ \A k \in 1..n : d[k] <=> k \in R
    <3> HIDE DEF R
    <3>1. QED
      OBVIOUS
  <2>4. \A k \in 1..n : d[k] \in V(k)
    <3> SUFFICES ASSUME NEW k \in 1..n PROVE d[k] \in V(k)
      OBVIOUS
    <3>1. CASE k \in R
      BY <3>1
    <3>2. CASE k \notin R
      BY <2>2, <3>2
    <3>3. QED
      BY <3>1, <3>2
  <2>5. \A k \in 1..n : c[k] => d[k]
    BY <2>2, <2>3
  <2>6. \A k \in 1..n : d[k] => c[k] \in W(k)
    BY <2>3
  <2> HIDE DEF d
  <2> DEFINE h == Keep(f, d)
  <2>7. h \in one /\ h # Failed
    BY <1>6, <2>3, <2>4
  <2>8. PICK t : /\ Keeping(f, d, t) /\ h = [label |-> f.label, data |-> t[n]]
                 /\ h \in Frame /\ rows(h) = Len(t[n])
                 /\ \A j \in 1..n : d[j] => /\ Len(t[j]) \in 1 .. Len(t[n])
                                            /\ h.data[Len(t[j])] = f.data[j]
    BY <1>7
  <2> HIDE DEF h
  <2>9. /\ \A i \in 1 .. rows(h) : \E j \in 1..n : d[j] /\ Len(t[j]) = i
        /\ \A j, k \in 1..n : d[j] /\ d[k] /\ Len(t[j]) = Len(t[k]) => j = k
    BY <1>1, <2>8, KeptFrom
  <2> DEFINE from(i) == CHOOSE j \in 1..n : d[j] /\ Len(t[j]) = i
             e == [i \in 1 .. rows(h) |-> c[from(i)]]
  <2>10. \A i \in 1 .. rows(h) : from(i) \in 1..n /\ d[from(i)] /\ Len(t[from(i)]) = i
    BY <2>9
  <2>11. \A j \in 1..n : d[j] => Len(t[j]) \in 1 .. rows(h) /\ from(Len(t[j])) = j
    BY <2>8, <2>9, <2>10
  <2> HIDE DEF from
  <2>12. e \in [1 .. rows(h) -> BOOLEAN] /\ \A j \in 1..n : d[j] => e[Len(t[j])] = c[j]
    BY <2>1, <2>10, <2>11
  <2>13. \A i \in 1 .. rows(h) : e[i] \in Verdict(h.data[i], c2, p2)
    BY <2>6, <2>8, <2>10
  <2> HIDE DEF e
  <2>14. Keep(h, e) = g
    <3>1. Composed(f, d, t, e, c)
      BY <2>5, <2>12 DEF Composed
    <3>2. IsFrame(f) /\ Keeping(f, d, t) /\ h = [label |-> f.label, data |-> t[rows(f)]]
      BY <1>1, <2>8
    <3>3. Keep(h, e) = Keep(f, c)
      BY <3>1, <3>2, KeepTwice
    <3>4. QED
      BY <2>1, <3>3
  <2>15. \A i \in 1 .. rows(h) : e[i] \in Verdicts(h, c2, p2)[i]
    <3>1. RowVerdicts(h, c2, p2, c2, p2)
      BY <2>8, RowVerdictsHold
    <3>2. QED
      BY <2>13, <3>1 DEF RowVerdicts
  <2>16. g \in where(h, c2, p2)
    BY <2>8, <2>12, <2>14, <2>15, WhereOutcomes DEF Filters
  <2>17. QED
    BY <2>7, <2>16, ThenWhereIs DEF one
<1>9. ASSUME g \in ThenWhere(f, c1, p1, c2, p2)
      PROVE  g \in both
  <2>1. PICK h \in one : g \in IF h = Failed THEN {Failed} ELSE where(h, c2, p2)
    BY <1>9, ThenWhereIs DEF one
  <2>2. h # Failed /\ g \in where(h, c2, p2)
    BY <2>1
  <2>3. PICK d \in [1..n -> BOOLEAN] : h = Keep(f, d) /\ \A k \in 1..n : d[k] \in V(k)
    BY <1>6, <2>1, <2>2
  <2>4. PICK t : /\ Keeping(f, d, t) /\ h = [label |-> f.label, data |-> t[n]]
                 /\ h \in Frame /\ rows(h) = Len(t[n])
                 /\ \A j \in 1..n : d[j] => /\ Len(t[j]) \in 1 .. Len(t[n])
                                            /\ h.data[Len(t[j])] = f.data[j]
    <3>1. PICK t : /\ Keeping(f, d, t) /\ Keep(f, d) = [label |-> f.label, data |-> t[n]]
                   /\ Keep(f, d) \in Frame /\ rows(Keep(f, d)) = Len(t[n])
                   /\ \A j \in 1..n : d[j] => /\ Len(t[j]) \in 1 .. Len(t[n])
                                              /\ Keep(f, d).data[Len(t[j])] = f.data[j]
      BY <1>7
    <3>2. QED
      BY <2>3, <3>1
  <2>5. PICK e \in [1 .. rows(h) -> BOOLEAN] :
           g = Keep(h, e) /\ \A i \in 1 .. rows(h) : e[i] \in Verdicts(h, c2, p2)[i]
    BY <2>2, <2>4, WhereOutcomes DEF Filters
  <2>6. \A i \in 1 .. rows(h) : e[i] \in Verdict(h.data[i], c2, p2)
    <3>1. RowVerdicts(h, c2, p2, c2, p2)
      BY <2>4, RowVerdictsHold
    <3>2. QED
      BY <2>5, <3>1 DEF RowVerdicts
  <2> DEFINE R == {j \in 1..n : d[j] /\ e[Len(t[j])]}
             c == [j \in 1..n |-> IF j \in R THEN TRUE ELSE FALSE]
  <2>7. c \in [1..n -> BOOLEAN] /\ \A j \in 1..n : c[j] <=> d[j] /\ e[Len(t[j])]
    OBVIOUS
  <2>8. \A j \in 1..n : c[j] \in Verdicts2(f, c1, p1, c2, p2)[j]
    <3> SUFFICES ASSUME NEW j \in 1..n PROVE c[j] \in Verdicts2(f, c1, p1, c2, p2)[j]
      OBVIOUS
    <3> HIDE DEF c
    <3>1. c[j] \in BOOLEAN /\ (c[j] <=> d[j] /\ e[Len(t[j])]) /\ d[j] \in BOOLEAN /\ d[j] \in V(j)
      BY <2>3, <2>7
    <3>2. CASE d[j]
      <4>1. TRUE \in V(j)
        BY <3>1, <3>2
      <4>2. Len(t[j]) \in 1 .. rows(h) /\ h.data[Len(t[j])] = f.data[j]
        BY <2>4, <3>2
      <4>3. e[Len(t[j])] \in W(j) /\ e[Len(t[j])] \in BOOLEAN
        BY <2>6, <4>2
      <4>4. c[j] = e[Len(t[j])]
        BY <3>1, <3>2, <4>3
      <4>5. QED
        BY <1>4, <3>1, <4>1, <4>3, <4>4
    <3>3. CASE ~d[j]
      <4>1. FALSE \in V(j) /\ c[j] = FALSE
        BY <3>1, <3>3
      <4>2. QED
        BY <1>4, <3>1, <4>1
    <3>4. QED
      BY <3>2, <3>3
  <2> HIDE DEF c
  <2>9. g = Keep(f, c)
    <3>1. Composed(f, d, t, e, c)
      BY <2>7 DEF Composed
    <3>2. QED
      BY <1>1, <2>4, <2>5, <3>1, KeepTwice
  <2>10. QED
    BY <1>5, <2>7, <2>8, <2>9
<1>10. QED
  BY <1>8, <1>9 DEF both

\* On any frame, with any columns: where(cols, ps) returns, or throws, what the
\* chain of filters it replaces does.
THEOREM WhereManyIsTheChain == Spec => []WhereManyIsChain
<1>1. Inv => WhereManyIsChain
  <2> SUFFICES ASSUME Inv, NEW o \in Objects, NEW c1 \in Indexes, NEW c2 \in Indexes,
                      NEW p1 \in Predicates, NEW p2 \in Predicates
               PROVE  whereMany(frames[o], <<c1, c2>>, <<p1, p2>>)
                        = Then(where(frames[o], c1, p1), LAMBDA f : where(f, c2, p2))
    BY Zenon DEF WhereManyIsChain
  <2>1. frames[o] \in Frame
    BY Held
  <2>2. \A g : g \in whereMany(frames[o], <<c1, c2>>, <<p1, p2>>)
                 <=> g \in ThenWhere(frames[o], c1, p1, c2, p2)
    BY <2>1, FailAlike, KeepAlike
  <2>3. whereMany(frames[o], <<c1, c2>>, <<p1, p2>>) = ThenWhere(frames[o], c1, p1, c2, p2)
    BY <2>2
  <2>4. QED
    BY <2>3 DEF ThenWhere
<1>2. QED
  BY <1>1, Started, Stepped, PTL DEF Spec
=============================================================================
