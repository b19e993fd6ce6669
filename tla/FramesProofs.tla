---------------------------- MODULE FramesProofs ----------------------------
(***************************************************************************)
(* What the operators of Frames return, for frames of any size, and what   *)
(* those of Handover make of them.  The recursive functions of Frames are  *)
(* dealt with by induction over the rows, in the form of SetInduction.     *)
(*                                                                         *)
(* With five fields in every line of the history, predict_handover cannot  *)
(* throw: it predicts from the handovers of the file that Handovers names, *)
(* or from none if there are none.  With any file, ragged or not, a        *)
(* prediction has the type of a prediction.                                *)
(***************************************************************************)
EXTENDS Handover, SequenceTheorems, FiniteSetTheorems, WellFoundedInduction, TLAPS

\* Induction over the natural numbers, for a set.
LEMMA SetInduction ==
  ASSUME NEW S, 0 \in S, \A n \in Nat : n \in S => n + 1 \in S
  PROVE  Nat \subseteq S
<1> DEFINE T == Nat \ S
           R == OpToRel(<, Nat)
<1> SUFFICES ASSUME T # {} PROVE FALSE
  OBVIOUS
<1>1. IsWellFoundedOn(R, Nat)
  BY NatLessThanWellFounded
<1>2. PICK x \in T : \A y \in T : ~ (<<y, x>> \in R)
  <2> HIDE DEF R
  <2>1. QED
    BY <1>1, WFMin
<1>3. x \in Nat /\ x # 0
  OBVIOUS
<1>4. x - 1 \in T
  BY <1>3
<1>5. <<x - 1, x>> \in R
  BY <1>3, <1>4 DEF OpToRel
<1>6. QED
  BY <1>2, <1>4, <1>5

\* Induction over the numbers up to n, for a set.
LEMMA UptoInduction ==
  ASSUME NEW n \in Nat, NEW S, 0 \in S, \A k \in 0 .. n - 1 : k \in S => k + 1 \in S
  PROVE  0..n \subseteq S
<1> DEFINE T == {k \in Nat : k <= n => k \in S}
<1>1. 0 \in T
  OBVIOUS
<1>2. ASSUME NEW k \in Nat, k \in T PROVE k + 1 \in T
  BY <1>2
<1>3. Nat \subseteq T
  <2> HIDE DEF T
  <2>1. QED
    BY <1>1, <1>2, SetInduction
<1>4. QED
  BY <1>3

\* A recursion of n steps has a value.
LEMMA Recursion ==
  ASSUME NEW T, NEW a \in T, NEW n \in Nat, NEW G \in [1..n -> [T -> T]]
  PROVE  \E t \in [0..n -> T] : t[0] = a /\ \A k \in 1..n : t[k] = G[k][t[k - 1]]
<1> DEFINE Upto(m) == \E t \in [0..m -> T] :
                         t[0] = a /\ \A k \in 1..m : t[k] = G[k][t[k - 1]]
           S == {m \in Nat : m <= n => Upto(m)}
<1>1. 0 \in S
  <2> DEFINE t == [k \in 0..0 |-> a]
  <2>1. t \in [0..0 -> T] /\ t[0] = a /\ 1..0 = {}
    OBVIOUS
  <2> HIDE DEF t
  <2>2. Upto(0)
    BY <2>1
  <2>3. QED
    BY <2>2
<1>2. ASSUME NEW m \in Nat, m \in S PROVE m + 1 \in S
  <2>1. SUFFICES ASSUME m + 1 <= n PROVE Upto(m + 1)
    OBVIOUS
  <2>2. PICK t \in [0..m -> T] : t[0] = a /\ \A k \in 1..m : t[k] = G[k][t[k - 1]]
    BY <1>2, <2>1
  <2> DEFINE u == [k \in 0 .. m + 1 |-> IF k = m + 1 THEN G[m + 1][t[m]] ELSE t[k]]
  <2>3. G[m + 1] \in [T -> T] /\ t[m] \in T
    BY <2>1, <2>2
  <2>4. u \in [0 .. m + 1 -> T] /\ u[0] = a
    BY <2>2, <2>3
  <2>5. ASSUME NEW k \in 1 .. m + 1 PROVE u[k] = G[k][u[k - 1]]
    <3>1. CASE k = m + 1
      BY <3>1
    <3>2. CASE k \in 1..m
      <4>1. u[k] = t[k] /\ u[k - 1] = t[k - 1]
        BY <3>2
      <4>2. QED
        BY <2>2, <3>2, <4>1
    <3>3. QED
      BY <3>1, <3>2
  <2>6. QED
    BY <2>4, <2>5
<1>3. Nat \subseteq S
  <2> HIDE DEF S
  <2>1. QED
    BY <1>1, <1>2, SetInduction
<1>4. QED
  BY <1>3
-----------------------------------------------------------------------------
(* Sequenced                                                               *)

\* The sequences with one outcome of each set that is not the failure.
Choices(O, outcomes, n) ==
    {s \in Seq(O) : Len(s) = n /\ \A i \in 1..n : s[i] \in outcomes[i] \ {Failed}}

\* A choice from one more set is a choice with one more value.
LEMMA MoreChoices ==
  ASSUME NEW O, NEW outcomes \in Seq(SUBSET O), NEW n \in 1..Len(outcomes)
  PROVE  Choices(O, outcomes, n)
           = Appended(Choices(O, outcomes, n - 1), outcomes[n] \ {Failed})
<1>0. outcomes[n] \subseteq O
  OBVIOUS
<1>1. ASSUME NEW s \in Choices(O, outcomes, n)
      PROVE  \E r \in Choices(O, outcomes, n - 1), o \in outcomes[n] \ {Failed} : s = Append(r, o)
  <2> DEFINE r == [i \in 1 .. n - 1 |-> s[i]]
  <2>1. s \in Seq(O) /\ Len(s) = n /\ \A i \in 1..n : s[i] \in outcomes[i] \ {Failed}
    BY DEF Choices
  <2>2. r \in Seq(O) /\ Len(r) = n - 1
    BY <2>1
  <2>3. r \in Choices(O, outcomes, n - 1)
    BY <2>1, <2>2 DEF Choices
  <2>4. s = Append(r, s[n])
    BY <2>1, <2>2
  <2>5. s[n] \in outcomes[n] \ {Failed}
    BY <2>1
  <2> HIDE DEF r
  <2>6. QED
    BY <2>3, <2>4, <2>5
<1>2. ASSUME NEW r \in Choices(O, outcomes, n - 1), NEW o \in outcomes[n] \ {Failed}
      PROVE  Append(r, o) \in Choices(O, outcomes, n)
  <2>1. r \in Seq(O) /\ Len(r) = n - 1 /\ \A i \in 1 .. n - 1 : r[i] \in outcomes[i] \ {Failed}
    BY DEF Choices
  <2> DEFINE s == Append(r, o)
  <2>2. s \in Seq(O) /\ Len(s) = n
    BY <1>0, <2>1
  <2>3. \A i \in 1..n : s[i] = IF i = n THEN o ELSE r[i]
    BY <1>0, <2>1
  <2> HIDE DEF s
  <2>4. \A i \in 1..n : s[i] \in outcomes[i] \ {Failed}
    BY <2>1, <2>3
  <2>5. s \in Choices(O, outcomes, n)
    BY <2>2, <2>4 DEF Choices
  <2>6. QED
    BY <2>5 DEF s
<1>3. \A s : s \in Appended(Choices(O, outcomes, n - 1), outcomes[n] \ {Failed})
               <=> \E r \in Choices(O, outcomes, n - 1), o \in outcomes[n] \ {Failed} :
                       s = Append(r, o)
  BY DEF Appended
<1> DEFINE L == Choices(O, outcomes, n)
           R == Appended(Choices(O, outcomes, n - 1), outcomes[n] \ {Failed})
<1>4. \A s : s \in L <=> s \in R
  <2>1. ASSUME NEW s, s \in L PROVE s \in R
    BY <1>1, <1>3, <2>1, Zenon
  <2>2. ASSUME NEW s, s \in R PROVE s \in L
    <3>1. PICK r \in Choices(O, outcomes, n - 1), o \in outcomes[n] \ {Failed} :
               s = Append(r, o)
      BY <1>3, <2>2
    <3>2. Append(r, o) \in Choices(O, outcomes, n)
      BY <1>2
    <3>3. QED
      BY <3>1, <3>2
  <2>3. QED
    BY <2>1, <2>2
<1>5. L = R
  <2> HIDE DEF L, R
  <2>1. QED
    BY <1>4
<1>6. QED
  BY <1>5

\* Sequenced gives all choices, and the failure if a set has it.
LEMMA SequencedIs ==
  ASSUME NEW O, NEW outcomes \in Seq(SUBSET O)
  PROVE  Sequenced(outcomes)
           = Choices(O, outcomes, Len(outcomes))
               \cup {o \in {Failed} : \E k \in DOMAIN outcomes : o \in outcomes[k]}
<1> DEFINE n == Len(outcomes)
           Rec(t) == t = [k \in 0 .. n |->
                            IF k = 0 THEN {<<>>}
                            ELSE Appended(t[k - 1], outcomes[k] \ {Failed})]
           v == [k \in 0..n |-> Choices(O, outcomes, k)]
           u == CHOOSE t : Rec(t)
<1>0. n \in Nat
  OBVIOUS
<1>1. Choices(O, outcomes, 0) = {<<>>}
  <2>1. \A s \in Seq(O) : Len(s) = 0 <=> s = <<>>
    BY EmptySeq
  <2>2. <<>> \in Seq(O) /\ 1..0 = {}
    OBVIOUS
  <2>3. QED
    BY <2>1, <2>2 DEF Choices
<1>2. /\ DOMAIN v = 0..n /\ v = [k \in 0..n |-> v[k]]
      /\ \A k \in 0..n : v[k] = Choices(O, outcomes, k)
  OBVIOUS
<1> HIDE DEF v, n
<1>3. Rec(v)
  <2>1. ASSUME NEW k \in 0..n
        PROVE  v[k] = IF k = 0 THEN {<<>>}
                      ELSE Appended(v[k - 1], outcomes[k] \ {Failed})
    <3>1. CASE k = 0
      BY <1>1, <1>2, <3>1
    <3>2. CASE k # 0
      <4>1. k \in 1..n /\ k - 1 \in 0..n
        BY <1>0, <3>2
      <4>2. v[k] = Choices(O, outcomes, k) /\ v[k - 1] = Choices(O, outcomes, k - 1)
        BY <1>2, <4>1
      <4>3. Choices(O, outcomes, k)
              = Appended(Choices(O, outcomes, k - 1), outcomes[k] \ {Failed})
        BY <4>1, MoreChoices DEF n
      <4>4. QED
        BY <3>2, <4>2, <4>3
    <3>3. QED
      BY <3>1, <3>2
  <2>2. QED
    BY <1>2, <2>1
<1>4. Rec(u)
  BY <1>3
<1> HIDE DEF u
<1>5. ASSUME NEW k \in 0..n
      PROVE  u[k] = IF k = 0 THEN {<<>>}
                    ELSE Appended(u[k - 1], outcomes[k] \ {Failed})
  BY <1>4
<1> DEFINE S == {k \in Nat : k <= n => u[k] = v[k]}
<1>6. 0 \in S
  <2>1. 0 \in 0..n
    BY <1>0
  <2>2. u[0] = {<<>>} /\ v[0] = {<<>>}
    BY <1>1, <1>2, <1>5, <2>1
  <2>3. QED
    BY <2>2
<1>7. ASSUME NEW k \in Nat, k \in S PROVE k + 1 \in S
  <2>1. SUFFICES ASSUME k + 1 <= n PROVE u[k + 1] = v[k + 1]
    OBVIOUS
  <2> DEFINE m == k + 1
  <2>2. m \in 1..n /\ m \in 0..n /\ k \in 0..n /\ m - 1 = k /\ m # 0 /\ u[k] = v[k]
    BY <1>0, <1>7, <2>1
  <2> HIDE DEF m
  <2>3. u[m] = Appended(u[k], outcomes[m] \ {Failed})
    BY <1>5, <2>2
  <2>4. u[k] = Choices(O, outcomes, k)
    BY <1>2, <2>2
  <2>5. Choices(O, outcomes, m) = Appended(Choices(O, outcomes, m - 1), outcomes[m] \ {Failed})
    BY <2>2, MoreChoices DEF n
  <2>6. v[m] = Choices(O, outcomes, m)
    BY <1>2, <2>2
  <2>7. u[m] = v[m]
    BY <2>2, <2>3, <2>4, <2>5, <2>6
  <2>8. QED
    BY <2>7 DEF m
<1>8. Nat \subseteq S
  <2> HIDE DEF S
  <2>1. QED
    BY <1>6, <1>7, SetInduction
<1>10. u[n] = Choices(O, outcomes, n)
  <2>1. n \in S /\ n \in 0..n
    BY <1>0, <1>8
  <2>2. QED
    BY <1>2, <2>1
<1>9. Sequenced(outcomes) = u[n] \cup {o \in {Failed} : \E k \in DOMAIN outcomes : o \in outcomes[k]}
  BY DEF Sequenced, u, n
<1>11. QED
  BY <1>9, <1>10 DEF n

\* If each set has one outcome, and that is no failure, so has the whole.
LEMMA SequencedOne ==
  ASSUME NEW O, Failed \notin O, NEW e \in Seq(O),
         NEW outcomes, outcomes = [k \in 1..Len(e) |-> {e[k]}]
  PROVE  Sequenced(outcomes) = {e}
<1>1. outcomes \in Seq(SUBSET O) /\ Len(outcomes) = Len(e) /\ DOMAIN outcomes = 1..Len(e)
  OBVIOUS
<1>2. \A k \in 1..Len(e) : outcomes[k] = {e[k]} /\ e[k] \in O /\ e[k] # Failed
  OBVIOUS
<1>3. {o \in {Failed} : \E k \in DOMAIN outcomes : o \in outcomes[k]} = {}
  BY <1>1, <1>2
<1>4. e \in Choices(O, outcomes, Len(outcomes))
  BY <1>1, <1>2 DEF Choices
<1>5. ASSUME NEW s \in Choices(O, outcomes, Len(outcomes)) PROVE s = e
  <2>1. s \in Seq(O) /\ Len(s) = Len(e) /\ \A i \in 1..Len(e) : s[i] = e[i]
    BY <1>1, <1>2 DEF Choices
  <2>2. /\ s \in Seq(O) /\ e \in Seq(O) /\ Len(s) = Len(e)
        /\ \A i \in 1..Len(s) : s[i] = e[i]
    BY <2>1
  <2>3. QED
    BY <2>2, SeqEqual, Zenon
<1>6. Sequenced(outcomes)
        = Choices(O, outcomes, Len(outcomes))
            \cup {o \in {Failed} : \E k \in DOMAIN outcomes : o \in outcomes[k]}
  BY <1>1, SequencedIs
<1>7. QED
  BY <1>3, <1>4, <1>5, <1>6
-----------------------------------------------------------------------------
(* Keep                                                                    *)

\* A record of a header and of blocks.
IsFrame(f) ==
    /\ f = [label |-> f.label, data |-> f.data]
    /\ Len(f.label) \in Nat /\ DOMAIN f.label = 1 .. Len(f.label)
    /\ f.data \in Seq(Block)

\* t[k] is what has been kept of the first k rows.
Keeping(f, chosen, t) ==
    /\ t \in [0 .. rows(f) -> Seq(Block)]
    /\ t[0] = <<>>
    /\ \A k \in 1 .. rows(f) :
          t[k] = IF chosen[k] THEN Append(t[k - 1], f.data[k]) ELSE t[k - 1]

\* Keep computes a sequence of rows, one row after the other.
LEMMA KeepIs ==
  ASSUME NEW f, IsFrame(f), NEW chosen
  PROVE  \E t : Keeping(f, chosen, t) /\ Keep(f, chosen) = [label |-> f.label, data |-> t[rows(f)]]
<1> DEFINE n == rows(f)
           T == Seq(Block)
           G == [k \in 1..n |-> [s \in T |-> IF chosen[k] THEN Append(s, f.data[k]) ELSE s]]
           Rec(t) == t = [k \in 0 .. rows(f) |->
                            IF k = 0 THEN <<>>
                            ELSE IF chosen[k] THEN Append(t[k - 1], f.data[k])
                            ELSE t[k - 1]]
           u == CHOOSE t : Rec(t)
<1>1. n \in Nat /\ \A k \in 1..n : f.data[k] \in Block
  BY DEF IsFrame, rows
<1>2. G \in [1..n -> [T -> T]] /\ <<>> \in T
  BY <1>1
<1>3. PICK t \in [0..n -> T] : t[0] = <<>> /\ \A k \in 1..n : t[k] = G[k][t[k - 1]]
  <2> HIDE DEF G, T, n
  <2>1. QED
    BY <1>1, <1>2, Recursion, SMTT(30)
<1>4. ASSUME NEW k \in 1..n
      PROVE  t[k] = IF chosen[k] THEN Append(t[k - 1], f.data[k]) ELSE t[k - 1]
  <2>1. t[k - 1] \in T
    BY <1>1, <1>3
  <2>2. QED
    BY <1>3, <2>1
<1> HIDE DEF G, T
<1>5. Rec(t)
  <2>1. ASSUME NEW k \in 0..n
        PROVE  t[k] = IF k = 0 THEN <<>>
                      ELSE IF chosen[k] THEN Append(t[k - 1], f.data[k])
                      ELSE t[k - 1]
    <3>1. CASE k = 0
      BY <1>3, <3>1
    <3>2. CASE k \in 1..n
      <4>1. k # 0
        BY <1>1, <3>2
      <4>2. t[k] = IF chosen[k] THEN Append(t[k - 1], f.data[k]) ELSE t[k - 1]
        BY <1>4, <3>2
      <4>3. QED
        BY <4>1, <4>2, Zenon
    <3>3. QED
      BY <1>1, <3>1, <3>2
  <2>2. QED
    BY <1>3, <2>1
<1>6. Rec(u)
  BY <1>5
<1> HIDE DEF u
<1>7. ASSUME NEW k \in 0..n
      PROVE  u[k] = IF k = 0 THEN <<>>
                    ELSE IF chosen[k] THEN Append(u[k - 1], f.data[k])
                    ELSE u[k - 1]
  BY <1>6
<1>8. DOMAIN u = 0..n /\ u = [k \in 0..n |-> u[k]]
  BY <1>6
<1> DEFINE S == {k \in 0..n : u[k] \in T}
<1>9. 0 \in S
  BY <1>1, <1>2, <1>7
<1>10. ASSUME NEW k \in 0 .. n - 1, k \in S PROVE k + 1 \in S
  <2>1. k + 1 \in 0..n /\ k + 1 # 0 /\ k + 1 - 1 = k /\ f.data[k + 1] \in Block
    BY <1>1
  <2>2. u[k + 1] = IF chosen[k + 1] THEN Append(u[k], f.data[k + 1]) ELSE u[k]
    BY <1>7, <2>1
  <2>3. u[k + 1] \in T
    BY <1>10, <2>1, <2>2 DEF T
  <2>4. QED
    BY <2>1, <2>3
<1>11. 0..n \subseteq S
  <2> HIDE DEF S, n
  <2>1. QED
    BY <1>1, <1>9, <1>10, UptoInduction
<1>12. u \in [0..n -> T]
  BY <1>8, <1>11
<1>13. Keeping(f, chosen, u)
  <2>1. u[0] = <<>>
    BY <1>1, <1>7
  <2>2. ASSUME NEW k \in 1..n
        PROVE  u[k] = IF chosen[k] THEN Append(u[k - 1], f.data[k]) ELSE u[k - 1]
    BY <1>7
  <2>3. QED
    BY <1>12, <2>1, <2>2 DEF Keeping, T
<1>14. Keep(f, chosen) = [f EXCEPT !.data = u[rows(f)]]
  BY DEF Keep, u
<1>15. Keep(f, chosen) = [label |-> f.label, data |-> u[rows(f)]]
  BY <1>14 DEF IsFrame
<1>16. QED
  BY <1>13, <1>15

\* Which rows are kept, where each of them goes, and how many they are.
Placed(f, chosen, t, k) ==
    \A j \in 1..k : chosen[j] => Len(t[j]) \in 1 .. Len(t[k]) /\ t[k][Len(t[j])] = f.data[j]
Covered(f, chosen, t, k) ==
    \A i \in 1 .. Len(t[k]) : \E j \in 1..k : chosen[j] /\ t[k][i] = f.data[j]
Counted(chosen, t, k) == Len(t[k]) = Cardinality({j \in 1..k : chosen[j]})

\* What has been kept after k rows.
LEMMA KeptRows ==
  ASSUME NEW f, IsFrame(f), NEW chosen, NEW t, Keeping(f, chosen, t), NEW k \in 0 .. rows(f)
  PROVE  Placed(f, chosen, t, k) /\ Covered(f, chosen, t, k) /\ Counted(chosen, t, k)
<1> USE DEF Placed, Covered, Counted
<1> DEFINE n == rows(f)
           PlacedTo(m) == Placed(f, chosen, t, m)
           CoveredTo(m) == Covered(f, chosen, t, m)
           CountedTo(m) == Counted(chosen, t, m)
           Which(m) == {j \in 1..m : chosen[j]}
           S == {m \in 0..n : PlacedTo(m) /\ CoveredTo(m) /\ CountedTo(m)}
<1>0. n \in Nat
  BY DEF IsFrame, rows
<1>1. \A m \in 0..n : t[m] \in Seq(Block) /\ Len(t[m]) \in Nat
  BY DEF Keeping
<1>2. 0 \in S
  <2>1. t[0] = <<>> /\ Which(0) = {} /\ Len(t[0]) = 0
    BY DEF Keeping
  <2>2. CountedTo(0)
    BY <2>1, FS_EmptySet
  <2>3. PlacedTo(0) /\ CoveredTo(0)
    BY <2>1
  <2>4. QED
    BY <1>0, <2>2, <2>3
<1>3. ASSUME NEW m \in 0 .. n - 1, m \in S PROVE m + 1 \in S
  <2> DEFINE p == m + 1
  <2>1. p \in 1..n /\ p \in 0..n /\ p - 1 = m /\ m \in 0..n /\ 1..p = 1..m \cup {p} /\ p \notin 1..m
        /\ m \in Nat
    BY <1>0
  <2>2. f.data[p] \in Block
    BY <2>1 DEF IsFrame, rows
  <2>3. t[p] = IF chosen[p] THEN Append(t[m], f.data[p]) ELSE t[m]
    BY <2>1 DEF Keeping
  <2>4. PlacedTo(m) /\ CoveredTo(m) /\ CountedTo(m)
    BY <1>3
  <2> HIDE DEF p, n
  <2>5. CASE ~chosen[p]
    <3>1. t[p] = t[m] /\ Which(p) = Which(m)
      BY <2>1, <2>3, <2>5
    <3>2. PlacedTo(p)
      BY <2>1, <2>4, <2>5, <3>1
    <3>3. CoveredTo(p)
      BY <2>1, <2>4, <3>1
    <3>4. CountedTo(p)
      BY <2>4, <3>1
    <3>5. QED
      BY <2>1, <3>2, <3>3, <3>4 DEF p
  <2>6. CASE chosen[p]
    <3>1. Which(p) = Which(m) \cup {p} /\ p \notin Which(m)
      BY <2>1, <2>6
    <3>2. t[p] = Append(t[m], f.data[p])
      BY <2>3, <2>6
    <3>3. Len(t[p]) = Len(t[m]) + 1 /\ t[p][Len(t[p])] = f.data[p]
          /\ \A i \in 1 .. Len(t[m]) : t[p][i] = t[m][i]
      BY <1>1, <2>1, <2>2, <3>2
    <3>4. PlacedTo(p)
      <4>1. SUFFICES ASSUME NEW j \in 1..p, chosen[j]
                     PROVE  Len(t[j]) \in 1 .. Len(t[p]) /\ t[p][Len(t[j])] = f.data[j]
        OBVIOUS
      <4>2. CASE j = p
        BY <1>1, <2>1, <3>3, <4>2
      <4>3. CASE j \in 1..m
        <5>1. Len(t[j]) \in 1 .. Len(t[m]) /\ t[m][Len(t[j])] = f.data[j]
          BY <2>4, <4>1, <4>3
        <5>2. QED
          BY <1>1, <2>1, <3>3, <5>1
      <4>4. QED
        BY <2>1, <4>2, <4>3
    <3>5. CoveredTo(p)
      <4>1. SUFFICES ASSUME NEW i \in 1 .. Len(t[p])
                     PROVE  \E j \in 1..p : chosen[j] /\ t[p][i] = f.data[j]
        OBVIOUS
      <4>2. CASE i = Len(t[p])
        BY <2>1, <2>6, <3>3, <4>2
      <4>3. CASE i \in 1 .. Len(t[m])
        <5>1. PICK j \in 1..m : chosen[j] /\ t[m][i] = f.data[j]
          BY <2>4, <4>3
        <5>2. j \in 1..p /\ t[p][i] = f.data[j]
          BY <2>1, <3>3, <4>3, <5>1
        <5>3. QED
          BY <5>1, <5>2
      <4>4. QED
        BY <1>1, <2>1, <3>3, <4>2, <4>3
    <3>6. CountedTo(p)
      <4>1. IsFiniteSet(1..m) /\ Which(m) \subseteq 1..m
        BY <2>1, FS_Interval
      <4>2. IsFiniteSet(Which(m))
        <5> HIDE DEF Which
        <5>1. QED
          BY <4>1, FS_Subset
      <4>3. Cardinality(Which(m) \cup {p}) = Cardinality(Which(m)) + 1
        <5> HIDE DEF Which
        <5>1. QED
          BY <3>1, <4>2, FS_AddElement
      <4>4. Cardinality(Which(p)) = Cardinality(Which(m)) + 1
        BY <3>1, <4>3
      <4>5. QED
        BY <2>4, <3>3, <4>4
    <3>7. QED
      BY <2>1, <3>4, <3>5, <3>6 DEF p
  <2>7. QED
    BY <2>5, <2>6
<1>4. 0..n \subseteq S
  <2> HIDE DEF S, n
  <2>1. QED
    BY <1>0, <1>2, <1>3, UptoInduction
<1>5. k \in S
  BY <1>4
<1>6. QED
  BY <1>5

\* g has the chosen rows of f.
KeptOf(f, chosen, g) ==
    /\ IsFrame(g) /\ g.label = f.label
    /\ \A i \in 1 .. rows(g) : \E j \in 1 .. rows(f) : chosen[j] /\ g.data[i] = f.data[j]
    /\ \A j \in 1 .. rows(f) : chosen[j] => \E i \in 1 .. rows(g) : g.data[i] = f.data[j]
    /\ rows(g) = Cardinality({j \in 1 .. rows(f) : chosen[j]})

\* Keep returns the chosen rows and no others, with the header.
LEMMA Kept ==
  ASSUME NEW f, IsFrame(f), NEW chosen
  PROVE  KeptOf(f, chosen, Keep(f, chosen))
<1> DEFINE g == Keep(f, chosen)
<1>1. PICK t : Keeping(f, chosen, t) /\ g = [label |-> f.label, data |-> t[rows(f)]]
  BY KeepIs
<1> DEFINE n == rows(f)
<1> HIDE DEF g
<1>2. n \in Nat /\ n \in 0..n
  BY DEF IsFrame, rows
<1>3. t[n] \in Seq(Block) /\ g.data = t[n] /\ g.label = f.label /\ rows(g) = Len(t[n])
  BY <1>1, <1>2 DEF Keeping, rows
<1>4. IsFrame(g)
  BY <1>1, <1>3 DEF IsFrame
<1>5. Placed(f, chosen, t, n) /\ Covered(f, chosen, t, n) /\ Counted(chosen, t, n)
  BY <1>1, <1>2, KeptRows
<1> HIDE DEF n
<1>8. \A i \in 1 .. rows(g) : \E j \in 1..n : chosen[j] /\ g.data[i] = f.data[j]
  BY <1>3, <1>5 DEF Covered
<1>9. \A j \in 1..n : chosen[j] => \E i \in 1 .. rows(g) : g.data[i] = f.data[j]
  BY <1>3, <1>5 DEF Placed
<1>10. QED
  BY <1>3, <1>4, <1>5, <1>8, <1>9 DEF n, g, Counted, KeptOf

\* The rows that are in a set of blocks.
Chosen(f, R) == Keep(f, [k \in DOMAIN f.data |-> f.data[k] \in R])

\* g has the rows of f that are in R.
ChosenOf(f, R, g) ==
    /\ IsFrame(g) /\ g.label = f.label
    /\ \A i \in 1 .. rows(g) : g.data[i] \in R /\ \E j \in 1 .. rows(f) : g.data[i] = f.data[j]
    /\ \A j \in 1 .. rows(f) : f.data[j] \in R => \E i \in 1 .. rows(g) : g.data[i] = f.data[j]
    /\ rows(g) = Cardinality({j \in 1 .. rows(f) : f.data[j] \in R})

\* A choice by a set of blocks returns the rows in it and no others.
LEMMA ChosenRows ==
  ASSUME NEW f, IsFrame(f), NEW R
  PROVE  ChosenOf(f, R, Chosen(f, R))
<1> DEFINE g == Chosen(f, R)
           c == [k \in DOMAIN f.data |-> f.data[k] \in R]
           n == rows(f)
<1>1. DOMAIN f.data = 1..n
  BY DEF IsFrame, rows
<1>2. \A j \in 1..n : c[j] = (f.data[j] \in R)
  BY <1>1
<1>3. g = Keep(f, c)
  BY DEF Chosen
<1> HIDE DEF c, g
<1>4. KeptOf(f, c, g)
  BY <1>3, Kept
<1>5. {j \in 1..n : c[j]} = {j \in 1..n : f.data[j] \in R}
  BY <1>2
<1>6. rows(g) = Cardinality({j \in 1..n : f.data[j] \in R})
  BY <1>4, <1>5 DEF KeptOf
<1>7. /\ IsFrame(g) /\ g.label = f.label
      /\ \A i \in 1 .. rows(g) : \E j \in 1..n : f.data[j] \in R /\ g.data[i] = f.data[j]
      /\ \A j \in 1..n : f.data[j] \in R => \E i \in 1 .. rows(g) : g.data[i] = f.data[j]
  BY <1>2, <1>4 DEF KeptOf
<1>8. QED
  BY <1>6, <1>7 DEF ChosenOf, g

\* Two choices in a row are the choice by both.
LEMMA ChosenTwice ==
  ASSUME NEW f, IsFrame(f), NEW R, NEW Q
  PROVE  Chosen(Chosen(f, R), Q) = Chosen(f, R \cap Q)
<1> DEFINE g == Chosen(f, R)
           n == rows(f)
           c == [k \in DOMAIN f.data |-> f.data[k] \in R]
           d == [k \in DOMAIN g.data |-> g.data[k] \in Q]
           e == [k \in DOMAIN f.data |-> f.data[k] \in R \cap Q]
<1>1. IsFrame(g) /\ g.label = f.label
  BY ChosenRows DEF ChosenOf
<1>2. PICK t : Keeping(f, c, t) /\ g = [label |-> f.label, data |-> t[n]]
  BY KeepIs DEF Chosen
<1> HIDE DEF g
<1>3. PICK u : Keeping(g, d, u) /\ Chosen(g, Q) = [label |-> g.label, data |-> u[rows(g)]]
  BY <1>1, KeepIs DEF Chosen
<1>4. PICK w : Keeping(f, e, w) /\ Chosen(f, R \cap Q) = [label |-> f.label, data |-> w[n]]
  BY KeepIs DEF Chosen
<1>5. /\ n \in Nat /\ DOMAIN f.data = 1..n
      /\ \A k \in 1..n : f.data[k] \in Block
      /\ \A k \in 0..n : t[k] \in Seq(Block) /\ Len(t[k]) \in Nat
  BY <1>2 DEF IsFrame, rows, Keeping
<1>6. rows(g) = Len(t[n]) /\ g.data = t[n] /\ DOMAIN g.data = 1 .. Len(t[n])
  BY <1>2, <1>5 DEF rows
<1>7. \A k \in 1..n :
         /\ c[k] <=> f.data[k] \in R
         /\ t[k] = IF f.data[k] \in R THEN Append(t[k - 1], f.data[k]) ELSE t[k - 1]
         /\ w[k] = IF f.data[k] \in R \cap Q THEN Append(w[k - 1], f.data[k]) ELSE w[k - 1]
  BY <1>2, <1>4, <1>5 DEF Keeping
<1>8. \A i \in 1 .. Len(t[n]) :
         u[i] = IF t[n][i] \in Q THEN Append(u[i - 1], t[n][i]) ELSE u[i - 1]
  BY <1>3, <1>6 DEF Keeping
<1> HIDE DEF c, d, e, n
<1> DEFINE S == {k \in 0..n : u[Len(t[k])] = w[k]}
<1>9. 0 \in S
  BY <1>2, <1>3, <1>4, <1>5 DEF Keeping
<1>10. ASSUME NEW k \in 0 .. n - 1, k \in S PROVE k + 1 \in S
  <2> DEFINE m == k + 1
  <2>1. m \in 1..n /\ m \in 0..n /\ m - 1 = k /\ k \in 0..n /\ n \in 0..n
    BY <1>5
  <2> HIDE DEF m
  <2>2. t[m] = IF f.data[m] \in R THEN Append(t[k], f.data[m]) ELSE t[k]
    BY <1>7, <2>1
  <2>3. w[m] = IF f.data[m] \in R \cap Q THEN Append(w[k], f.data[m]) ELSE w[k]
    BY <1>7, <2>1
  <2>4. CASE f.data[m] \notin R
    <3>1. t[m] = t[k] /\ w[m] = w[k]
      BY <2>2, <2>3, <2>4
    <3>2. QED
      BY <1>10, <2>1, <3>1 DEF m
  <2>5. CASE f.data[m] \in R
    <3>1. Len(t[m]) = Len(t[k]) + 1
      BY <1>5, <2>1, <2>2, <2>5
    <3>2. Placed(f, c, t, n)
      BY <1>2, <2>1, KeptRows DEF n
    <3>3. c[m]
      BY <1>7, <2>1, <2>5
    <3>4. Len(t[m]) \in 1 .. Len(t[n]) /\ t[n][Len(t[m])] = f.data[m]
      BY <2>1, <3>2, <3>3 DEF Placed
    <3>5. Len(t[m]) - 1 = Len(t[k])
      BY <1>5, <2>1, <3>1
    <3>6. u[Len(t[m])] = IF f.data[m] \in Q THEN Append(u[Len(t[k])], f.data[m])
                         ELSE u[Len(t[k])]
      BY <1>8, <3>4, <3>5
    <3>7. u[Len(t[k])] = w[k]
      BY <1>10
    <3>8. u[Len(t[m])] = w[m]
      BY <2>3, <2>5, <3>6, <3>7
    <3>9. QED
      BY <2>1, <3>8 DEF m
  <2>6. QED
    BY <2>4, <2>5
<1>11. 0..n \subseteq S
  <2> HIDE DEF S
  <2>1. QED
    BY <1>5, <1>9, <1>10, UptoInduction
<1>12. u[Len(t[n])] = w[n]
  BY <1>5, <1>11
<1>13. QED
  BY <1>1, <1>3, <1>4, <1>6, <1>12 DEF g
-----------------------------------------------------------------------------
(* Frames whose rows fit their header: no call fails, and each returns what *)
(* its name says.                                                          *)

Fitting(f) == IsFrame(f) /\ \A k \in 1 .. rows(f) : Len(f.data[k]) = columns(f)

\* get within a block returns the field.
LEMMA GetIs ==
  ASSUME NEW b \in Block, NEW index \in 0 .. Len(b) - 1
  PROVE  get(b, index) = {b[index + 1]} /\ b[index + 1] \in Double /\ b[index + 1] # Failed
<1>1. b[index + 1] \in Double
  BY DEF Block
<1>2. QED
  BY <1>1, FramesAssumption DEF get

\* where on rows that have the column is a choice.
LEMMA WhereIs ==
  ASSUME NEW f, IsFrame(f), NEW col, NEW p,
         \A k \in 1 .. rows(f) : col \in 0 .. Len(f.data[k]) - 1
  PROVE  where(f, col, p) = {Chosen(f, {b \in Block : b[col + 1] \in p})}
<1> DEFINE n == rows(f)
           Verdicts(b) == {IF v = Failed THEN Failed ELSE v \in p : v \in get(b, col)}
           e == [k \in 1..n |-> f.data[k][col + 1] \in p]
           outs == [k \in DOMAIN f.data |-> Verdicts(f.data[k])]
           R == {b \in Block : b[col + 1] \in p}
<1>1. n \in Nat /\ DOMAIN f.data = 1..n /\ \A k \in 1..n : f.data[k] \in Block
  BY DEF IsFrame, rows
<1>2. ASSUME NEW k \in 1..n PROVE Verdicts(f.data[k]) = {f.data[k][col + 1] \in p}
  <2>1. f.data[k] \in Block /\ col \in 0 .. Len(f.data[k]) - 1
    BY <1>1 DEF Block
  <2>2. get(f.data[k], col) = {f.data[k][col + 1]} /\ f.data[k][col + 1] # Failed
    BY <2>1, GetIs
  <2>3. QED
    BY <2>2
<1>3. e \in Seq(BOOLEAN) /\ Len(e) = n /\ DOMAIN e = 1..n
  <2>1. \A k \in 1..n : (f.data[k][col + 1] \in p) \in BOOLEAN
    OBVIOUS
  <2>2. e \in [1..n -> BOOLEAN]
    BY <2>1, Zenon
  <2> HIDE DEF e
  <2>3. QED
    BY <1>1, <2>2
<1>4. outs = [k \in 1 .. Len(e) |-> {e[k]}]
  BY <1>1, <1>2, <1>3
<1>5. Failed \notin BOOLEAN /\ e # Failed
  BY <1>3, FramesAssumption
<1>6. e = [k \in DOMAIN f.data |-> f.data[k] \in R]
  BY <1>1
<1>7. where(f, col, p) = {IF c = Failed THEN Failed ELSE Keep(f, c) : c \in Sequenced(outs)}
  BY DEF where, Filtered
<1> HIDE DEF e, outs, n
<1>8. Sequenced(outs) = {e}
  BY <1>3, <1>4, <1>5, SequencedOne
<1>9. where(f, col, p) = {Keep(f, e)}
  BY <1>5, <1>7, <1>8
<1>10. QED
  BY <1>6, <1>9 DEF Chosen

\* The fields of b at cols.
Projected(b, cols) == [i \in 1 .. Len(cols) |-> b[cols[i] + 1]]

\* select on a block within its columns does not fail.
LEMMA SelectBlockIs ==
  ASSUME NEW b \in Block, NEW cols \in Seq(0 .. Len(b) - 1)
  PROVE  selectBlock(b, cols) = {Projected(b, cols)} /\ Projected(b, cols) \in Block
<1> DEFINE e == [i \in 1 .. Len(cols) |-> b[cols[i] + 1]]
           outs == [k \in DOMAIN cols |-> get(b, cols[k])]
<1>1. Len(cols) \in Nat /\ DOMAIN cols = 1 .. Len(cols)
      /\ \A i \in 1 .. Len(cols) : cols[i] \in 0 .. Len(b) - 1
  OBVIOUS
<1>2. \A i \in 1 .. Len(cols) : get(b, cols[i]) = {b[cols[i] + 1]} /\ b[cols[i] + 1] \in Double
  BY <1>1, GetIs
<1>3. e \in Seq(Double) /\ Len(e) = Len(cols)
  BY <1>1, <1>2
<1>4. outs = [k \in 1 .. Len(e) |-> {e[k]}]
  BY <1>1, <1>2, <1>3
<1>5. Failed \notin Double
  BY FramesAssumption
<1>6. selectBlock(b, cols) = Sequenced(outs)
  BY DEF selectBlock
<1> HIDE DEF e, outs
<1>7. Sequenced(outs) = {e}
  BY <1>3, <1>4, <1>5, SequencedOne
<1>8. QED
  BY <1>3, <1>6, <1>7 DEF e, Projected, Block

\* select on the rows of a fitting frame does not fail.
LEMMA RowsProjected ==
  ASSUME NEW f, Fitting(f), NEW cols \in Seq(0 .. columns(f) - 1)
  PROVE  /\ Sequenced([k \in DOMAIN f.data |-> selectBlock(f.data[k], cols)])
              = {[k \in 1 .. rows(f) |-> Projected(f.data[k], cols)]}
         /\ [k \in 1 .. rows(f) |-> Projected(f.data[k], cols)] \in Seq(Block)
<1> DEFINE n == rows(f)
           e == [k \in 1 .. rows(f) |-> Projected(f.data[k], cols)]
           outs == [k \in DOMAIN f.data |-> selectBlock(f.data[k], cols)]
<1>1. n \in Nat /\ DOMAIN f.data = 1..n
      /\ \A k \in 1..n : f.data[k] \in Block /\ Len(f.data[k]) = columns(f)
  BY DEF Fitting, IsFrame, rows
<1>2. \A k \in 1..n : /\ selectBlock(f.data[k], cols) = {Projected(f.data[k], cols)}
                      /\ Projected(f.data[k], cols) \in Block
  BY <1>1, SelectBlockIs
<1>3. e \in Seq(Block) /\ Len(e) = n
  BY <1>1, <1>2
<1>4. outs = [k \in 1 .. Len(e) |-> {e[k]}]
  BY <1>1, <1>2, <1>3
<1>5. Failed \notin Block
  BY FramesAssumption
<1> HIDE DEF e, outs
<1>6. Sequenced(outs) = {e}
  BY <1>3, <1>4, <1>5, SequencedOne
<1>7. QED
  BY <1>3, <1>6 DEF e, outs

\* select on a fitting frame projects header and rows.
LEMMA SelectIs ==
  ASSUME NEW f, Fitting(f), NEW cols \in Seq(0 .. columns(f) - 1)
  PROVE  select(f, cols)
           = {[label |-> [k \in DOMAIN cols |-> f.label[cols[k] + 1]],
               data |-> [k \in 1 .. rows(f) |-> Projected(f.data[k], cols)]]}
<1> DEFINE D == [k \in 1 .. rows(f) |-> Projected(f.data[k], cols)]
           L == [k \in DOMAIN cols |-> f.label[cols[k] + 1]]
           outs == [k \in DOMAIN f.data |-> selectBlock(f.data[k], cols)]
<1>1. ~ \E k \in DOMAIN cols : cols[k] \notin 0 .. columns(f) - 1
  <2>1. DOMAIN cols = 1 .. Len(cols)
    OBVIOUS
  <2>2. \A k \in 1 .. Len(cols) : cols[k] \in 0 .. columns(f) - 1
    BY ElementOfSeq, Zenon
  <2>3. QED
    BY <2>1, <2>2, Zenon
<1>2. select(f, cols) = {IF d = Failed THEN Failed ELSE [label |-> L, data |-> d] :
                            d \in Sequenced(outs)}
  BY <1>1 DEF select
<1>3. Sequenced(outs) = {D} /\ D \in Seq(Block)
  BY RowsProjected
<1>4. D # Failed
  BY <1>3, FramesAssumption
<1> HIDE DEF D, L, outs
<1>5. select(f, cols) = {[label |-> L, data |-> D]}
  BY <1>2, <1>3, <1>4
<1>6. QED
  BY <1>5 DEF D, L

\* GetAverage on a fitting frame is the means of its columns.
LEMMA AverageIs ==
  ASSUME NEW f, Fitting(f)
  PROVE  GetAverage(f)
           = {[i \in 1 .. columns(f) |-> Mean([k \in 1 .. rows(f) |-> f.data[k][i]])]}
<1> DEFINE cols == [i \in 1 .. columns(f) |-> i - 1]
           D == [k \in 1 .. rows(f) |-> Projected(f.data[k], cols)]
           outs == [k \in DOMAIN f.data |-> selectBlock(f.data[k], cols)]
           avg == [i \in 1 .. columns(f) |-> Mean([k \in 1 .. rows(f) |-> f.data[k][i]])]
<1>1. columns(f) \in Nat /\ rows(f) \in Nat
  BY DEF Fitting, IsFrame, columns, rows
<1>2. cols \in Seq(0 .. columns(f) - 1) /\ Len(cols) = columns(f) /\ DOMAIN cols = 1 .. columns(f)
      /\ \A i \in 1 .. columns(f) : cols[i] + 1 = i
  BY <1>1
<1>3. GetAverage(f)
        = {IF d = Failed THEN Failed
           ELSE [i \in DOMAIN cols |-> Mean([k \in DOMAIN d |-> d[k][i]])] : d \in Sequenced(outs)}
  BY DEF GetAverage
<1> HIDE DEF cols
<1>4. Sequenced(outs) = {D} /\ D \in Seq(Block)
  BY <1>2, RowsProjected
<1>5. D # Failed
  BY <1>4, FramesAssumption
<1>6. DOMAIN D = 1 .. rows(f)
      /\ \A k \in 1 .. rows(f) : \A i \in 1 .. columns(f) : D[k][i] = f.data[k][i]
  BY <1>1, <1>2 DEF Projected
<1>7. ASSUME NEW i \in 1 .. columns(f)
      PROVE  [k \in DOMAIN D |-> D[k][i]] = [k \in 1 .. rows(f) |-> f.data[k][i]]
  BY <1>6
<1> HIDE DEF D, outs
<1>8. [i \in DOMAIN cols |-> Mean([k \in DOMAIN D |-> D[k][i]])] = avg
  <2>1. ASSUME NEW i \in 1 .. columns(f)
        PROVE  Mean([k \in DOMAIN D |-> D[k][i]]) = Mean([k \in 1 .. rows(f) |-> f.data[k][i]])
    BY <1>7
  <2>2. QED
    BY <1>2, <2>1
<1>9. GetAverage(f) = {[i \in DOMAIN cols |-> Mean([k \in DOMAIN D |-> D[k][i]])]}
  BY <1>3, <1>4, <1>5
<1>10. QED
  BY <1>8, <1>9

-----------------------------------------------------------------------------
\* A header of strings is all that Frame adds to IsFrame.
LEMMA FrameIs == \A f \in Frame : IsFrame(f) /\ f # Failed
BY FramesAssumption DEF Frame, IsFrame

\* What looks like a frame and has a header of strings is one.
LEMMA IsAFrame ==
  ASSUME NEW f, IsFrame(f), f.label \in Seq(STRING)
  PROVE  f \in Frame
BY DEF Frame, IsFrame

\* A block with a number in front.
LEMMA Prefixed ==
  \A k \in Double : \A s \in Seq(Double) :
     /\ <<k>> \o s \in Seq(Double)
     /\ Len(<<k>> \o s) = Len(s) + 1
     /\ (<<k>> \o s)[1] = k
     /\ \A i \in 1..Len(s) : (<<k>> \o s)[i + 1] = s[i]
<1>1. ASSUME NEW k \in Double, NEW s \in Seq(Double) PROVE Len(<<k>> \o s) = Len(s) + 1
  OBVIOUS
<1>2. ASSUME NEW k \in Double, NEW s \in Seq(Double), NEW i \in 1..Len(s)
      PROVE  (<<k>> \o s)[i + 1] = s[i]
  OBVIOUS
<1>3. ASSUME NEW k \in Double, NEW s \in Seq(Double)
      PROVE  <<k>> \o s \in Seq(Double) /\ (<<k>> \o s)[1] = k
  OBVIOUS
<1>4. QED
  BY <1>1, <1>2, <1>3

\* The header of a file is as wide as its widest line.
LEMMA WidthIs ==
  ASSUME NEW lines \in File
  PROVE  \E m \in {Len(lines[k]) + 1 : k \in DOMAIN lines} \cup {1} :
             m \in Nat /\ \A k \in DOMAIN lines : Len(lines[k]) + 1 <= m
<1> DEFINE W == {Len(lines[k]) + 1 : k \in DOMAIN lines} \cup {1}
           n == Len(lines)
           S == {k \in Nat : \E m \in W : m \in Nat /\ \A j \in 1..k : Len(lines[j]) + 1 <= m}
<1>1. n \in Nat /\ DOMAIN lines = 1..n /\ \A k \in 1..n : Len(lines[k]) \in Nat
  <2>1. \A k \in 1..n : lines[k] \in Block
    BY ElementOfSeq DEF File
  <2>2. QED
    BY <2>1 DEF File, Block
<1>2. 1 \in W /\ \A k \in 1..n : Len(lines[k]) + 1 \in W
  BY <1>1
<1> HIDE DEF W, n
<1>3. 0 \in S
  BY <1>2
<1>4. ASSUME NEW k \in 0 .. n - 1, k \in S PROVE k + 1 \in S
  <2>1. PICK m \in W : m \in Nat /\ \A j \in 1..k : Len(lines[j]) + 1 <= m
    BY <1>4
  <2> DEFINE l == Len(lines[k + 1]) + 1
  <2>2. l \in W /\ l \in Nat
    BY <1>1, <1>2
  <2>3. CASE l <= m
    <3>1. \A j \in 1 .. k + 1 : Len(lines[j]) + 1 <= m
      BY <1>1, <2>1, <2>3
    <3>2. QED
      BY <2>1, <3>1
  <2>4. CASE ~(l <= m)
    <3>1. ASSUME NEW j \in 1 .. k + 1 PROVE Len(lines[j]) + 1 <= l
      <4>1. CASE j = k + 1
        BY <2>2, <4>1
      <4>2. CASE j \in 1..k
        <5>1. Len(lines[j]) + 1 <= m /\ Len(lines[j]) \in Nat
          BY <1>1, <2>1, <4>2
        <5> HIDE DEF l
        <5>2. QED
          BY <2>1, <2>2, <2>4, <5>1
      <4>3. QED
        BY <4>1, <4>2
    <3> HIDE DEF l
    <3>2. QED
      BY <2>2, <3>1
  <2>5. QED
    BY <2>3, <2>4
<1>5. n \in S
  <2> HIDE DEF S
  <2>1. 0..n \subseteq S
    BY <1>1, <1>3, <1>4, UptoInduction
  <2>2. QED
    BY <1>1, <2>1
<1>6. QED
  BY <1>1, <1>5 DEF W

\* A file is loaded line by line, with the number of the line before its fields.
LEMMA LoadIs ==
  ASSUME NEW lines \in File
  PROVE  /\ IsFrame(Load(lines))
         /\ rows(Load(lines)) = Len(lines)
         /\ \A k \in 1 .. Len(lines) : /\ lines[k] \in Seq(Double)
                                      /\ Load(lines).data[k] = <<k>> \o lines[k]
<1> DEFINE W == {Len(lines[k]) + 1 : k \in DOMAIN lines} \cup {1}
           maxcols == CHOOSE m \in W : \A k \in DOMAIN lines : Len(lines[k]) + 1 <= m
           n == Len(lines)
           Name(i) == IF i = 1 THEN "index" ELSE ColumnName(i - 1)
           header == [i \in 1..maxcols |-> Name(i)]
           body == [k \in DOMAIN lines |-> <<k>> \o lines[k]]
<1>1. n \in Nat /\ DOMAIN lines = 1..n
  BY DEF File
<1>2. \A k \in 1..n : lines[k] \in Seq(Double)
  BY ElementOfSeq DEF File, Block
<1>3. \A m \in W : m \in Nat
  <2>1. \A k \in 1..n : Len(lines[k]) + 1 \in Nat
    BY <1>2
  <2>2. QED
    BY <1>1, <2>1
<1>4. \E m \in W : m \in Nat /\ \A k \in DOMAIN lines : Len(lines[k]) + 1 <= m
  BY WidthIs
<1> HIDE DEF W
<1>5. maxcols \in Nat
  <2>1. maxcols \in W
    BY <1>4
  <2> HIDE DEF maxcols
  <2>2. QED
    BY <1>3, <2>1
<1>6. Load(lines) = [label |-> header, data |-> body]
  BY DEF Load, W
<1>7. Len(header) \in Nat /\ DOMAIN header = 1 .. Len(header)
  <2> HIDE DEF maxcols, Name
  <2>1. QED
    BY <1>5
<1>8. body \in Seq(Block) /\ Len(body) = n
  <2>1. \A k \in 1..n : <<k>> \o lines[k] \in Block
    <3>1. \A k \in 1..n : k \in Double
      BY <1>1 DEF Double
    <3>2. QED
      BY <1>2, <3>1, Prefixed DEF Block
  <2>2. QED
    BY <1>1, <2>1
<1>9. \A k \in 1..n : body[k] = <<k>> \o lines[k]
  BY <1>1
<1> HIDE DEF header, body
<1>10. IsFrame(Load(lines)) /\ rows(Load(lines)) = n
  BY <1>6, <1>7, <1>8 DEF IsFrame, rows
<1>11. Load(lines).data = body
  BY <1>6
<1>12. QED
  BY <1>2, <1>9, <1>10, <1>11, Zenon

-----------------------------------------------------------------------------
(* What may come of a call on any frame: with ragged rows and wrong columns *)
(* too.                                                                     *)

\* total[k] is the sum of the first k numbers.
Totalling(s, t) ==
    /\ t \in [0 .. Len(s) -> Double]
    /\ t[0] = 0
    /\ \A k \in 1 .. Len(s) : t[k] = Plus(t[k - 1], s[k])

\* Sum computes the running totals.
LEMMA SumIs ==
  ASSUME NEW s \in Seq(Double)
  PROVE  \E t : Totalling(s, t) /\ Sum(s) = t[Len(s)]
<1> DEFINE n == Len(s)
           Body(t) == [k \in 0..n |-> IF k = 0 THEN 0 ELSE Plus(t[k - 1], s[k])]
           total == CHOOSE t : t = Body(t)
           G == [k \in 1..n |-> [v \in Double |-> Plus(v, s[k])]]
<1>1. n \in Nat /\ 0 \in Double /\ \A k \in 1..n : s[k] \in Double
  BY DEF Double
<1>2. \A v, w \in Double : Plus(v, w) \in Double
  BY DEF Plus, Double
<1>3. G \in [1..n -> [Double -> Double]]
  BY <1>1, <1>2
<1>4. PICK t \in [0..n -> Double] : t[0] = 0 /\ \A k \in 1..n : t[k] = G[k][t[k - 1]]
  <2> DEFINE zero == 0
  <2>1. zero \in Double
    BY <1>1
  <2> HIDE DEF G, n, zero
  <2>2. \E t \in [0..n -> Double] : t[0] = zero /\ \A k \in 1..n : t[k] = G[k][t[k - 1]]
    BY <1>1, <1>3, <2>1, Recursion, SMTT(30)
  <2>3. QED
    BY <2>2 DEF zero
<1>5. \A k \in 1..n : t[k - 1] \in Double /\ t[k] = Plus(t[k - 1], s[k])
  BY <1>1, <1>4
<1>6. t = Body(t)
  BY <1>1, <1>4, <1>5
<1>7. total = Body(total)
  <2> HIDE DEF Body
  <2>1. QED
    BY <1>6
<1>8. Sum(s) = total[n]
  BY DEF Sum
<1> HIDE DEF total
<1>9. total[0] = 0 /\ \A k \in 1..n : total[k] = Plus(total[k - 1], s[k])
  BY <1>1, <1>7
<1>10. \A k \in 0..n : total[k] = t[k]
  <2> DEFINE S == {k \in 0..n : total[k] = t[k]}
  <2>1. 0 \in S
    BY <1>1, <1>4, <1>9
  <2>2. ASSUME NEW k \in 0 .. n - 1, k \in S PROVE k + 1 \in S
    <3> DEFINE m == k + 1
    <3>1. m \in 1..n /\ m - 1 = k
      BY <1>1
    <3> HIDE DEF m
    <3>2. total[m] = t[m]
      BY <1>5, <1>9, <2>2, <3>1
    <3>3. m \in S
      BY <1>1, <3>1, <3>2
    <3>4. QED
      BY <3>3 DEF m
  <2>3. 0..n \subseteq S
    <3> HIDE DEF S
    <3>1. QED
      BY <1>1, <2>1, <2>2, UptoInduction
  <2>4. QED
    BY <2>3
<1>11. Sum(s) = t[n]
  BY <1>1, <1>8, <1>10
<1>12. Totalling(s, t)
  BY <1>4, <1>5 DEF Totalling
<1>13. QED
  BY <1>11, <1>12

\* A mean is a fraction or no number.
LEMMA MeanType ==
  ASSUME NEW s \in Seq(Double)
  PROVE  Mean(s) \in Ratio \cup {NaN}
<1>1. PICK t : Totalling(s, t) /\ Sum(s) = t[Len(s)]
  BY SumIs
<1>2. Sum(s) \in Double
  BY <1>1 DEF Totalling
<1>3. QED
  BY <1>2 DEF Mean, Ratio, Double

\* One summand more.
LEMMA SumOfMore ==
  ASSUME NEW s \in Seq(Double), NEW x \in Double
  PROVE  Sum(Append(s, x)) = Plus(Sum(s), x)
<1> DEFINE n == Len(s)
           r == Append(s, x)
<1>1. /\ n \in Nat /\ r \in Seq(Double) /\ Len(r) = n + 1 /\ r[n + 1] = x
      /\ \A k \in 1..n : r[k] = s[k]
  OBVIOUS
<1>2. PICK t : Totalling(s, t) /\ Sum(s) = t[n]
  BY SumIs
<1>3. PICK u : Totalling(r, u) /\ Sum(r) = u[n + 1]
  BY <1>1, SumIs
<1>4. /\ t[0] = 0 /\ \A k \in 1..n : t[k] = Plus(t[k - 1], s[k])
      /\ u[0] = 0 /\ \A k \in 1 .. n + 1 : u[k] = Plus(u[k - 1], r[k])
  BY <1>1, <1>2, <1>3 DEF Totalling
<1> HIDE DEF n, r
<1>5. \A k \in 0..n : u[k] = t[k]
  <2> DEFINE S == {k \in 0..n : u[k] = t[k]}
  <2>1. 0 \in S
    BY <1>1, <1>4
  <2>2. ASSUME NEW k \in 0 .. n - 1, k \in S PROVE k + 1 \in S
    <3> DEFINE m == k + 1
    <3>1. m \in 1..n /\ m \in 1 .. n + 1 /\ m - 1 = k /\ m \in 0..n
      BY <1>1
    <3> HIDE DEF m
    <3>2. u[m] = t[m]
      BY <1>1, <1>4, <2>2, <3>1
    <3>3. QED
      BY <3>1, <3>2 DEF m
  <2> HIDE DEF S
  <2>3. 0..n \subseteq S
    BY <1>1, <2>1, <2>2, UptoInduction
  <2>4. QED
    BY <2>3 DEF S
<1>6. u[n + 1] = Plus(u[n], x)
  BY <1>1, <1>4
<1>7. u[n] = t[n]
  BY <1>1, <1>5
<1>8. QED
  BY <1>2, <1>3, <1>6, <1>7 DEF n, r

\* The sum of no numbers.
LEMMA SumOfNothing == Sum(<<>>) = 0
<1> DEFINE s == <<>>
<1>1. s \in Seq(Double) /\ Len(s) = 0
  OBVIOUS
<1> HIDE DEF s
<1>2. PICK t : Totalling(s, t) /\ Sum(s) = t[Len(s)]
  BY <1>1, SumIs
<1>3. Sum(s) = 0
  BY <1>1, <1>2 DEF Totalling
<1>4. QED
  BY <1>3 DEF s

\* A column, of rows that are long enough.
FieldsOf(d, i) == [k \in 1 .. Len(d) |-> d[k][i]]

\* The same column of all rows, with 0 where a row is not chosen.
FieldsChosen(f, chosen, i) == [k \in 1 .. rows(f) |-> IF chosen[k] THEN f.data[k][i] ELSE 0]

\* What is kept of a column adds up to the whole column without the rest.
LEMMA SumOfKept ==
  ASSUME NEW f, IsFrame(f), NEW chosen, NEW i,
         \A k \in 1 .. rows(f) : chosen[k] => f.data[k][i] \in Int
  PROVE  /\ Sum(FieldsOf(Keep(f, chosen).data, i)) = Sum(FieldsChosen(f, chosen, i))
         /\ Sum(FieldsOf(Keep(f, chosen).data, i)) \in Int
         /\ FieldsOf(Keep(f, chosen).data, i) \in Seq(Double)
<1> DEFINE n == rows(f)
           w == FieldsChosen(f, chosen, i)
<1>1. n \in Nat
  BY DEF IsFrame, rows
<1>2. PICK t : Keeping(f, chosen, t) /\ Keep(f, chosen) = [label |-> f.label, data |-> t[n]]
  BY KeepIs
<1>3. w \in Seq(Double) /\ Len(w) = n
  <2>1. \A k \in 1..n : (IF chosen[k] THEN f.data[k][i] ELSE 0) \in Double
    BY <1>1 DEF Double
  <2>2. QED
    BY <1>1, <2>1 DEF FieldsChosen
<1>4. PICK v : Totalling(w, v) /\ Sum(w) = v[n]
  BY <1>3, SumIs
<1>5. v[0] = 0 /\ \A k \in 1..n : v[k] = Plus(v[k - 1], w[k])
  BY <1>3, <1>4 DEF Totalling
<1>6. \A k \in 1..n : w[k] = IF chosen[k] THEN f.data[k][i] ELSE 0
  BY DEF FieldsChosen
<1>7. /\ t \in [0..n -> Seq(Block)] /\ t[0] = <<>>
      /\ \A k \in 1..n : t[k] = IF chosen[k] THEN Append(t[k - 1], f.data[k]) ELSE t[k - 1]
      /\ \A k \in 1..n : f.data[k] \in Block
  BY <1>2 DEF Keeping, IsFrame, rows
<1> DEFINE S == {m \in 0..n : /\ FieldsOf(t[m], i) \in Seq(Double)
                              /\ v[m] \in Int /\ Sum(FieldsOf(t[m], i)) = v[m]}
<1> HIDE DEF w, n
<1>8. 0 \in S
  <2> DEFINE c == FieldsOf(t[0], i)
  <2>1. t[0] = <<>> /\ Len(t[0]) = 0
    BY <1>7
  <2>2. c = <<>>
    BY <2>1 DEF FieldsOf
  <2>3. c \in Seq(Double) /\ Sum(c) = 0
    BY <2>2, SumOfNothing
  <2> HIDE DEF c
  <2>4. 0 \in 0..n
    BY <1>1
  <2>5. QED
    BY <1>5, <2>3, <2>4 DEF c
<1>9. ASSUME NEW m \in 0 .. n - 1, m \in S PROVE m + 1 \in S
  <2> DEFINE p == m + 1
             c == FieldsOf(t[m], i)
  <2>1. p \in 1..n /\ p \in 0..n /\ p - 1 = m /\ m \in 0..n
    BY <1>1
  <2>2. c \in Seq(Double) /\ v[m] \in Int /\ Sum(c) = v[m]
    BY <1>9
  <2> HIDE DEF p, c
  <2>3. v[p] = Plus(v[m], w[p])
    BY <1>5, <2>1
  <2>4. CASE chosen[p]
    <3> DEFINE x == f.data[p][i]
    <3>1. t[p] = Append(t[m], f.data[p]) /\ w[p] = x /\ x \in Int /\ t[m] \in Seq(Block)
          /\ f.data[p] \in Block
      BY <1>6, <1>7, <2>1, <2>4 DEF n
    <3>2. FieldsOf(t[p], i) = Append(c, x)
      BY <3>1 DEF FieldsOf, c
    <3> HIDE DEF x
    <3>3. x \in Double
      BY <3>1 DEF Double
    <3>4. Append(c, x) \in Seq(Double)
      BY <2>2, <3>3
    <3>5. Sum(Append(c, x)) = Plus(v[m], x)
      BY <2>2, <3>3, SumOfMore
    <3>6. Plus(v[m], x) \in Int
      BY <2>2, <3>1, FramesAssumption DEF Plus
    <3>7. p \in S
      BY <2>1, <2>3, <3>1, <3>2, <3>4, <3>5, <3>6
    <3>8. QED
      BY <3>7 DEF p
  <2>5. CASE ~chosen[p]
    <3>1. t[p] = t[m] /\ w[p] = 0
      BY <1>6, <1>7, <2>1, <2>5
    <3>2. Plus(v[m], 0) = v[m]
      BY <2>2, FramesAssumption DEF Plus
    <3>3. p \in S
      BY <2>1, <2>2, <2>3, <3>1, <3>2 DEF c
    <3>4. QED
      BY <3>3 DEF p
  <2>6. QED
    BY <2>4, <2>5
<1>10. 0..n \subseteq S
  <2> HIDE DEF S
  <2>1. QED
    BY <1>1, <1>8, <1>9, UptoInduction
<1>11. n \in S
  BY <1>1, <1>10
<1>12. QED
  BY <1>2, <1>4, <1>11 DEF w

\* Some rows of f, with its header.
Part(f, g) == IsFrame(g) /\ g.label = f.label /\ (rows(f) = 0 => rows(g) = 0)

\* where returns some of the rows, with the header, or fails.
LEMMA WhereType ==
  ASSUME NEW f, IsFrame(f), NEW col, NEW p, NEW g \in where(f, col, p)
  PROVE  g = Failed \/ Part(f, g)
<1> DEFINE V(b) == {IF v = Failed THEN Failed ELSE v \in p : v \in get(b, col)}
           S == Sequenced([k \in DOMAIN f.data |-> V(f.data[k])])
<1>1. where(f, col, p) = {IF c = Failed THEN Failed ELSE Keep(f, c) : c \in S}
  BY DEF where, Filtered
<1> HIDE DEF S
<1>2. PICK c \in S : g = IF c = Failed THEN Failed ELSE Keep(f, c)
  BY <1>1
<1>3. KeptOf(f, c, Keep(f, c))
  BY Kept
<1>4. IsFrame(Keep(f, c)) /\ Keep(f, c).label = f.label
  BY <1>3 DEF KeptOf
<1>5. rows(f) = 0 => rows(Keep(f, c)) = 0
  <2>1. rows(Keep(f, c)) = Cardinality({j \in 1 .. rows(f) : c[j]})
    BY <1>3 DEF KeptOf
  <2>2. rows(f) = 0 => {j \in 1 .. rows(f) : c[j]} = {}
    OBVIOUS
  <2>3. QED
    BY <2>1, <2>2, FS_EmptySet
<1>6. QED
  BY <1>2, <1>4, <1>5 DEF Part

\* One of the outcomes of each call.
LEMMA SequencedType ==
  ASSUME NEW O, NEW outs \in Seq(SUBSET (O \cup {Failed})), NEW d \in Sequenced(outs), d # Failed
  PROVE  d \in Seq(O) /\ Len(d) = Len(outs)
<1> DEFINE Q == O \cup {Failed}
<1> HIDE DEF Q
<1>1. Sequenced(outs) = Choices(Q, outs, Len(outs))
                          \cup {o \in {Failed} : \E k \in DOMAIN outs : o \in outs[k]}
  BY SequencedIs DEF Q
<1>2. d \in Choices(Q, outs, Len(outs))
  BY <1>1
<1>3. d \in Seq(Q) /\ Len(d) = Len(outs) /\ \A i \in 1..Len(outs) : d[i] \in outs[i] \ {Failed}
  BY <1>2 DEF Choices
<1>4. \A i \in 1..Len(d) : d[i] \in O
  <2>1. \A i \in 1..Len(d) : d[i] \in Q
    BY <1>3
  <2>2. QED
    BY <1>3, <2>1 DEF Q
<1>5. QED
  BY <1>3, <1>4

\* select on any block returns a block of the length asked for, or fails.
LEMMA SelectBlockType ==
  ASSUME NEW b \in Block, NEW cols \in Seq(Int), NEW d \in selectBlock(b, cols)
  PROVE  d = Failed \/ (d \in Block /\ Len(d) = Len(cols))
<1> DEFINE outs == [k \in DOMAIN cols |-> get(b, cols[k])]
<1>1. \A k \in 1..Len(cols) : get(b, cols[k]) \in SUBSET (Double \cup {Failed})
  <2>1. ASSUME NEW index \in Int PROVE get(b, index) \in SUBSET (Double \cup {Failed})
    BY FramesAssumption DEF get, Block
  <2>2. QED
    BY <2>1
<1>2. outs \in Seq(SUBSET (Double \cup {Failed})) /\ Len(outs) = Len(cols)
  BY <1>1
<1>3. selectBlock(b, cols) = Sequenced(outs)
  BY DEF selectBlock
<1> HIDE DEF outs
<1>4. d # Failed => d \in Seq(Double) /\ Len(d) = Len(outs)
  BY <1>2, <1>3, SequencedType
<1>5. QED
  BY <1>2, <1>4 DEF Block

\* GetAverage returns a mean per column of the header, or fails.
LEMMA AverageType ==
  ASSUME NEW f, IsFrame(f), NEW avg \in GetAverage(f)
  PROVE  avg = Failed \/ avg \in [1 .. columns(f) -> Ratio \cup {NaN}]
<1> DEFINE n == columns(f)
           cols == [i \in 1..n |-> i - 1]
           outs == [k \in DOMAIN f.data |-> selectBlock(f.data[k], cols)]
           Avg(d) == [i \in DOMAIN cols |-> Mean([k \in DOMAIN d |-> d[k][i]])]
           Wide == {b \in Block : Len(b) = n}
<1>1. n \in Nat /\ cols \in Seq(Int) /\ Len(cols) = n /\ DOMAIN cols = 1..n
  BY DEF IsFrame, columns
<1>2. GetAverage(f) = {IF d = Failed THEN Failed ELSE Avg(d) : d \in Sequenced(outs)}
  BY DEF GetAverage
<1>3. ASSUME NEW k \in DOMAIN f.data, NEW b \in selectBlock(f.data[k], cols)
      PROVE  b \in Wide \cup {Failed}
  BY <1>1, <1>3, SelectBlockType DEF IsFrame
<1>4. outs \in Seq(SUBSET (Wide \cup {Failed}))
  <2> DEFINE Q == Wide \cup {Failed}
             sel(k) == selectBlock(f.data[k], cols)
  <2>1. \A k \in DOMAIN f.data : sel(k) \in SUBSET Q
    BY <1>3
  <2>2. DOMAIN f.data = 1 .. Len(f.data) /\ Len(f.data) \in Nat
    BY DEF IsFrame
  <2> HIDE DEF Q, sel
  <2>3. [k \in DOMAIN f.data |-> sel(k)] \in Seq(SUBSET Q)
    BY <2>1, <2>2
  <2>4. QED
    BY <2>3 DEF Q, sel
<1> HIDE DEF outs, cols, n
<1>5. ASSUME NEW d \in Sequenced(outs), d # Failed
      PROVE  d \in Seq(Wide)
  <2> HIDE DEF Wide
  <2>1. QED
    BY <1>4, <1>5, SequencedType
<1>6. ASSUME NEW d \in Seq(Wide) PROVE Avg(d) \in [1..n -> Ratio \cup {NaN}]
  <2>1. ASSUME NEW i \in 1..n PROVE Mean([k \in DOMAIN d |-> d[k][i]]) \in Ratio \cup {NaN}
    <3>1. \A k \in DOMAIN d : d[k][i] \in Double
      BY <2>1 DEF Block
    <3>2. [k \in DOMAIN d |-> d[k][i]] \in Seq(Double)
      BY <3>1
    <3>3. QED
      BY <3>2, MeanType
  <2>2. QED
    BY <1>1, <2>1
<1> HIDE DEF Avg, Wide
<1>7. PICK d \in Sequenced(outs) : avg = IF d = Failed THEN Failed ELSE Avg(d)
  BY <1>2
<1>8. QED
  BY <1>5, <1>6, <1>7 DEF n
-----------------------------------------------------------------------------
(* Handover: places and times.                                             *)

Location == [lng : Int, lat : Int, time : Int]

-----------------------------------------------------------------------------
(* Arithmetic.                                                             *)

\* The signs of products.
LEMMA Products ==
  /\ \A x, y \in Int : x * y \in Int
  /\ \A x \in Int : x * x \in Nat
  /\ \A x, y \in Nat : x * y \in Nat
  /\ \A x, y \in Nat \ {0} : x * y \in Nat \ {0}
  /\ \A x \in Int \ {0} : x * x \in Nat \ {0}
  OBVIOUS

\* The square of a speed is a fraction, NaN or infinite.
LEMMA SpeedType ==
  ASSUME NEW from \in Location, NEW to \in Location
  PROVE  SpeedSquared(from, to) \in Fraction \cup {NaN, Inf}
<1> DEFINE dx == to.lng - from.lng
           dy == to.lat - from.lat
           dt == to.time - from.time
<1>1. dx \in Int /\ dy \in Int /\ dt \in Int
  BY DEF Location
<1>2. SpeedSquared(from, to) = IF dt # 0 THEN [num |-> dx * dx + dy * dy, den |-> dt * dt]
                               ELSE IF 0 \in {dx, dy} THEN NaN ELSE Inf
  BY DEF SpeedSquared
<1> HIDE DEF dx, dy, dt
<1>3. dx * dx \in Nat /\ dy * dy \in Nat /\ (dt # 0 => dt * dt \in Nat \ {0})
  BY <1>1, Products
<1>4. QED
  BY <1>2, <1>3 DEF Fraction

\* The square of a distance is a fraction or NaN.
LEMMA DistanceType ==
  ASSUME NEW to \in Location, NEW lng \in Ratio \cup {NaN}, NEW lat \in Ratio \cup {NaN}
  PROVE  DistanceSquared(to, lng, lat) \in Fraction \cup {NaN}
<1>1. CASE NaN \in {lng, lat}
  BY <1>1 DEF DistanceSquared
<1>2. CASE NaN \notin {lng, lat}
  <2> DEFINE dx == lng.sum - lng.n * to.lng
             dy == lat.sum - lat.n * to.lat
  <2>1. lng \in Ratio /\ lat \in Ratio
    BY <1>2
  <2>2. lng.n \in Nat \ {0} /\ lat.n \in Int /\ lng.sum \in Int /\ lat.sum \in Int
    BY <2>1 DEF Ratio
  <2>3. lng.n * to.lng \in Int /\ lat.n * to.lat \in Int
    BY <2>2, Products DEF Location
  <2>4. dx \in Int /\ dy \in Int
    BY <2>2, <2>3
  <2>5. DistanceSquared(to, lng, lat) = [num |-> dx * dx + dy * dy, den |-> lng.n * lng.n]
    BY <1>2 DEF DistanceSquared
  <2> HIDE DEF dx, dy
  <2>6. dx * dx \in Nat /\ dy * dy \in Nat /\ lng.n * lng.n \in Nat \ {0}
    BY <2>2, <2>4, Products
  <2>7. QED
    BY <2>5, <2>6 DEF Fraction
<1>3. QED
  BY <1>1, <1>2

\* Their quotient is a fraction, NaN or infinite.
LEMMA QuotientType ==
  ASSUME NEW d \in Fraction \cup {NaN}, NEW v \in Fraction \cup {NaN, Inf}
  PROVE  Quotient(d, v) \in Fraction \cup {NaN, Inf}
<1>1. Zero \in Fraction
  BY DEF Zero, Fraction
<1>2. CASE NaN \notin {d, v} /\ v # Inf
  <2>1. /\ d.num \in Nat /\ d.den \in Nat \ {0}
        /\ v.num \in Nat /\ v.den \in Nat \ {0}
    BY <1>2 DEF Fraction
  <2>2. d.num * v.den \in Nat /\ (v.num # 0 => d.den * v.num \in Nat \ {0})
    BY <2>1, Products
  <2>3. QED
    BY <1>2, <2>2 DEF Quotient, Fraction
<1>3. QED
  BY <1>1, <1>2 DEF Quotient

-----------------------------------------------------------------------------
(* The header of a history.                                                *)

\* The columns that predict_handover asks for by name.
LEMMA ColumnsOfHistory ==
  ASSUME NEW h, h.label = HoLabels
  PROVE  /\ columns(h) = 6
         /\ getColumn(h, "longtitude") = 1
         /\ getColumn(h, "latitude") = 2
         /\ getColumn(h, "handover") = 4
         /\ getColumn(h, "cell-id") = 5
<1> DEFINE found(name) == {i \in DOMAIN h.label : h.label[i] = name}
           first(name) == CHOOSE i \in found(name) : \A j \in found(name) : i <= j
<1>1. /\ columns(h) = 6
      /\ found("longtitude") = {2} /\ found("latitude") = {3}
      /\ found("handover") = {5} /\ found("cell-id") = {6}
  BY DEF HoLabels, columns
<1>2. \A name : found(name) # {} => getColumn(h, name) = first(name) - 1
  BY DEF getColumn
<1> HIDE DEF found
<1>3. \A k \in Nat : \A name : found(name) = {k} => getColumn(h, name) = k - 1
  BY <1>2
<1>4. QED
  BY <1>1, <1>3

\* The history of a carrier is a frame with the rows of its file.
LEMMA HistoryIs ==
  ASSUME NEW files \in Seq(File), Len(files) <= 1
  PROVE  /\ HoFrame(files) \in Frame
         /\ IF files = <<>> THEN rows(HoFrame(files)) = 0
            ELSE /\ HoFrame(files).label = HoLabels
                 /\ files[1] \in File
                 /\ HoFrame(files).data = Load(files[1]).data
<1>1. HoLabels \in Seq(STRING)
  BY HandoverAssumption
<1>2. CASE files = <<>>
  BY <1>2 DEF HoFrame, EmptyFrame, Frame, rows
<1>3. CASE files # <<>>
  <2>1. files[1] \in File
    BY <1>3
  <2>2. IsFrame(Load(files[1]))
    BY <2>1, LoadIs
  <2>3. HoFrame(files) = [label |-> HoLabels, data |-> Load(files[1]).data]
    BY <1>3, <2>2 DEF HoFrame, setLabels, IsFrame
  <2>4. QED
    BY <1>1, <1>3, <2>1, <2>2, <2>3 DEF Frame, IsFrame
<1>4. QED
  BY <1>2, <1>3

-----------------------------------------------------------------------------
(* predict_handover, call by call from the last to the first.              *)

FailedRows(h, cell_df) == where(cell_df, getColumn(h, "handover"), {d \in Int : d > 1})

Predicted(h, cell, from, to, cell_df, cell_df1, avg, failed_df, fail_avg) ==
    <<Moment(to.time, Remain(from, to, avg, h), 0),
      cell,
      [num |-> rows(cell_df1), den |-> rows(cell_df)],
      Moment(to.time, Remain(from, to, fail_avg, h),
             IF FailuresKnown(failed_df) THEN -1 ELSE 1)>>

WithFailed(h, cell, from, to, cell_df, cell_df1, avg, failed_df) ==
    UNION {IF o = Failed THEN {Failed}
           ELSE {Predicted(h, cell, from, to, cell_df, cell_df1, avg, failed_df, o)} :
             o \in IF FailuresKnown(failed_df) THEN GetAverage(failed_df) ELSE {avg}}

WithAverage(h, cell, from, to, cell_df, cell_df1, avg) ==
    UNION {IF o = Failed THEN {Failed}
           ELSE WithFailed(h, cell, from, to, cell_df, cell_df1, avg, o) :
             o \in FailedRows(h, cell_df)}

WithSuccesses(h, cell, from, to, cell_df, cell_df1) ==
    IF NothingFound(cell_df) THEN {None}
    ELSE UNION {IF o = Failed THEN {Failed}
                ELSE WithAverage(h, cell, from, to, cell_df, cell_df1, o) :
                  o \in GetAverage(cell_df)}

WithRows(h, cell, from, to, cell_df) ==
    UNION {IF o = Failed THEN {Failed} ELSE WithSuccesses(h, cell, from, to, cell_df, o) :
             o \in where(cell_df, getColumn(h, "handover"), {1})}

\* Predict is the stages above, one after the other.
LEMMA Stages ==
  ASSUME NEW h, NEW cell, NEW from, NEW to
  PROVE  Predict(h, cell, from, to)
           = UNION {IF o = Failed THEN {Failed} ELSE WithRows(h, cell, from, to, o) :
                      o \in CellFrame(h, cell, to)}
  BY Zenon DEF Predict, Then, WithRows, WithSuccesses, WithAverage, WithFailed, Predicted, FailedRows

\* The rows nearby are some of the rows of the history.
LEMMA CellFrameType ==
  ASSUME NEW h \in Frame, NEW cell, NEW to, NEW g \in CellFrame(h, cell, to), g # Failed
  PROVE  Part(h, g)
<1> DEFINE lng == getColumn(h, "longtitude")
           lat == getColumn(h, "latitude")
           Second == UNION {IF o = Failed THEN {Failed} ELSE where(o, lng, Near(to.lng)) :
                              o \in SameCell(h, cell)}
<1>1. CellFrame(h, cell, to)
        = UNION {IF o = Failed THEN {Failed} ELSE where(o, lat, Near(to.lat)) : o \in Second}
  BY Zenon DEF CellFrame, Then
<1>2. \A o \in SameCell(h, cell) : o = Failed \/ Part(h, o)
  BY FrameIs, WhereType DEF SameCell
<1>3. ASSUME NEW o \in Second PROVE o = Failed \/ Part(h, o)
  <2>1. PICK f \in SameCell(h, cell) : o \in IF f = Failed THEN {Failed}
                                             ELSE where(f, lng, Near(to.lng))
    BY Zenon
  <2> HIDE DEF lng, lat, Second
  <2>2. CASE f # Failed
    <3>1. Part(h, f)
      BY <1>2, <2>2
    <3>2. o \in where(f, lng, Near(to.lng))
      BY <2>1, <2>2
    <3>3. o = Failed \/ Part(f, o)
      BY <3>1, <3>2, WhereType DEF Part
    <3>4. QED
      BY <3>1, <3>3 DEF Part
  <2>3. QED
    BY <2>1, <2>2
<1>4. PICK f \in Second : g \in IF f = Failed THEN {Failed} ELSE where(f, lat, Near(to.lat))
  <2> HIDE DEF lng, lat, Second
  <2>1. QED
    BY <1>1
<1> HIDE DEF lng, lat, Second
<1>5. f # Failed /\ g \in where(f, lat, Near(to.lat))
  BY <1>4
<1>6. Part(h, f)
  BY <1>3, <1>5
<1>7. g = Failed \/ Part(f, g)
  BY <1>5, <1>6, WhereType DEF Part
<1>8. QED
  BY <1>6, <1>7 DEF Part

\* Means of the six columns.
Averages == [1..6 -> Ratio \cup {NaN}]

\* A remaining time is a fraction, NaN or infinite.
LEMMA RemainType ==
  ASSUME NEW h, h.label = HoLabels, NEW avg \in Averages,
         NEW from \in Location, NEW to \in Location
  PROVE  Remain(from, to, avg, h) \in Fraction \cup {NaN, Inf}
<1>1. /\ avg[2] \in Ratio \cup {NaN} /\ avg[3] \in Ratio \cup {NaN}
      /\ Remain(from, to, avg, h) = Quotient(DistanceSquared(to, avg[2], avg[3]),
                                             SpeedSquared(from, to))
  BY ColumnsOfHistory DEF Averages, Remain
<1>2. DistanceSquared(to, avg[2], avg[3]) \in Fraction \cup {NaN}
  BY <1>1, DistanceType
<1>3. SpeedSquared(from, to) \in Fraction \cup {NaN, Inf}
  BY SpeedType
<1> QED
  BY <1>1, <1>2, <1>3, QuotientType

\* What is predicted is a prediction.
LEMMA PredictedType ==
  ASSUME NEW h, h.label = HoLabels, NEW cell \in Int, NEW from \in Location, NEW to \in Location,
         NEW cell_df, NEW cell_df1, rows(cell_df) \in Nat \ {0}, rows(cell_df1) \in Nat,
         NEW avg \in Averages, NEW failed_df, NEW fail_avg \in Averages
  PROVE  Predicted(h, cell, from, to, cell_df, cell_df1, avg, failed_df, fail_avg) \in Prediction
<1>1. \A a \in Averages : Remain(from, to, a, h) \in Fraction \cup {NaN, Inf}
  BY RemainType
<1>2. to.time \in Int
  BY DEF Location
<1>3. \A r \in Fraction \cup {NaN, Inf} : \A x \in {-1, 0, 1} : Moment(to.time, r, x) \in MomentType
  BY <1>2 DEF Moment, MomentType
<1>4. [num |-> rows(cell_df1), den |-> rows(cell_df)] \in Fraction
  BY DEF Fraction
<1>5. (IF FailuresKnown(failed_df) THEN -1 ELSE 1) \in {-1, 0, 1}
  OBVIOUS
<1> HIDE DEF Moment
<1>6. QED
  BY <1>1, <1>3, <1>4, <1>5 DEF Predicted, Prediction

\* The number of rows is a number.
LEMMA RowsType == \A f : IsFrame(f) => rows(f) \in Nat
  BY DEF IsFrame, rows

\* Whatever the history looks like, predict_handover ends with a prediction,
\* with none or with an exception.
LEMMA PredictType ==
  ASSUME NEW h \in Frame, rows(h) = 0 \/ h.label = HoLabels,
         NEW cell \in Int, NEW from \in Location, NEW to \in Location,
         NEW x \in Predict(h, cell, from, to)
  PROVE  x \in Prediction \cup {None, Failed}
<1> DEFINE Good == Prediction \cup {None, Failed}
<1>1. PICK g \in CellFrame(h, cell, to) :
         x \in IF g = Failed THEN {Failed} ELSE WithRows(h, cell, from, to, g)
  BY Stages, Zenon
<1> SUFFICES ASSUME g # Failed, x # Failed, x # None PROVE x \in Prediction
  BY <1>1
<1>2. Part(h, g) /\ x \in WithRows(h, cell, from, to, g)
  BY <1>1, CellFrameType
<1>3. IsFrame(g)
  BY <1>2 DEF Part
<1>4. PICK g1 \in where(g, getColumn(h, "handover"), {1}) :
         x \in IF g1 = Failed THEN {Failed} ELSE WithSuccesses(h, cell, from, to, g, g1)
  BY <1>2, Zenon DEF WithRows
<1>5. g1 # Failed /\ x \in WithSuccesses(h, cell, from, to, g, g1)
  BY <1>4
<1>6. IsFrame(g1)
  BY <1>3, <1>4, <1>5, WhereType DEF Part
<1>7. ~NothingFound(g)
  BY <1>5 DEF WithSuccesses
<1>8. rows(g) \in Nat \ {0} /\ rows(g1) \in Nat
  BY <1>3, <1>6, <1>7, RowsType DEF NothingFound
<1>9. g.label = HoLabels /\ h.label = HoLabels
  <2>1. rows(h) # 0
    BY <1>2, <1>8 DEF Part
  <2>2. QED
    BY <1>2, <2>1 DEF Part
<1>10. PICK avg \in GetAverage(g) :
          x \in IF avg = Failed THEN {Failed} ELSE WithAverage(h, cell, from, to, g, g1, avg)
  <2> HIDE DEF NothingFound, WithAverage
  <2>1. QED
    BY <1>5, <1>7, Zenon DEF WithSuccesses
<1>11. avg # Failed /\ x \in WithAverage(h, cell, from, to, g, g1, avg)
  BY <1>10
<1>12. avg \in Averages
  BY <1>3, <1>9, <1>10, <1>11, AverageType, ColumnsOfHistory DEF Averages
<1>13. PICK gf \in FailedRows(h, g) :
          x \in IF gf = Failed THEN {Failed} ELSE WithFailed(h, cell, from, to, g, g1, avg, gf)
  BY <1>11, Zenon DEF WithAverage
<1>14. gf # Failed /\ x \in WithFailed(h, cell, from, to, g, g1, avg, gf)
  BY <1>13
<1>15. IsFrame(gf) /\ gf.label = HoLabels
  BY <1>3, <1>9, <1>13, <1>14, WhereType DEF FailedRows, Part
<1>16. PICK fail_avg \in IF FailuresKnown(gf) THEN GetAverage(gf) ELSE {avg} :
          x \in IF fail_avg = Failed THEN {Failed}
                ELSE {Predicted(h, cell, from, to, g, g1, avg, gf, fail_avg)}
  BY <1>14, Zenon DEF WithFailed
<1>17. fail_avg # Failed /\ x = Predicted(h, cell, from, to, g, g1, avg, gf, fail_avg)
  BY <1>16
<1>18. fail_avg \in Averages
  BY <1>12, <1>15, <1>16, <1>17, AverageType, ColumnsOfHistory DEF Averages
<1>19. QED
  BY <1>8, <1>9, <1>12, <1>17, <1>18, PredictedType

-----------------------------------------------------------------------------
(* With five fields in every line.                                         *)

\* The rows of a history that are handovers of a cell near a place.
NearRows(cell, to) ==
    {b \in Block : /\ b[6] \in Double /\ ToInt(b[6]) = cell
                   /\ b[2] \in Near(to.lng) /\ b[3] \in Near(to.lat)}

SixColumns(h) ==
    /\ h \in Frame
    /\ rows(h) = 0 \/ h.label = HoLabels
    /\ \A k \in 1 .. rows(h) : Len(h.data[k]) = 6

\* Some rows of a history are a history.
LEMMA ChosenOfHistory ==
  ASSUME NEW h, SixColumns(h), NEW R
  PROVE  /\ SixColumns(Chosen(h, R))
         /\ Chosen(h, R).label = h.label
         /\ Chosen(h, R) # Failed
<1> DEFINE f == Chosen(h, R)
<1>1. IsFrame(h) /\ h.label \in Seq(STRING)
  BY FrameIs DEF SixColumns, Frame
<1>2. ChosenOf(h, R, f)
  BY <1>1, ChosenRows
<1> HIDE DEF f
<1>3. IsFrame(f) /\ f.label = h.label
  BY <1>2 DEF ChosenOf
<1>4. f \in Frame /\ f # Failed
  BY <1>1, <1>3, IsAFrame, FrameIs
<1>5. \A k \in 1 .. rows(f) : Len(f.data[k]) = 6 /\ rows(h) # 0
  <2>1. ASSUME NEW k \in 1 .. rows(f) PROVE Len(f.data[k]) = 6 /\ rows(h) # 0
    <3>1. PICK j \in 1 .. rows(h) : f.data[k] = h.data[j]
      BY <1>2 DEF ChosenOf
    <3>2. QED
      BY <1>1, <3>1, RowsType DEF SixColumns
  <2>2. QED
    BY <2>1
<1>6. rows(f) \in Nat
  BY <1>3, RowsType
<1>7. SixColumns(f)
  BY <1>3, <1>4, <1>5, <1>6 DEF SixColumns
<1>8. QED
  BY <1>3, <1>4, <1>7 DEF f

\* What filtering such a history by one of its columns returns.
LEMMA WhereOfHistory ==
  ASSUME NEW h, SixColumns(h), NEW name, NEW i \in {2, 3, 5, 6}, name = HoLabels[i], NEW p
  PROVE  where(h, getColumn(h, name), p) = {Chosen(h, {b \in Block : b[i] \in p})}
<1> DEFINE col == getColumn(h, name)
<1>1. IsFrame(h) /\ rows(h) \in Nat
  BY FrameIs, RowsType DEF SixColumns
<1>2. CASE rows(h) = 0
  <2>1. where(h, col, p) = {Chosen(h, {b \in Block : b[col + 1] \in p})}
    BY <1>1, <1>2, WhereIs
  <2>2. \A S : Chosen(h, S) = Keep(h, <<>>)
    BY <1>1, <1>2 DEF Chosen, IsFrame, rows
  <2>3. QED
    BY <2>1, <2>2
<1>3. CASE rows(h) # 0
  <2>1. h.label = HoLabels
    BY <1>3 DEF SixColumns
  <2>2. col = i - 1
    <3>1. /\ HoLabels[2] = "longtitude" /\ HoLabels[3] = "latitude"
          /\ HoLabels[5] = "handover" /\ HoLabels[6] = "cell-id"
      BY DEF HoLabels
    <3> HIDE DEF HoLabels
    <3>2. QED
      BY <2>1, <3>1, ColumnsOfHistory
  <2>3. \A k \in 1 .. rows(h) : col \in 0 .. Len(h.data[k]) - 1
    <3>1. \A k \in 1 .. rows(h) : Len(h.data[k]) = 6
      BY DEF SixColumns
    <3> HIDE DEF col
    <3>2. col \in 0 .. 5
      BY <2>2
    <3>3. ASSUME NEW k \in 1 .. rows(h) PROVE col \in 0 .. Len(h.data[k]) - 1
      <4>1. Len(h.data[k]) = 6
        BY <3>1
      <4>2. QED
        BY <3>2, <4>1
    <3>4. QED
      BY <3>3
  <2>4. where(h, col, p) = {Chosen(h, {b \in Block : b[col + 1] \in p})}
    BY <1>1, <2>3, WhereIs
  <2>5. col + 1 = i
    BY <2>2
  <2>6. QED
    BY <2>4, <2>5
<1>4. QED
  BY <1>2, <1>3

\* A filter on chosen rows by a column of the history.
LEMMA WhereOfChosen ==
  ASSUME NEW h, SixColumns(h), NEW R, NEW name, NEW i \in {2, 3, 5, 6}, name = HoLabels[i], NEW p
  PROVE  where(Chosen(h, R), getColumn(h, name), p)
           = {Chosen(h, R \cap {b \in Block : b[i] \in p})}
<1> DEFINE f == Chosen(h, R)
           Q == {b \in Block : b[i] \in p}
<1>1. SixColumns(f) /\ f.label = h.label
  BY ChosenOfHistory
<1>2. IsFrame(h)
  BY FrameIs DEF SixColumns
<1>3. Chosen(f, Q) = Chosen(h, R \cap Q)
  BY <1>2, ChosenTwice
<1> HIDE DEF f
<1>4. getColumn(h, name) = getColumn(f, name)
  BY <1>1 DEF getColumn
<1>5. where(f, getColumn(f, name), p) = {Chosen(f, Q)}
  BY <1>1, WhereOfHistory
<1>6. QED
  BY <1>3, <1>4, <1>5 DEF f

\* The rows nearby are chosen by cell, longitude and latitude.
LEMMA CellFrameIs ==
  ASSUME NEW h, SixColumns(h), NEW cell, NEW to
  PROVE  CellFrame(h, cell, to) = {Chosen(h, NearRows(cell, to))}
<1> DEFINE R1 == {b \in Block : b[6] \in {d \in Double : ToInt(d) = cell}}
           R2 == {b \in Block : b[2] \in Near(to.lng)}
           R3 == {b \in Block : b[3] \in Near(to.lat)}
<1>1. HoLabels[6] = "cell-id" /\ HoLabels[2] = "longtitude" /\ HoLabels[3] = "latitude"
  BY DEF HoLabels
<1>2. SameCell(h, cell) = {Chosen(h, R1)}
  BY <1>1, WhereOfHistory DEF SameCell
<1>3. where(Chosen(h, R1), getColumn(h, "longtitude"), Near(to.lng)) = {Chosen(h, R1 \cap R2)}
  BY <1>1, WhereOfChosen
<1>4. where(Chosen(h, R1 \cap R2), getColumn(h, "latitude"), Near(to.lat))
        = {Chosen(h, (R1 \cap R2) \cap R3)}
  BY <1>1, WhereOfChosen
<1>5. Chosen(h, R1) # Failed /\ Chosen(h, R1 \cap R2) # Failed
  BY ChosenOfHistory
<1>6. CellFrame(h, cell, to) = {Chosen(h, (R1 \cap R2) \cap R3)}
  <2> HIDE DEF R1, R2, R3
  <2>1. QED
    BY <1>2, <1>3, <1>4, <1>5 DEF CellFrame, Then
<1>7. (R1 \cap R2) \cap R3 = NearRows(cell, to)
  BY DEF NearRows
<1>8. QED
  BY <1>6, <1>7

\* The rows of h that are in R, counted.
Count(h, R) == Cardinality({j \in 1 .. rows(h) : h.data[j] \in R})

\* The rows with a value of p in column i.
Having(i, p) == {b \in Block : b[i] \in p}

\* The number of chosen rows.
LEMMA CountIs ==
  ASSUME NEW h, SixColumns(h), NEW R
  PROVE  Count(h, R) \in Nat /\ rows(Chosen(h, R)) = Count(h, R)
<1>1. IsFrame(h)
  BY FrameIs DEF SixColumns
<1>2. ChosenOf(h, R, Chosen(h, R))
  BY <1>1, ChosenRows
<1>3. rows(Chosen(h, R)) = Count(h, R)
  BY <1>2 DEF ChosenOf, Count
<1>4. IsFrame(Chosen(h, R))
  BY <1>2 DEF ChosenOf
<1>5. QED
  BY <1>3, <1>4, RowsType

\* The means of the rows of h that are in R.
AverageOf(h, R) == [i \in 1..6 |-> Mean(FieldsOf(Chosen(h, R).data, i))]

\* The average of chosen rows, of which there are some, does not fail.
LEMMA AverageOfChosen ==
  ASSUME NEW h, SixColumns(h), NEW R, Count(h, R) # 0
  PROVE  /\ GetAverage(Chosen(h, R)) = {AverageOf(h, R)}
         /\ AverageOf(h, R) \in Averages
         /\ AverageOf(h, R) # Failed
<1> DEFINE f == Chosen(h, R)
           avg == AverageOf(h, R)
<1>0. avg = [i \in 1..6 |-> Mean(FieldsOf(f.data, i))]
  BY DEF AverageOf
<1>1. SixColumns(f) /\ rows(f) # 0 /\ f.label = h.label
  BY CountIs, ChosenOfHistory
<1> HIDE DEF f, avg
<1>2. IsFrame(f) /\ columns(f) = 6
  BY <1>1, FrameIs, ColumnsOfHistory DEF SixColumns
<1>3. Fitting(f)
  BY <1>1, <1>2 DEF Fitting, SixColumns
<1>4. GetAverage(f) = {avg}
  <2>1. \A i : FieldsOf(f.data, i) = [k \in 1 .. rows(f) |-> f.data[k][i]]
    BY DEF FieldsOf, rows
  <2>2. GetAverage(f) = {[i \in 1..6 |-> Mean([k \in 1 .. rows(f) |-> f.data[k][i]])]}
    BY <1>2, <1>3, AverageIs
  <2>3. QED
    BY <1>0, <2>1, <2>2
<1>5. avg \in Averages
  <2>1. ASSUME NEW i \in 1..6 PROVE FieldsOf(f.data, i) \in Seq(Double)
    <3>1. \A k \in 1 .. rows(f) : f.data[k] \in Block /\ Len(f.data[k]) = 6
      BY <1>1, <1>2 DEF SixColumns, IsFrame, rows
    <3>2. \A k \in 1 .. rows(f) : f.data[k][i] \in Double
      BY <3>1 DEF Block
    <3>3. rows(f) \in Nat
      BY <1>2, RowsType
    <3>4. QED
      BY <3>2, <3>3 DEF FieldsOf, rows
  <2>2. \A i \in 1..6 : Mean(FieldsOf(f.data, i)) \in Ratio \cup {NaN}
    BY <2>1, MeanType
  <2>3. QED
    BY <1>0, <2>2 DEF Averages
<1>6. avg # Failed
  <2>1. avg \in Seq(Ratio \cup {NaN})
    BY <1>5, SeqDef DEF Averages
  <2>2. QED
    BY <2>1, FramesAssumption
<1>7. QED
  BY <1>4, <1>5, <1>6 DEF f, avg

\* The rows of h that are in R, as KeepIs chooses them.
In(h, R) == [k \in DOMAIN h.data |-> h.data[k] \in R]

\* The rows R have a number in a column.
NumbersIn(R, i) == \A b \in R : b[i] \in Int

\* In a column of numbers the mean is a number: the sum over the chosen rows and
\* their count.
LEMMA MeanOfChosen ==
  ASSUME NEW h, SixColumns(h), NEW R, Count(h, R) # 0, NEW i \in 1..6,
         NumbersIn(R, i)
  PROVE  /\ Sum(FieldsChosen(h, In(h, R), i)) \in Int
         /\ AverageOf(h, R)[i] = [sum |-> Sum(FieldsChosen(h, In(h, R), i)), n |-> Count(h, R)]
<1> DEFINE f == Chosen(h, R)
           s == FieldsOf(f.data, i)
           total == Sum(FieldsChosen(h, In(h, R), i))
<1>1. IsFrame(h) /\ f = Keep(h, In(h, R))
  BY FrameIs DEF SixColumns, Chosen, In
<1>2. \A k \in 1 .. rows(h) : In(h, R)[k] => h.data[k][i] \in Int
  <2>1. DOMAIN h.data = 1 .. rows(h)
    BY <1>1 DEF IsFrame, rows
  <2>2. \A k \in 1 .. rows(h) : In(h, R)[k] <=> h.data[k] \in R
    BY <2>1, Zenon DEF In
  <2>3. QED
    BY <2>1, <2>2 DEF NumbersIn
<1>3. Sum(s) = total /\ total \in Int /\ s \in Seq(Double)
  BY <1>1, <1>2, SumOfKept
<1>4. Len(s) = Count(h, R)
  <2>1. rows(f) = Count(h, R) /\ Count(h, R) \in Nat
    BY CountIs
  <2>2. QED
    BY <2>1 DEF FieldsOf, rows
<1>5. AverageOf(h, R)[i] = Mean(s)
  BY DEF AverageOf
<1> HIDE DEF s, total
<1>6. s # <<>> /\ total # NaN
  BY <1>3, <1>4, FramesAssumption
<1>7. Mean(s) = [sum |-> total, n |-> Count(h, R)]
  BY <1>3, <1>4, <1>6 DEF Mean
<1>8. QED
  BY <1>3, <1>5, <1>7 DEF total

\* A history with rows has the header.
LEMMA HistoryNotEmpty ==
  ASSUME NEW h, SixColumns(h), NEW R, Count(h, R) # 0
  PROVE  h.label = HoLabels
<1>1. CASE rows(h) = 0
  <2>1. {j \in 1 .. rows(h) : h.data[j] \in R} = {}
    BY <1>1
  <2>2. QED
    BY <2>1, FS_EmptySet DEF Count
<1>2. QED
  BY <1>1 DEF SixColumns

\* The times of a prediction: to a handover, and to a failed one if two are known.
HandoverTime(h, cell, from, to) ==
    Remain(from, to, AverageOf(h, NearRows(cell, to)), h)
FailureTime(h, cell, from, to) ==
    LET failed == NearRows(cell, to) \cap Having(5, {d \in Int : d > 1})
    IN  IF Count(h, failed) > 1 THEN Remain(from, to, AverageOf(h, failed), h)
        ELSE HandoverTime(h, cell, from, to)

\* predict_handover on a history of five fields a line: it does not throw.
PredictsFrom(h, cell, from, to, x) ==
    LET R == NearRows(cell, to)
        successes == Count(h, R \cap Having(5, {1}))
        failures == Count(h, R \cap Having(5, {d \in Int : d > 1}))
    IN  /\ x # Failed
        /\ Count(h, R) = 0 <=> x = None
        /\ Count(h, R) # 0 =>
             \E r1, r4 \in Fraction \cup {NaN, Inf} :
                /\ x = <<Moment(to.time, r1, 0),
                         cell,
                         [num |-> successes, den |-> Count(h, R)],
                         Moment(to.time, r4, IF failures > 1 THEN -1 ELSE 1)>>
                /\ failures < 2 => r4 = r1
                /\ r1 = HandoverTime(h, cell, from, to)
                /\ r4 = FailureTime(h, cell, from, to)

\* predict_handover comes to what PredictsFrom says.
LEMMA PredictIs ==
  ASSUME NEW h, SixColumns(h), NEW cell \in Int, NEW from \in Location, NEW to \in Location,
         NEW x \in Predict(h, cell, from, to)
  PROVE  PredictsFrom(h, cell, from, to, x)
<1> DEFINE R == NearRows(cell, to)
           cell_df == Chosen(h, R)
           R1 == R \cap Having(5, {1})
           R2 == R \cap Having(5, {d \in Int : d > 1})
           cell_df1 == Chosen(h, R1)
           failed_df == Chosen(h, R2)
<1>1. HoLabels[5] = "handover"
  BY DEF HoLabels
<1>2. CellFrame(h, cell, to) = {cell_df} /\ cell_df # Failed
  BY CellFrameIs, ChosenOfHistory
<1>3. where(cell_df, getColumn(h, "handover"), {1}) = {cell_df1} /\ cell_df1 # Failed
  BY <1>1, WhereOfChosen, ChosenOfHistory DEF Having
<1>4. FailedRows(h, cell_df) = {failed_df} /\ failed_df # Failed
  BY <1>1, WhereOfChosen, ChosenOfHistory DEF Having, FailedRows
<1>5. /\ rows(cell_df) = Count(h, R) /\ rows(cell_df1) = Count(h, R1)
      /\ rows(failed_df) = Count(h, R2)
      /\ Count(h, R) \in Nat /\ Count(h, R1) \in Nat /\ Count(h, R2) \in Nat
  BY CountIs
<1> HIDE DEF R, R1, R2, cell_df, cell_df1, failed_df
<1>6. x \in WithRows(h, cell, from, to, cell_df)
  BY <1>2, Stages
<1>7. x \in WithSuccesses(h, cell, from, to, cell_df, cell_df1)
  BY <1>3, <1>6 DEF WithRows
<1>8. CASE Count(h, R) = 0
  <2>1. x = None
    BY <1>5, <1>7, <1>8 DEF WithSuccesses, NothingFound
  <2>2. QED
    BY <1>8, <2>1, HandoverAssumption DEF PredictsFrom, R
<1>9. CASE Count(h, R) # 0
  <2> DEFINE avg == AverageOf(h, R)
             fail_avg == AverageOf(h, R2)
  <2>1. avg \in Averages /\ avg # Failed /\ GetAverage(cell_df) = {avg}
    BY <1>9, AverageOfChosen DEF cell_df
  <2> HIDE DEF avg, fail_avg
  <2>2. x \in WithAverage(h, cell, from, to, cell_df, cell_df1, avg)
    BY <1>5, <1>7, <1>9, <2>1 DEF WithSuccesses, NothingFound
  <2>3. x \in WithFailed(h, cell, from, to, cell_df, cell_df1, avg, failed_df)
    BY <1>4, <2>2 DEF WithAverage
  <2>4. PICK a \in Averages : /\ a = IF Count(h, R2) > 1 THEN fail_avg ELSE avg
                              /\ x = Predicted(h, cell, from, to, cell_df, cell_df1, avg, failed_df, a)
    <3>1. CASE Count(h, R2) > 1
      <4>1. fail_avg \in Averages /\ fail_avg # Failed /\ GetAverage(failed_df) = {fail_avg}
        BY <1>5, <3>1, AverageOfChosen DEF failed_df, fail_avg
      <4>2. x = Predicted(h, cell, from, to, cell_df, cell_df1, avg, failed_df, fail_avg)
        BY <1>5, <2>3, <3>1, <4>1 DEF WithFailed, FailuresKnown
      <4>3. QED
        BY <3>1, <4>1, <4>2
    <3>2. CASE ~(Count(h, R2) > 1)
      <4>1. x = Predicted(h, cell, from, to, cell_df, cell_df1, avg, failed_df, avg)
        BY <1>5, <2>1, <2>3, <3>2 DEF WithFailed, FailuresKnown
      <4>2. QED
        BY <2>1, <3>2, <4>1
    <3>3. QED
      BY <3>1, <3>2
  <2>5. x = Predicted(h, cell, from, to, cell_df, cell_df1, avg, failed_df, a)
    BY <2>4
  <2>6. h.label = HoLabels
    BY <1>9, HistoryNotEmpty
  <2> DEFINE r1 == Remain(from, to, avg, h)
             r4 == Remain(from, to, a, h)
  <2>7. r1 \in Fraction \cup {NaN, Inf} /\ r4 \in Fraction \cup {NaN, Inf}
    BY <2>1, <2>4, <2>6, RemainType
  <2>8. Count(h, R2) < 2 => r4 = r1
    BY <1>5, <2>4
  <2>9. x = <<Moment(to.time, r1, 0), cell, [num |-> Count(h, R1), den |-> Count(h, R)],
              Moment(to.time, r4, IF Count(h, R2) > 1 THEN -1 ELSE 1)>>
    BY <1>5, <2>5 DEF Predicted, FailuresKnown
  <2>10. x # Failed /\ x # None
    <3>1. rows(cell_df) \in Nat \ {0} /\ rows(cell_df1) \in Nat
      BY <1>5, <1>9
    <3>2. Predicted(h, cell, from, to, cell_df, cell_df1, avg, failed_df, a) \in Prediction
      BY <2>1, <2>4, <2>6, <3>1, PredictedType
    <3>3. QED
      BY <2>5, <3>2, HandoverAssumption
  <2>11. r1 = HandoverTime(h, cell, from, to) /\ r4 = FailureTime(h, cell, from, to)
    BY <2>4 DEF HandoverTime, FailureTime, avg, fail_avg, R, R2
  <2> HIDE DEF r1, r4
  <2>12. QED
    BY <1>9, <2>7, <2>8, <2>9, <2>10, <2>11 DEF PredictsFrom, R, R1, R2
<1>10. QED
  BY <1>8, <1>9

-----------------------------------------------------------------------------
(* Handovers is the same without frames.                                   *)

\* h is the history of a file of five fields a line.
HistoryOf(files, h) ==
    /\ SixColumns(h)
    /\ files = <<>> => rows(h) = 0
    /\ files # <<>> => /\ DOMAIN files[1] = 1 .. rows(h)
                       /\ \A k \in 1 .. rows(h) :
                             /\ files[1][k] \in Seq(Double) /\ Len(files[1][k]) = 5
                             /\ h.data[k] \in Block
                             /\ \A i \in 1..5 : h.data[k][i + 1] = files[1][k][i]

\* A file of five fields a line makes a history of six columns.
LEMMA FiveFieldsFit ==
  ASSUME NEW files \in Seq(File), Len(files) <= 1, FiveFields(files)
  PROVE  HistoryOf(files, HoFrame(files))
<1> DEFINE h == HoFrame(files)
<1>1. /\ h \in Frame
      /\ IF files = <<>> THEN rows(h) = 0
         ELSE h.label = HoLabels /\ files[1] \in File /\ h.data = Load(files[1]).data
  BY HistoryIs
<1> HIDE DEF h
<1>2. CASE files = <<>>
  BY <1>1, <1>2 DEF HistoryOf, SixColumns, h
<1>3. CASE files # <<>>
  <2> DEFINE lines == files[1]
  <2>1. lines \in File /\ h.label = HoLabels /\ h.data = Load(lines).data
    BY <1>1, <1>3
  <2>2. \A k \in DOMAIN lines : Len(lines[k]) = 5
    BY <1>3 DEF FiveFields
  <2> HIDE DEF lines
  <2>3. rows(h) = Len(lines) /\ DOMAIN lines = 1 .. Len(lines)
    BY <2>1, LoadIs DEF rows, File
  <2>4. ASSUME NEW k \in 1 .. Len(lines)
        PROVE  /\ lines[k] \in Seq(Double) /\ Len(lines[k]) = 5
               /\ h.data[k] \in Block /\ Len(h.data[k]) = 6
               /\ \A i \in 1..5 : h.data[k][i + 1] = lines[k][i]
    <3> DEFINE s == lines[k]
               b == h.data[k]
    <3>1. s \in Seq(Double) /\ Len(s) = 5 /\ b = <<k>> \o s
      BY <2>1, <2>2, <2>3, LoadIs
    <3>2. k \in Double
      BY <2>1 DEF Double, File
    <3> HIDE DEF s, b
    <3>3. b \in Seq(Double)
      BY <3>1, <3>2, Prefixed
    <3>4. Len(b) = Len(s) + 1
      BY <3>1, <3>2, Prefixed
    <3>5. \A i \in 1..Len(s) : b[i + 1] = s[i]
      BY <3>1, <3>2, Prefixed
    <3>6. QED
      BY <3>1, <3>3, <3>4, <3>5 DEF s, b, Block
  <2>5. SixColumns(h)
    BY <1>1, <2>1, <2>3, <2>4 DEF SixColumns
  <2>6. QED
    BY <1>3, <2>3, <2>4, <2>5 DEF HistoryOf, h, lines
<1>4. QED
  BY <1>2, <1>3

\* The handovers of the file near a place, with a fourth field in p.
HandoversIn(files, cell, to, p) == {k \in Handovers(files, cell, to) : files[1][k][4] \in p}

\* The numbers of the rows of h that are in R.
Lines(h, R) == {j \in 1 .. rows(h) : h.data[j] \in R}

\* The handovers of the file are the rows that predict_handover chooses.
LEMMA HandoverLines ==
  ASSUME NEW files, NEW h, HistoryOf(files, h),
         NEW cell \in Int, NEW to \in Location
  PROVE  /\ Handovers(files, cell, to) = Lines(h, NearRows(cell, to))
         /\ \A p : HandoversIn(files, cell, to, p) = Lines(h, NearRows(cell, to) \cap Having(5, p))
<1> DEFINE N == {j \in 1 .. rows(h) : h.data[j] \in NearRows(cell, to)}
<1>1. CASE files = <<>>
  <2>1. 1 .. rows(h) = {}
    BY <1>1 DEF HistoryOf
  <2>2. Handovers(files, cell, to) = {}
    BY <1>1 DEF Handovers
  <2>3. QED
    BY <2>1, <2>2 DEF Lines, HandoversIn
<1>2. CASE files # <<>>
  <2> DEFINE lines == files[1]
             IsNear(line) == /\ ToInt(line[5]) = cell
                             /\ line[1] \in Int /\ line[1] - to.lng \in -Reach + 1 .. Reach - 1
                             /\ line[2] \in Int /\ line[2] - to.lat \in -Reach + 1 .. Reach - 1
  <2>1. /\ DOMAIN lines = 1 .. rows(h)
        /\ \A k \in 1 .. rows(h) : /\ lines[k] \in Seq(Double) /\ Len(lines[k]) = 5
                                   /\ h.data[k] \in Block
                                   /\ \A i \in 1..5 : h.data[k][i + 1] = lines[k][i]
    BY <1>2 DEF HistoryOf
  <2>2. Handovers(files, cell, to) = {k \in 1 .. rows(h) : IsNear(lines[k])}
    BY <1>2, <2>1 DEF Handovers
  <2> HIDE DEF lines
  <2>3. ASSUME NEW k \in 1 .. rows(h)
        PROVE  /\ IsNear(lines[k]) <=> h.data[k] \in NearRows(cell, to)
               /\ h.data[k] \in Block /\ h.data[k][5] = lines[k][4]
    <3> DEFINE b == h.data[k]
               line == lines[k]
    <3>1. /\ b \in Block /\ b[2] = line[1] /\ b[3] = line[2] /\ b[5] = line[4] /\ b[6] = line[5]
          /\ line[1] \in Double /\ line[2] \in Double /\ line[5] \in Double
      BY <2>1
    <3> HIDE DEF b, line
    <3>2. \A d \in Double : \A x \in Int :
             d \in Near(x) <=> d \in Int /\ d - x \in -Reach + 1 .. Reach - 1
      BY HandoverAssumption DEF Near
    <3>3. IsNear(line) <=> b \in NearRows(cell, to)
      <4>1. to.lng \in Int /\ to.lat \in Int
        BY DEF Location
      <4>2. b \in NearRows(cell, to) <=> /\ ToInt(line[5]) = cell
                                         /\ line[1] \in Near(to.lng) /\ line[2] \in Near(to.lat)
        BY <3>1 DEF NearRows
      <4>3. QED
        BY <3>1, <3>2, <4>1, <4>2
    <3>4. QED
      BY <3>1, <3>3 DEF b, line
  <2> HIDE DEF IsNear
  <2>4. Handovers(files, cell, to) = N
    BY <2>2, <2>3
  <2>5. ASSUME NEW p
        PROVE  {j \in 1 .. rows(h) : h.data[j] \in NearRows(cell, to) \cap Having(5, p)}
                 = HandoversIn(files, cell, to, p)
    BY <2>3, <2>4 DEF HandoversIn, Having, lines
  <2>6. QED
    BY <2>4, <2>5 DEF Lines
<1>3. QED
  BY <1>1, <1>2

\* So there are as many of them.
LEMMA HandoversAre ==
  ASSUME NEW files, NEW h, HistoryOf(files, h),
         NEW cell \in Int, NEW to \in Location
  PROVE  /\ Count(h, NearRows(cell, to)) = Cardinality(Handovers(files, cell, to))
         /\ \A p : Count(h, NearRows(cell, to) \cap Having(5, p))
                     = Cardinality(HandoversIn(files, cell, to, p))
<1>1. \A R : Count(h, R) = Cardinality(Lines(h, R))
  BY DEF Count, Lines
<1>2. QED
  BY <1>1, HandoverLines

\* The number of the handovers in a file is finite, so that none of them is
\* the same as a number of 0.
LEMMA NoHandovers ==
  ASSUME NEW files, NEW h, HistoryOf(files, h), NEW cell, NEW to
  PROVE  Cardinality(Handovers(files, cell, to)) = 0 <=> Handovers(files, cell, to) = {}
<1>1. IsFrame(h) /\ rows(h) \in Nat
  BY FrameIs, RowsType DEF HistoryOf, SixColumns
<1>2. Handovers(files, cell, to) \subseteq 1 .. rows(h)
  BY DEF Handovers, HistoryOf
<1>3. IsFiniteSet(Handovers(files, cell, to))
  <2>1. IsFiniteSet(1 .. rows(h))
    BY <1>1, FS_Interval
  <2>2. QED
    BY <1>2, <2>1, FS_Subset
<1>4. QED
  BY <1>3, FS_EmptySet

-----------------------------------------------------------------------------
(* The times.                                                              *)

Squares(dx, dy) == dx * dx + dy * dy

\* remain is the square of the distance from a place to the mean of n places
\* that add up to X and Y, over the square of a speed.
IsTimeTo(from, to, X, Y, n, remain) ==
    /\ remain \in Fraction
    /\ remain.num * n * n * Squares(to.lng - from.lng, to.lat - from.lat)
         = remain.den * (to.time - from.time) * (to.time - from.time)
             * Squares(X - n * to.lng, Y - n * to.lat)

\* The two sides of IsTimeTo.
LEMMA Rearranged ==
  \A a, b, c, d \in Int : (a * (b * b)) * c * c * d = ((c * c) * d) * b * b * a
  OBVIOUS

\* The quotient of distance and speed solves IsTimeTo, if both place and time change.
LEMMA TimeIs ==
  ASSUME NEW from \in Location, NEW to \in Location, from.time # to.time,
         <<from.lng, from.lat>> # <<to.lng, to.lat>>,
         NEW X \in Int, NEW Y \in Int, NEW n \in Nat \ {0}
  PROVE  IsTimeTo(from, to, X, Y, n,
                  Quotient(DistanceSquared(to, [sum |-> X, n |-> n], [sum |-> Y, n |-> n]),
                           SpeedSquared(from, to)))
<1> DEFINE dx == to.lng - from.lng
           dy == to.lat - from.lat
           dt == to.time - from.time
           x == X - n * to.lng
           y == Y - n * to.lat
           lng == [sum |-> X, n |-> n]
           lat == [sum |-> Y, n |-> n]
           V == dx * dx + dy * dy
           D == x * x + y * y
           r == Quotient(DistanceSquared(to, lng, lat), SpeedSquared(from, to))
<1>1. /\ dx \in Int /\ dy \in Int /\ dt \in Int /\ dt # 0 /\ (dx # 0 \/ dy # 0)
      /\ n * to.lng \in Int /\ n * to.lat \in Int
  <2>1. /\ from.lng \in Int /\ from.lat \in Int /\ from.time \in Int
        /\ to.lng \in Int /\ to.lat \in Int /\ to.time \in Int
    BY DEF Location
  <2>2. dx \in Int /\ dy \in Int /\ dt \in Int /\ dt # 0 /\ (dx # 0 \/ dy # 0)
    BY <2>1
  <2>3. n * to.lng \in Int /\ n * to.lat \in Int
    BY <2>1, Products
  <2>4. QED
    BY <2>2, <2>3
<1>2. x \in Int /\ y \in Int
  BY <1>1
<1>3. NaN \notin {lng, lat}
  BY FramesAssumption DEF Ratio
<1>4. DistanceSquared(to, lng, lat) = [num |-> D, den |-> n * n]
  BY <1>3 DEF DistanceSquared
<1>5. SpeedSquared(from, to) = [num |-> V, den |-> dt * dt]
  BY <1>1 DEF SpeedSquared
<1> HIDE DEF dx, dy, dt, x, y, lng, lat
<1>6. V \in Nat \ {0}
  <2>1. dx * dx \in Nat /\ dy * dy \in Nat
    BY <1>1, Products
  <2>2. dx * dx \in Nat \ {0} \/ dy * dy \in Nat \ {0}
    BY <1>1, Products
  <2>3. QED
    BY <2>1, <2>2
<1>7. D \in Nat
  <2>1. x * x \in Nat /\ y * y \in Nat
    BY <1>2, Products
  <2>2. QED
    BY <2>1
<1> HIDE DEF V, D
<1>8. n * n \in Nat \ {0} /\ dt * dt \in Nat \ {0}
  BY <1>1, Products
<1> DEFINE d == [num |-> D, den |-> n * n]
           v == [num |-> V, den |-> dt * dt]
<1>9. d \in Fraction /\ v \in Fraction
  BY <1>6, <1>7, <1>8 DEF Fraction
<1>10. d # NaN /\ v # NaN /\ v # Inf
  BY <1>9, HandoverAssumption
<1>11. r = [num |-> D * (dt * dt), den |-> (n * n) * V]
  BY <1>4, <1>5, <1>6, <1>10 DEF Quotient
<1> HIDE DEF r
<1>12. D * (dt * dt) \in Nat /\ (n * n) * V \in Nat \ {0}
  BY <1>6, <1>7, <1>8, Products
<1>13. r \in Fraction
  BY <1>11, <1>12 DEF Fraction
<1>14. (D * (dt * dt)) * n * n * V = ((n * n) * V) * dt * dt * D
  BY <1>1, <1>6, <1>7, Rearranged
<1>15. r.num * n * n * V = r.den * dt * dt * D
  BY <1>11, <1>14
<1>16. IsTimeTo(from, to, X, Y, n, r)
  BY <1>13, <1>15 DEF IsTimeTo, Squares, V, D, dx, dy, dt, x, y
<1>17. QED
  BY <1>16 DEF r, lng, lat

\* A column of a file, added up over some of its lines.
Total(files, S, i) == Sum([k \in DOMAIN files[1] |-> IF k \in S THEN files[1][k][i] ELSE 0])

\* A total over the lines of a file is the sum over the chosen rows of its history.
LEMMA TotalIs ==
  ASSUME NEW files, NEW h, HistoryOf(files, h), files # <<>>, NEW R, NEW i \in 1..5
  PROVE  Total(files, Lines(h, R), i) = Sum(FieldsChosen(h, In(h, R), i + 1))
<1> DEFINE S == Lines(h, R)
           n == rows(h)
<1>1. /\ DOMAIN files[1] = 1..n
      /\ \A k \in 1..n : h.data[k][i + 1] = files[1][k][i]
      /\ DOMAIN h.data = 1..n
  <2>1. DOMAIN h.data = 1..n
    BY FrameIs DEF HistoryOf, SixColumns, IsFrame, rows
  <2>2. /\ DOMAIN files[1] = 1..n
        /\ \A k \in 1..n : h.data[k][i + 1] = files[1][k][i]
    BY DEF HistoryOf
  <2>3. QED
    BY <2>1, <2>2
<1>2. \A k \in 1..n : In(h, R)[k] <=> k \in S
  BY <1>1, Zenon DEF In, Lines
<1> HIDE DEF S
<1>3. [k \in DOMAIN files[1] |-> IF k \in S THEN files[1][k][i] ELSE 0]
        = FieldsChosen(h, In(h, R), i + 1)
  BY <1>1, <1>2 DEF FieldsChosen
<1>4. QED
  BY <1>3 DEF Total, S

\* The time to the mean place of the rows R of a history.
LEMMA RemainIs ==
  ASSUME NEW files, NEW h, HistoryOf(files, h), NEW R, Count(h, R) # 0,
         NumbersIn(R, 2), NumbersIn(R, 3),
         NEW from \in Location, NEW to \in Location, from.time # to.time,
         <<from.lng, from.lat>> # <<to.lng, to.lat>>
  PROVE  IsTimeTo(from, to, Total(files, Lines(h, R), 1), Total(files, Lines(h, R), 2),
                  Cardinality(Lines(h, R)), Remain(from, to, AverageOf(h, R), h))
<1> DEFINE X == Total(files, Lines(h, R), 1)
           Y == Total(files, Lines(h, R), 2)
           n == Count(h, R)
           avg == AverageOf(h, R)
<1>1. SixColumns(h) /\ n \in Nat \ {0} /\ n = Cardinality(Lines(h, R))
  BY CountIs DEF HistoryOf, Count, Lines
<1>2. h.label = HoLabels /\ files # <<>>
  <2>1. h.label = HoLabels
    BY <1>1, HistoryNotEmpty
  <2>2. CASE files = <<>>
    <3>1. Lines(h, R) = {}
      BY <2>2 DEF HistoryOf, Lines
    <3>2. QED
      BY <1>1, <3>1, FS_EmptySet
  <2>3. QED
    BY <2>1, <2>2
<1>3. X = Sum(FieldsChosen(h, In(h, R), 2)) /\ Y = Sum(FieldsChosen(h, In(h, R), 3))
  BY <1>2, TotalIs
<1>4. /\ X \in Int /\ avg[2] = [sum |-> X, n |-> n]
      /\ Y \in Int /\ avg[3] = [sum |-> Y, n |-> n]
  <2> DEFINE sum(i) == Sum(FieldsChosen(h, In(h, R), i))
  <2>1. ASSUME NEW i \in {2, 3}
        PROVE  sum(i) \in Int /\ AverageOf(h, R)[i] = [sum |-> sum(i), n |-> Count(h, R)]
    <3>1. i \in 1..6 /\ NumbersIn(R, i)
      OBVIOUS
    <3>2. QED
      BY <1>1, <3>1, MeanOfChosen
  <2> HIDE DEF sum
  <2>2. sum(2) \in Int /\ AverageOf(h, R)[2] = [sum |-> sum(2), n |-> Count(h, R)]
    BY <2>1
  <2>3. sum(3) \in Int /\ AverageOf(h, R)[3] = [sum |-> sum(3), n |-> Count(h, R)]
    BY <2>1
  <2>4. QED
    BY <1>3, <2>2, <2>3 DEF sum
<1>5. Remain(from, to, avg, h) = Quotient(DistanceSquared(to, avg[2], avg[3]),
                                          SpeedSquared(from, to))
  BY <1>2, ColumnsOfHistory DEF Remain
<1> HIDE DEF X, Y, n, avg
<1>6. IsTimeTo(from, to, X, Y, n, Remain(from, to, avg, h))
  BY <1>1, <1>4, <1>5, TimeIs
<1>7. QED
  BY <1>1, <1>6 DEF X, Y, avg

-----------------------------------------------------------------------------
\* The row that addRow() reserves is a prediction.
LEMMA ReservedIs == Reserved \in Prediction
<1>1. Zero \in Fraction
  BY DEF Zero, Fraction
<1>2. Moment(0, Zero, 0) \in MomentType
  BY <1>1 DEF Moment, MomentType
<1>3. QED
  BY <1>1, <1>2 DEF Reserved, Prediction
=============================================================================
