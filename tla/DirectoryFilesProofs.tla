------------------------ MODULE DirectoryFilesProofs ------------------------
(***************************************************************************)
(* Proofs about DirectoryFiles, for any carriers, calls and directory      *)
(* files.  The idea: while a file is read, the lists are its three         *)
(* sections as far as it has been read, and the section being read is the  *)
(* number of separators so far; what is left unread when the carrier is    *)
(* created belongs to no section.                                          *)
(***************************************************************************)
EXTENDS DirectoryFiles, SequenceTheorems, FiniteSetTheorems, WellFoundedInduction, TLAPS

\* The file of the carrier whose turn it is, and how much of it has been read.
File == dir_files[Current]
LinesRead == Len(File) - Len(helper)

\* Section i of a file as far as its n-th line.
LinesUpto(file, i, n) == {k \in SectionLines(file, i) : k <= n}

ReadInv ==
    pc = "read" =>
        /\ Current \in DOMAIN dir_files
        /\ File \in DirFiles
        /\ LinesRead \in Nat
        /\ \A k \in DOMAIN helper : helper[k] = File[LinesRead + k]
        /\ section = 1 + Separators(File, LinesRead)
        /\ \A i \in 1..3 : Lists(lists[i], File, LinesUpto(File, i, LinesRead))

\* What has been created has been created from one file.
FilesInv ==
    /\ \A c \in Carriers : \E l, file : carriers[c] \subseteq {l} /\ first[c] \subseteq {file}
    /\ CarrierHasItsFiles

IInv == TypeOK /\ ReadInv /\ FilesInv
-----------------------------------------------------------------------------
(* Sections.                                                               *)

\* The first carrier of a map is one of its carriers.
LEMMA CurrentIs ==
  ASSUME NEW S \in SUBSET Nat, S # {}
  PROVE  (CHOOSE c \in S : \A d \in S : c <= d) \in S
<1> DEFINE R == OpToRel(<, Nat)
<1>1. IsWellFoundedOn(R, Nat)
  BY NatLessThanWellFounded
<1>2. PICK x \in S : \A y \in S : ~ (<<y, x>> \in R)
  <2> HIDE DEF R
  <2>1. QED
    BY <1>1, WFMin
<1>3. ASSUME NEW y \in S, y < x PROVE FALSE
  <2>1. <<y, x>> \in R
    BY <1>3 DEF OpToRel
  <2> HIDE DEF R
  <2>2. QED
    BY <1>2, <2>1
<1>4. x \in S /\ \A y \in S : x <= y
  BY <1>3
<1>5. QED
  BY <1>4

\* One more line counts if it is an "F".
LEMMA SeparatorsMore ==
  ASSUME NEW file, NEW n \in Nat
  PROVE  /\ Separators(file, n) \in Nat
         /\ Separators(file, n + 1) = IF file[n + 1] = "F" THEN Separators(file, n) + 1
                                      ELSE Separators(file, n)
<1> DEFINE F(k) == {j \in 1..k : file[j] = "F"}
<1>1. IsFiniteSet(1..n)
  BY FS_Interval
<1>2. F(n) \in SUBSET (1..n)
  OBVIOUS
<1>3. IsFiniteSet(F(n))
  BY <1>1, <1>2, FS_Subset
<1>4. Cardinality(F(n)) \in Nat
  BY <1>3, FS_CardinalityType
<1>5. n + 1 \notin F(n)
  OBVIOUS
<1>6. F(n + 1) = IF file[n + 1] = "F" THEN F(n) \cup {n + 1} ELSE F(n)
  OBVIOUS
<1> HIDE DEF F
<1>7. Cardinality(F(n) \cup {n + 1}) = Cardinality(F(n)) + 1
  BY <1>3, <1>5, FS_AddElement
<1>8. Separators(file, n) = Cardinality(F(n)) /\ Separators(file, n + 1) = Cardinality(F(n + 1))
  BY DEF Separators, F
<1>9. QED
  BY <1>4, <1>6, <1>7, <1>8

\* The separators before a line are those before a later one, or fewer.
LEMMA SeparatorsGrow ==
  ASSUME NEW file, NEW m \in Nat, NEW n \in Nat, m <= n
  PROVE  Separators(file, m) <= Separators(file, n)
<1> DEFINE F(k) == {j \in 1..k : file[j] = "F"}
<1>1. IsFiniteSet(1..n)
  BY FS_Interval
<1>2. F(n) \in SUBSET (1..n) /\ F(m) \in SUBSET F(n)
  OBVIOUS
<1>3. IsFiniteSet(F(n))
  BY <1>1, <1>2, FS_Subset
<1> HIDE DEF F
<1>4. Cardinality(F(m)) <= Cardinality(F(n))
  BY <1>2, <1>3, FS_Subset
<1>5. QED
  BY <1>4 DEF Separators, F

\* A list with one more line.
LEMMA ListsMore ==
  ASSUME NEW X, NEW list \in Seq(X), NEW file, NEW n \in Nat, NEW S, NEW T,
         S \subseteq 1..n, Lists(list, file, S), T = S \cup {n + 1}
  PROVE  Lists(Append(list, file[n + 1]), file, T)
<1> DEFINE more == Append(list, file[n + 1])
<1>1. PICK at \in [DOMAIN list -> S] :
         /\ \A k \in DOMAIN list : list[k] = file[at[k]]
         /\ \A j, k \in DOMAIN list : j < k => at[j] < at[k]
         /\ \A m \in S : \E k \in DOMAIN list : at[k] = m
  BY DEF Lists
<1>2. DOMAIN list = 1..Len(list) /\ Len(list) \in Nat /\ DOMAIN more = 1 .. Len(list) + 1
  OBVIOUS
<1>3. \A k \in DOMAIN list : more[k] = list[k]
  OBVIOUS
<1>4. more[Len(list) + 1] = file[n + 1]
  OBVIOUS
<1> HIDE DEF more
<1> DEFINE new == [k \in DOMAIN more |-> IF k <= Len(list) THEN at[k] ELSE n + 1]
<1>5. \A k \in DOMAIN list : k \in DOMAIN more /\ new[k] = at[k]
  BY <1>2
<1>6. Len(list) + 1 \in DOMAIN more /\ new[Len(list) + 1] = n + 1
  BY <1>2
<1>7. \A k \in DOMAIN more : k \in DOMAIN list \/ k = Len(list) + 1
  BY <1>2
<1>8. new \in [DOMAIN more -> T]
  BY <1>1, <1>2
<1> HIDE DEF new
<1>9. \A k \in DOMAIN more : more[k] = file[new[k]]
  BY <1>1, <1>3, <1>4, <1>5, <1>6, <1>7
<1>10. ASSUME NEW j \in DOMAIN more, NEW k \in DOMAIN more, j < k
       PROVE  new[j] < new[k]
  <2>1. j \in DOMAIN list
    BY <1>2, <1>10
  <2>2. at[j] \in 1..n
    BY <1>1, <2>1
  <2>3. CASE k \in DOMAIN list
    BY <1>1, <1>5, <1>10, <2>1, <2>3
  <2>4. CASE k = Len(list) + 1
    BY <1>5, <1>6, <2>1, <2>2, <2>4
  <2>5. QED
    BY <1>7, <2>3, <2>4
<1>11. ASSUME NEW m \in T
       PROVE  \E k \in DOMAIN more : new[k] = m
  BY <1>1, <1>5, <1>6
<1>12. QED
  BY <1>8, <1>9, <1>10, <1>11 DEF Lists, more

\* An empty list has the lines of an empty section.
LEMMA ListsNothing == ASSUME NEW file PROVE Lists(<<>>, file, {})
<1>1. DOMAIN <<>> = {}
  OBVIOUS
<1>2. [k \in {} |-> k] \in [DOMAIN <<>> -> {}]
  BY <1>1
<1>3. QED
  BY <1>1, <1>2 DEF Lists

\* The next line belongs to the section being read, if it is a file name, and
\* to no other.
LEMMA LinesMore ==
  ASSUME NEW file \in Seq(Line), NEW n \in Nat, n < Len(file), NEW i \in 1..3
  PROVE  LinesUpto(file, i, n + 1) =
             IF file[n + 1] \in FileNames /\ i = 1 + Separators(file, n)
             THEN LinesUpto(file, i, n) \cup {n + 1} ELSE LinesUpto(file, i, n)
<1>1. DOMAIN file = 1..Len(file) /\ n + 1 \in DOMAIN file /\ Len(file) \in Nat
  OBVIOUS
<1>2. \A k \in DOMAIN file : k <= n + 1 <=> k <= n \/ k = n + 1
  BY <1>1
<1>3. file[n + 1] \in FileNames => file[n + 1] # "F"
  BY DirectoryFilesAssumption
<1>4. file[n + 1] \in FileNames => Separators(file, n + 1) = Separators(file, n)
  BY <1>3, SeparatorsMore
<1>5. Separators(file, n) \in Nat
  BY SeparatorsMore
<1>6. n + 1 \in SectionLines(file, i) <=>
          file[n + 1] \in FileNames /\ i = 1 + Separators(file, n)
  BY <1>1, <1>4, <1>5 DEF SectionLines
<1>7. SectionLines(file, i) \subseteq DOMAIN file
  BY DEF SectionLines
<1>8. QED
  BY <1>2, <1>6, <1>7 DEF LinesUpto

\* Nothing is left of the three sections at the end of the file, or behind the
\* third separator.
LEMMA LinesAll ==
  ASSUME NEW file \in Seq(Line), NEW n \in Nat, NEW i \in 1..3,
         n = Len(file) \/ 3 <= Separators(file, n)
  PROVE  LinesUpto(file, i, n) = SectionLines(file, i)
<1>1. \A k \in SectionLines(file, i) : k \in 1..Len(file) /\ Separators(file, k) = i - 1
  BY DEF SectionLines
<1>2. ASSUME NEW k \in SectionLines(file, i), n < k, 3 <= Separators(file, n)
      PROVE  FALSE
  <2>1. k \in Nat /\ n <= k
    BY <1>1, <1>2
  <2>2. Separators(file, n) <= Separators(file, k)
    BY <2>1, SeparatorsGrow
  <2>3. Separators(file, n) \in Nat
    BY SeparatorsMore
  <2>4. QED
    BY <1>1, <1>2, <2>2, <2>3
<1>3. \A k \in SectionLines(file, i) : k <= n
  BY <1>1, <1>2
<1>4. QED
  BY <1>3 DEF LinesUpto
-----------------------------------------------------------------------------
(* The steps.                                                              *)

\* Nothing has been read or created at the start.
LEMMA Initially == Init => IInv
<1> SUFFICES ASSUME Init PROVE IInv
  OBVIOUS
<1> USE DirectoryFilesAssumption DEF Init
<1>1. DOMAIN <<>> = {}
  OBVIOUS
<1>2. NoLists \in [1..3 -> Seq(FileNames)]
  BY DEF NoLists
<1>3. Cardinality({}) = 0
  BY FS_EmptySet
<1>4. TypeOK
  BY <1>1, <1>2, <1>3 DEF TypeOK
<1>5. ReadInv
  BY DEF ReadInv
<1>6. FilesInv
  BY DEF FilesInv, CarrierHasItsFiles
<1>7. QED
  BY <1>4, <1>5, <1>6 DEF IInv

\* A call begins.
LEMMA CallStep ==
  ASSUME IInv, NEW S \in SUBSET Carriers, NEW files \in [S -> DirFiles \cup {Missing}],
         Call(files)
  PROVE  IInv'
<1> USE DEF IInv
<1>1. DOMAIN files = S
  OBVIOUS
<1>2. TypeOK'
  BY <1>1, DirectoryFilesAssumption DEF Call, TypeOK
<1>3. ReadInv'
  BY DEF Call, ReadInv
<1>4. FilesInv'
  BY DEF Call, FilesInv, CarrierHasItsFiles
<1>5. QED
  BY <1>2, <1>3, <1>4

\* A file is opened, or is missing.
LEMMA OpenStep ==
  ASSUME IInv, Open
  PROVE  IInv'
<1> USE DEF IInv
<1>1. Current \in DOMAIN dir_files
  <2>1. DOMAIN dir_files \subseteq Nat /\ DOMAIN dir_files # {}
    BY DirectoryFilesAssumption DEF TypeOK, Open
  <2>2. QED
    BY <2>1, CurrentIs DEF Current
<1>2. Current' = Current /\ File' = File
  BY DEF Open, Current, File
<1>3. FilesInv'
  BY DEF Open, FilesInv, CarrierHasItsFiles
<1>4. CASE File = Missing
  <2>1. pc' = "thrown" /\ UNCHANGED <<helper, section, lists>>
    BY <1>4 DEF Open, File
  <2>2. TypeOK'
    BY <2>1 DEF Open, TypeOK
  <2>3. ReadInv'
    BY <2>1 DEF ReadInv
  <2>4. QED
    BY <1>3, <2>2, <2>3
<1>5. CASE File # Missing
  <2>1. pc' = "read" /\ helper' = File /\ section' = 1 /\ lists' = NoLists
    BY <1>5 DEF Open, File, ListsCleared
  <2>2. File \in DirFiles
    BY <1>1, <1>5 DEF TypeOK, File
  <2>3. File \in Seq(Line)
    BY <2>2, DirectoryFilesAssumption
  <2>4. NoLists \in [1..3 -> Seq(FileNames)]
    BY DEF NoLists
  <2>5. TypeOK'
    BY <2>1, <2>3, <2>4 DEF Open, TypeOK
  <2>6. LinesRead' = 0
    BY <1>2, <2>1, <2>3 DEF LinesRead
  <2>7. Separators(File, 0) = 0
    <3>1. {j \in 1..0 : File[j] = "F"} = {}
      OBVIOUS
    <3>2. QED
      BY <3>1, FS_EmptySet DEF Separators
  <2>8. \A i \in 1..3 : Lists(NoLists[i], File, LinesUpto(File, i, 0))
    <3>1. ASSUME NEW i \in 1..3 PROVE NoLists[i] = <<>> /\ LinesUpto(File, i, 0) = {}
      BY <2>3 DEF NoLists, LinesUpto, SectionLines
    <3>2. QED
      BY <3>1, ListsNothing
  <2>9. Current' \in DOMAIN dir_files'
    BY <1>1, <1>2 DEF Open
  <2>10. ReadInv'
    BY <1>2, <2>1, <2>2, <2>3, <2>6, <2>7, <2>8, <2>9 DEF ReadInv
  <2>11. QED
    BY <1>3, <2>5, <2>10
<1>6. QED
  BY <1>4, <1>5

\* A line is read.
LEMMA ReadStep ==
  ASSUME IInv, ReadLine
  PROVE  IInv'
<1> USE DEF IInv
<1> DEFINE n == LinesRead
           line == Head(helper)
<1>1. /\ pc = "read" /\ helper # <<>> /\ section <= 3
      /\ helper' = Tail(helper)
      /\ section' = IF line = "F" THEN section + 1 ELSE section
      /\ lists' = IF line \in FileNames
                  THEN [lists EXCEPT ![section] = Append(@, line)] ELSE lists
      /\ UNCHANGED <<carriers, dir_files, pc, calls, first>>
  BY DEF ReadLine
<1>2. Current' = Current /\ File' = File
  BY <1>1 DEF Current, File
<1>3. /\ Current \in DOMAIN dir_files /\ File \in DirFiles /\ n \in Nat
      /\ \A k \in DOMAIN helper : helper[k] = File[n + k]
      /\ section = 1 + Separators(File, n)
      /\ \A i \in 1..3 : Lists(lists[i], File, LinesUpto(File, i, n))
  BY <1>1 DEF ReadInv
<1>4. helper \in Seq(Line) /\ section \in 1..3 /\ lists \in [1..3 -> Seq(FileNames)]
  BY <1>1 DEF TypeOK
<1>5. File \in Seq(Line) /\ Len(File) \in Nat
  BY <1>3, DirectoryFilesAssumption
<1>6. /\ Tail(helper) \in Seq(Line) /\ Len(Tail(helper)) = Len(helper) - 1
      /\ \A k \in DOMAIN Tail(helper) : k + 1 \in DOMAIN helper /\ Tail(helper)[k] = helper[k + 1]
      /\ 1 \in DOMAIN helper /\ line = helper[1] /\ line \in Line /\ Len(helper) \in Nat \ {0}
  BY <1>1, <1>4
<1>7. line = File[n + 1]
  BY <1>3, <1>6
<1>8. LinesRead' = n + 1
  BY <1>1, <1>2, <1>5, <1>6 DEF LinesRead
<1>9. n < Len(File)
  BY <1>5, <1>6 DEF LinesRead
<1> HIDE DEF n, line
<1>10. section' = 1 + Separators(File, n + 1)
  <2>1. /\ Separators(File, n) \in Nat
        /\ Separators(File, n + 1) = IF File[n + 1] = "F" THEN Separators(File, n) + 1
                                     ELSE Separators(File, n)
    BY <1>3, SeparatorsMore
  <2>2. QED
    BY <1>1, <1>3, <1>7, <2>1
<1>11. ASSUME NEW i \in 1..3
       PROVE  Lists(lists'[i], File, LinesUpto(File, i, n + 1))
  <2>1. Lists(lists[i], File, LinesUpto(File, i, n)) /\ lists[i] \in Seq(FileNames)
    BY <1>3, <1>4
  <2>2. CASE line \in FileNames /\ i = section
    <3>1. LinesUpto(File, i, n + 1) = LinesUpto(File, i, n) \cup {n + 1}
      BY <1>3, <1>5, <1>7, <1>9, <2>2, LinesMore
    <3>2. lists'[i] = Append(lists[i], File[n + 1])
      BY <1>1, <1>4, <1>7, <2>2
    <3>3. LinesUpto(File, i, n) \subseteq 1..n
      BY <1>3, <1>5 DEF LinesUpto, SectionLines
    <3>4. Lists(Append(lists[i], File[n + 1]), File, LinesUpto(File, i, n + 1))
      <4> HIDE DEF File
      <4>1. QED
        BY <1>3, <2>1, <3>1, <3>3, ListsMore
    <3>5. QED
      BY <3>2, <3>4
  <2>3. CASE ~ (line \in FileNames /\ i = section)
    <3>1. LinesUpto(File, i, n + 1) = LinesUpto(File, i, n)
      BY <1>3, <1>5, <1>7, <1>9, <2>3, LinesMore
    <3>2. lists'[i] = lists[i]
      BY <1>1, <1>4, <2>3
    <3>3. QED
      BY <2>1, <3>1, <3>2
  <2>4. QED
    BY <2>2, <2>3
<1>12. TypeOK'
  <2>1. lists' \in [1..3 -> Seq(FileNames)]
    <3>1. CASE line \in FileNames
      <4>1. Append(lists[section], line) \in Seq(FileNames)
        BY <1>4, <3>1
      <4>2. QED
        BY <1>1, <1>4, <3>1, <4>1
    <3>2. CASE line \notin FileNames
      BY <1>1, <1>4, <3>2
    <3>3. QED
      BY <3>1, <3>2
  <2>2. section' \in 1..4
    BY <1>1, <1>4
  <2>3. QED
    BY <1>1, <1>6, <2>1, <2>2 DEF TypeOK
<1>13. ReadInv'
  <2>1. ASSUME NEW k \in DOMAIN helper' PROVE helper'[k] = File'[LinesRead' + k]
    <3>1. k \in Nat /\ k + 1 \in DOMAIN helper /\ helper'[k] = helper[k + 1]
      BY <1>1, <1>6, <2>1
    <3>2. n + (k + 1) = n + 1 + k
      BY <1>3, <3>1
    <3>3. QED
      BY <1>2, <1>3, <1>8, <3>1, <3>2
  <2>2. Current' \in DOMAIN dir_files' /\ File' \in DirFiles /\ LinesRead' \in Nat
    BY <1>1, <1>2, <1>3, <1>8
  <2>3. QED
    BY <1>2, <1>8, <1>10, <1>11, <2>1, <2>2 DEF ReadInv
<1>14. FilesInv'
  BY <1>1 DEF FilesInv, CarrierHasItsFiles
<1>15. QED
  BY <1>12, <1>13, <1>14

\* A carrier is created, unless its constructor throws or it exists.
LEMMA CreateStep ==
  ASSUME IInv, Create
  PROVE  IInv'
<1> USE DEF IInv
<1>1. /\ pc = "read" /\ (helper = <<>> \/ section > 3)
      /\ UNCHANGED <<helper, section, lists, calls>>
  BY DEF Create
<1>2. ReadInv'
  BY DEF Create, ReadInv
<1>3. CASE Throws(lists)
  <2>1. pc' = "thrown" /\ UNCHANGED <<carriers, dir_files, first>>
    BY <1>3 DEF Create
  <2>2. TypeOK' /\ FilesInv'
    BY <1>1, <2>1 DEF TypeOK, FilesInv, CarrierHasItsFiles
  <2>3. QED
    BY <1>2, <2>2
<1>4. CASE ~Throws(lists)
  <2> DEFINE c == Current
  <2>1. /\ pc' = "next"
        /\ carriers' = [carriers EXCEPT ![c] = IF @ # {} THEN @ ELSE {lists}]
        /\ first' = [first EXCEPT ![c] = IF @ # {} THEN @ ELSE {File}]
        /\ dir_files' = [d \in DOMAIN dir_files \ {c} |-> dir_files[d]]
    BY <1>4 DEF Create, Emplace, File
  <2>2. /\ c \in DOMAIN dir_files /\ File \in DirFiles /\ LinesRead \in Nat
        /\ section = 1 + Separators(File, LinesRead)
        /\ \A i \in 1..3 : Lists(lists[i], File, LinesUpto(File, i, LinesRead))
    BY <1>1 DEF ReadInv
  <2>3. c \in Carriers /\ lists \in [1..3 -> Seq(FileNames)]
    BY <2>2 DEF TypeOK
  <2>4. File \in Seq(Line) /\ Len(File) \in Nat
    BY <2>2, DirectoryFilesAssumption
  <2>5. LinesRead = Len(File) \/ 3 <= Separators(File, LinesRead)
    <3>1. CASE helper = <<>>
      BY <2>4, <3>1 DEF LinesRead
    <3>2. CASE section > 3
      BY <2>2, <3>2, SeparatorsMore
    <3>3. QED
      BY <1>1, <3>1, <3>2
  <2>6. \A i \in 1..3 : Lists(lists[i], File, SectionLines(File, i))
    BY <2>2, <2>4, <2>5, LinesAll
  <2> HIDE DEF c
  <2>7. /\ carriers \in [Carriers -> SUBSET [1..3 -> Seq(FileNames)]]
        /\ first \in [Carriers -> SUBSET DirFiles]
    BY DEF TypeOK
  <2>8. \A d \in Carriers : /\ d # c => carriers'[d] = carriers[d] /\ first'[d] = first[d]
                            /\ carriers[d] = {} <=> first[d] = {}
    BY <2>1, <2>7 DEF FilesInv, CarrierHasItsFiles
  <2>9. /\ carriers'[c] = IF carriers[c] # {} THEN carriers[c] ELSE {lists}
        /\ first'[c] = IF carriers[c] # {} THEN first[c] ELSE {File}
    BY <2>1, <2>3, <2>7, <2>8
  <2>10. TypeOK'
    <3>1. Cardinality({lists}) = 1
      BY FS_Singleton
    <3>2. \A d \in Carriers : Cardinality(carriers'[d]) <= 1
      <4>1. ASSUME NEW d \in Carriers PROVE carriers'[d] = carriers[d] \/ carriers'[d] = {lists}
        BY <2>8, <2>9
      <4>2. \A d \in Carriers : Cardinality(carriers[d]) <= 1
        BY DEF TypeOK
      <4>3. QED
        BY <3>1, <4>1, <4>2
    <3>3. DOMAIN dir_files' \subseteq Carriers
      BY <2>1 DEF TypeOK
    <3>4. dir_files' \in [DOMAIN dir_files' -> DirFiles \cup {Missing}]
      BY <2>1 DEF TypeOK
    <3>5. carriers' \in [Carriers -> SUBSET [1..3 -> Seq(FileNames)]]
      BY <2>1, <2>3, <2>7
    <3>6. first' \in [Carriers -> SUBSET DirFiles]
      BY <2>1, <2>2, <2>7
    <3>7. QED
      BY <1>1, <2>1, <3>2, <3>3, <3>4, <3>5, <3>6 DEF TypeOK
  <2>11. FilesInv'
    <3>1. ASSUME NEW d \in Carriers
          PROVE  \E l, file : carriers'[d] \subseteq {l} /\ first'[d] \subseteq {file}
      BY <2>8, <2>9 DEF FilesInv
    <3>2. ASSUME NEW d \in Carriers
          PROVE  /\ carriers'[d] = {} <=> first'[d] = {}
                 /\ \A made \in carriers'[d], file \in first'[d], i \in 1..3 :
                        Lists(made[i], file, SectionLines(file, i))
      <4>1. CASE d = c /\ carriers[c] = {}
        BY <2>6, <2>9, <4>1
      <4>2. CASE ~ (d = c /\ carriers[c] = {})
        <5>1. carriers'[d] = carriers[d] /\ first'[d] = first[d]
          BY <2>8, <2>9, <4>2
        <5>2. QED
          BY <5>1 DEF FilesInv, CarrierHasItsFiles
      <4>3. QED
        BY <4>1, <4>2
    <3>3. QED
      BY <3>1, <3>2 DEF FilesInv, CarrierHasItsFiles
  <2>12. QED
    BY <1>2, <2>10, <2>11
<1>5. QED
  BY <1>3, <1>4

\* A call returns.
LEMMA ReturnStep ==
  ASSUME IInv, Return
  PROVE  IInv'
<1> USE DEF IInv
<1>1. pc' = "outside" /\ dir_files' = <<>>
      /\ UNCHANGED <<carriers, helper, section, lists, calls, first>>
  BY DEF Return
<1>2. DOMAIN <<>> = {} /\ <<>> \in [{} -> DirFiles \cup {Missing}]
  OBVIOUS
<1>3. TypeOK'
  BY <1>1, <1>2 DEF TypeOK
<1>4. ReadInv'
  BY <1>1 DEF ReadInv
<1>5. FilesInv'
  BY <1>1 DEF FilesInv, CarrierHasItsFiles
<1>6. QED
  BY <1>3, <1>4, <1>5

\* The inductive invariant: what has been read of the current file is in its
\* lists, and the carriers that exist have the files they were created from.
THEOREM Invariance == Spec => []IInv
<1>1. IInv /\ [Next]_vars => IInv'
  <2> SUFFICES ASSUME IInv, [Next]_vars PROVE IInv'
    OBVIOUS
  <2>1. CASE UNCHANGED vars
    BY <2>1 DEF vars, IInv, TypeOK, ReadInv, FilesInv, CarrierHasItsFiles, Current, File,
       LinesRead
  <2>2. QED
    BY <2>1, CallStep, OpenStep, ReadStep, CreateStep, ReturnStep DEF Next
<1>2. QED
  BY <1>1, Initially, PTL DEF Spec

\* Carriers, lists and the state of the reading loop keep their types, and a
\* carrier is created at most once.
THEOREM TypeCorrect == Spec => []TypeOK
<1>1. IInv => TypeOK
  BY DEF IInv
<1>2. QED
  BY <1>1, Invariance, PTL

\* Whatever was read for other carriers, in other calls and in calls that failed,
\* a carrier is made of the sections of the file it was first initialized with.
THEOREM EachHasItsFiles == Spec => []CarrierHasItsFiles
<1>1. IInv => CarrierHasItsFiles
  BY DEF IInv, FilesInv
<1>2. QED
  BY <1>1, Invariance, PTL
=============================================================================
