----------------------------- MODULE DirectoryFiles -----------------------------
(***************************************************************************)
(* Initialize(dir_files) of src/DatabaseContext.cc: for each carrier, in   *)
(* the order of the map, its directory file is read line by line into      *)
(* three lists of file names, separated by lines "F", and the carrier is   *)
(* created from them.  Calls follow one another, on one thread, before the *)
(* first upload.                                                           *)
(*                                                                         *)
(* A definition whose comment starts with "Bug:" is no part of the model:  *)
(* it is a mutated form of the definition after it.                        *)
(***************************************************************************)
EXTENDS Naturals, Sequences, FiniteSets

CONSTANTS
    Carriers,       \* Carrier_t, as the numbers by which std::map orders it
    FileNames,      \* the files a directory file may name
    Readable,       \* those of them that exist
    DirFiles,       \* the directory files: sequences of lines
    Missing,        \* a directory file that does not exist
    MaxCalls        \* bound on the calls of Initialize

Ignored == {"", "#"}    \* a blank line and a comment
Line == FileNames \cup Ignored \cup {"F"}

ASSUME DirectoryFilesAssumption ==
    /\ Carriers \subseteq Nat
    /\ FileNames \cap (Ignored \cup {"F"}) = {}
    /\ Readable \subseteq FileNames
    /\ DirFiles \subseteq Seq(Line)
    /\ Missing \notin DirFiles
    /\ MaxCalls \in Nat

VARIABLES
    carriers,       \* per carrier: the lists its CarrierEnv was created with, or {}
    dir_files,      \* the argument of the call, as far as it is not done
    helper,         \* the lines not read yet of the current carrier's file
    section,        \* the list being read: 1, 2, 3, or 4 after the third "F"
    lists,          \* datafiles, hofiles and bdfiles
    pc,             \* "outside", "next" carrier, "read" or "thrown"
    calls,          \* the number of calls so far
    first           \* history: per carrier, the file it was first created from

vars == <<carriers, dir_files, helper, section, lists, pc, calls, first>>

NoLists == [i \in 1..3 |-> <<>>]

Init ==
    /\ carriers = [c \in Carriers |-> {}]
    /\ dir_files = <<>>
    /\ helper = <<>>
    /\ section = 1
    /\ lists = NoLists
    /\ pc = "outside"
    /\ calls = 0
    /\ first = [c \in Carriers |-> {}]
-----------------------------------------------------------------------------
\* Initialize(files), for a map from some carriers to directory files.
Call(files) ==
    /\ pc = "outside"
    /\ calls < MaxCalls
    /\ calls' = calls + 1
    /\ dir_files' = files
    /\ pc' = "next"
    /\ UNCHANGED <<carriers, helper, section, lists, first>>

\* The carrier whose turn it is.
Current == CHOOSE c \in DOMAIN dir_files : \A d \in DOMAIN dir_files : c <= d

\* Bug: the lists of the carrier before go on.
ListsKept(l) == l

\* datafiles.clear(), hofiles.clear(), bdfiles.clear()
ListsCleared(l) == NoLists

\* The next carrier: open its directory file, with empty lists.
Open ==
    /\ pc = "next"
    /\ DOMAIN dir_files # {}
    /\ IF dir_files[Current] = Missing
       THEN /\ pc' = "thrown"
            /\ UNCHANGED <<helper, section, lists>>
       ELSE /\ pc' = "read"
            /\ helper' = dir_files[Current]
            /\ section' = 1
            /\ lists' = ListsCleared(lists)
    /\ UNCHANGED <<carriers, dir_files, calls, first>>

\* helper.next(): a blank line or a comment is skipped, an "F" ends the list.
ReadLine ==
    /\ pc = "read"
    /\ helper # <<>>
    /\ section <= 3
    /\ helper' = Tail(helper)
    /\ section' = IF Head(helper) = "F" THEN section + 1 ELSE section
    /\ lists' = IF Head(helper) \in FileNames
                THEN [lists EXCEPT ![section] = Append(@, Head(helper))]
                ELSE lists
    /\ UNCHANGED <<carriers, dir_files, pc, calls, first>>

\* The CarrierEnv constructor throws for a second handover file, and for a file
\* that it cannot open.
Throws(l) == \/ Len(l[2]) > 1
             \/ \E i \in 1..3 : \E k \in DOMAIN l[i] : l[i][k] \notin Readable

\* Bug: a second entry for the same carrier.
EmplaceBoth(old, new) == old \cup {new}

\* map::emplace leaves an existing entry alone.
Emplace(old, new) == IF old # {} THEN old ELSE {new}

\* initialize(carrier, datafiles, hofiles, bdfiles): create the carrier.
Create ==
    /\ pc = "read"
    /\ helper = <<>> \/ section > 3
    /\ IF Throws(lists)
       THEN /\ pc' = "thrown"
            /\ UNCHANGED <<carriers, dir_files, first>>
       ELSE /\ pc' = "next"
            /\ carriers' = [carriers EXCEPT ![Current] = Emplace(@, lists)]
            /\ first' = [first EXCEPT ![Current] = IF @ # {} THEN @ ELSE {dir_files[Current]}]
            /\ dir_files' = [c \in DOMAIN dir_files \ {Current} |-> dir_files[c]]
    /\ UNCHANGED <<helper, section, lists, calls>>

\* The call is over, normally or by an exception that its caller catches.
Return ==
    /\ \/ pc = "next" /\ DOMAIN dir_files = {}
       \/ pc = "thrown"
    /\ pc' = "outside"
    /\ dir_files' = <<>>
    /\ UNCHANGED <<carriers, helper, section, lists, calls, first>>

Next ==
    \/ \E S \in SUBSET Carriers : \E files \in [S -> DirFiles \cup {Missing}] : Call(files)
    \/ Open \/ ReadLine \/ Create \/ Return

Spec == Init /\ [][Next]_vars
-----------------------------------------------------------------------------
\* The variables stay in their types, and a carrier is created at most once.
TypeOK ==
    /\ carriers \in [Carriers -> SUBSET [1..3 -> Seq(FileNames)]]
    /\ \A c \in Carriers : Cardinality(carriers[c]) <= 1
    /\ DOMAIN dir_files \subseteq Carriers
    /\ dir_files \in [DOMAIN dir_files -> DirFiles \cup {Missing}]
    /\ helper \in Seq(Line)
    /\ section \in 1..4
    /\ lists \in [1..3 -> Seq(FileNames)]
    /\ pc \in {"outside", "next", "read", "thrown"}
    /\ calls \in 0..MaxCalls
    /\ first \in [Carriers -> SUBSET DirFiles]

\* How many of the first k lines of a file end a list.
Separators(file, k) == Cardinality({j \in 1..k : file[j] = "F"})

\* Where the file names of section i are: those with i - 1 lines "F" before them.
SectionLines(file, i) ==
    {k \in DOMAIN file : file[k] \in FileNames /\ Separators(file, k) = i - 1}

\* list has the lines of file at the places in S, each once and in their order.
Lists(list, file, S) ==
    \E at \in [DOMAIN list -> S] :
        /\ \A k \in DOMAIN list : list[k] = file[at[k]]
        /\ \A j, k \in DOMAIN list : j < k => at[j] < at[k]
        /\ \A n \in S : \E k \in DOMAIN list : at[k] = n

\* A carrier is made of the three sections of the directory file it was first
\* initialized with, whatever was read for other carriers, in other calls, and
\* in calls that failed; what follows a third "F" counts for nothing.
CarrierHasItsFiles ==
    \A c \in Carriers :
        /\ carriers[c] = {} <=> first[c] = {}
        /\ \A made \in carriers[c], file \in first[c], i \in 1..3 :
               Lists(made[i], file, SectionLines(file, i))
=============================================================================
