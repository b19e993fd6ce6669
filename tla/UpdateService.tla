---------------------------- MODULE UpdateService ----------------------------
(***************************************************************************)
(* What a running database promises its clients, without its threads, its  *)
(* queue and its locks: job ids are given out one by one, requests are     *)
(* processed one at a time in the order of their ids, a finished job id is *)
(* that of a processed request and never goes back, wait() returns at a    *)
(* moment when every request given an id by then, whoever made it, has     *)
(* been processed, and a context goes away when nothing is left to do.     *)
(***************************************************************************)
EXTENDS Naturals

CONSTANTS
    Clients         \* the threads that use the database

VARIABLES
    open,           \* is there a context
    accepted,       \* the last job id given out, in all contexts
    processed,      \* the job ids whose request has been processed
    reported,       \* the finished job id of this context
    told,           \* per client: the finished job id it was told, or 0
    returned        \* the clients that have called wait() and made no request since

vars == <<open, accepted, processed, reported, told, returned>>

\* Every request with a job id has been processed.
AllDone == processed = 1..accepted

Init ==
    /\ open = FALSE
    /\ accepted = 0
    /\ processed = {}
    /\ reported = 0
    /\ told = [c \in Clients |-> 0]
    /\ returned = {}

\* GetDatabaseContext, when there is none.
Open ==
    /\ ~open /\ AllDone
    /\ open' = TRUE
    /\ reported' = 0
    /\ told' = [c \in Clients |-> 0]
    /\ returned' = {}
    /\ UNCHANGED <<accepted, processed>>

\* A request of c is given its job id; the destructor's STOP is one too.
Accept(c) ==
    /\ open
    /\ accepted' = accepted + 1
    /\ told' = [told EXCEPT ![c] = 0]
    /\ returned' = returned \ {c}
    /\ UNCHANGED <<open, processed, reported>>

\* The next request is processed.
Process ==
    /\ open
    /\ \E j \in 1..accepted :
          /\ j \notin processed
          /\ 1 .. j - 1 \subseteq processed
          /\ processed' = processed \cup {j}
    /\ UNCHANGED <<open, accepted, reported, told, returned>>

\* A later job id is reported as finished.
Report ==
    /\ open
    /\ reported' \in processed
    /\ reported' > reported
    /\ UNCHANGED <<open, accepted, processed, told, returned>>

\* GetFinishedJobid().
Ask(c) ==
    /\ open
    /\ told' = [told EXCEPT ![c] = reported]
    /\ UNCHANGED <<open, accepted, processed, reported, returned>>

\* c calls wait() ...
Wait(c) ==
    /\ open
    /\ told' = [told EXCEPT ![c] = 0]
    /\ returned' = returned \ {c}
    /\ UNCHANGED <<open, accepted, processed, reported>>

\* ... and returns from it.
Return(c) ==
    /\ open /\ AllDone
    /\ returned' = returned \cup {c}
    /\ UNCHANGED <<open, accepted, processed, reported, told>>

\* The destructor returns.
Close ==
    /\ open /\ AllDone
    /\ open' = FALSE
    /\ UNCHANGED <<accepted, processed, reported, told, returned>>

Next ==
    \/ Open \/ Process \/ Report \/ Close
    \/ \E c \in Clients : Accept(c) \/ Ask(c) \/ Wait(c) \/ Return(c)

Spec == Init /\ [][Next]_vars
=============================================================================
