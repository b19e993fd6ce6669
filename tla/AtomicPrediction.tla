-------------------------- MODULE AtomicPrediction --------------------------
(***************************************************************************)
(* What the prediction of one carrier promises: a value that is replaced   *)
(* as a whole and read as a whole.  A read returns the newest value, so    *)
(* the reads of one thread never go back to an older one.                  *)
(***************************************************************************)
CONSTANTS
    Readers,        \* the threads that call getPrediction
    First           \* the value before any prediction

VARIABLES
    latest,         \* the newest prediction
    got             \* per reader: what its last getPrediction returned

Init ==
    /\ latest = First
    /\ got = [r \in Readers |-> First]

Publish ==
    /\ latest' # latest
    /\ UNCHANGED got

getPrediction(r) ==
    /\ got' = [got EXCEPT ![r] = latest]
    /\ UNCHANGED latest

Next == Publish \/ \E r \in Readers : getPrediction(r)

Spec == Init /\ [][Next]_<<latest, got>>
=============================================================================
