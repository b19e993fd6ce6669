--------------------------- MODULE MCRequestQueue ---------------------------
EXTENDS RequestQueue, TLC

\* The queue never looks at what it holds: its elements are interchangeable.
Symmetry == Permutations(Values)
=============================================================================
