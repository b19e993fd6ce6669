------------------------- MODULE MCDatabaseContext -------------------------
EXTENDS DatabaseContext, TLC

\* Carriers are interchangeable.
Symmetry == Permutations(Carriers)
=============================================================================
