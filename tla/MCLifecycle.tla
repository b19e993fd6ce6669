---------------------------- MODULE MCLifecycle ----------------------------
EXTENDS Lifecycle, TLC

ClientSymmetry == Permutations(Clients)
=============================================================================
