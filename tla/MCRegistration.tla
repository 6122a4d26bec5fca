--------------------------- MODULE MCRegistration ---------------------------
EXTENDS Registration, TLC
Symmetry == Permutations(Processes)
=============================================================================
