------------------------------ MODULE MCMemory ------------------------------
EXTENDS Memory, TLC

Symmetry == Permutations(Workers)
=============================================================================
