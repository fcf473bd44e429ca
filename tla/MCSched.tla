------------------------------ MODULE MCSched ------------------------------
EXTENDS Sched, TLC

Symmetry == Permutations(Workers \ {Worker0})
=============================================================================
