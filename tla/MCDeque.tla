------------------------------ MODULE MCDeque ------------------------------
EXTENDS Deque, TLC

=============================================================================
