----------------------------- MODULE MCEdlHost ------------------------------
EXTENDS EdlHost, TLC

PartNames == {"layout", "a", "b", "nor"}

\* No definition tells the boards apart.
BoardSymmetry == Permutations(Boards)
=============================================================================
