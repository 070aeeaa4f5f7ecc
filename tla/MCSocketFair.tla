---------------------------- MODULE MCSocketFair ----------------------------
EXTENDS SocketFair, TLC

\* Below, inside and above what is taken.
MCLimits == {-1, 0, 1, 2, 3, 4}

MCFloor == -3

Symmetry == Permutations(Threads \ {Main}) \cup Permutations(Sockets)
=============================================================================
