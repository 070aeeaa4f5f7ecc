---------------------------- MODULE MCForkLimits ----------------------------
EXTENDS ForkLimits, TLC

Symmetry == Permutations(Tasks \ {InitTask})
=============================================================================
