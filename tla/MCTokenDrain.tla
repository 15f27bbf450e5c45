---------------------------- MODULE MCTokenDrain ----------------------------
EXTENDS TokenDrain, TLC

\* Threads and cgroups are interchangeable.
Symmetry == Permutations(Threads) \cup Permutations(Cgroups)
=============================================================================
