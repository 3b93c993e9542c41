----------------------------- MODULE MCPoolState -----------------------------
EXTENDS PoolState, TLC

PoolSymmetry == Permutations(Pools)
TaskSymmetry == Permutations(Tasks)
Symmetry == PoolSymmetry \cup TaskSymmetry
=============================================================================
