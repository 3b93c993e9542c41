---------------------------- MODULE MCQueryState ----------------------------
EXTENDS QueryState

UidSymmetry == Permutations(Uids)
=============================================================================
