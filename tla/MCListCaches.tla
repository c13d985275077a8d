---------------------------- MODULE MCListCaches ----------------------------
EXTENDS ListCaches, TLC

Symmetry == Permutations(Writers) \cup Permutations(Readers)
=============================================================================
