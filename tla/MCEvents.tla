------------------------------ MODULE MCEvents ------------------------------
EXTENDS Events, TLC

Symmetry == Permutations(EventIds) \cup Permutations(Writers) \cup Permutations(Readers)
=============================================================================
