----------------------------- MODULE MCSessions -----------------------------
EXTENDS Sessions, TLC

Symmetry == Permutations(Devices) \cup Permutations(Calls)
=============================================================================
