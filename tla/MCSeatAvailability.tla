------------------------- MODULE MCSeatAvailability -------------------------
EXTENDS SeatAvailability, TLC

Symmetry == Permutations(Readers) \cup Permutations(Handlers)
=============================================================================
