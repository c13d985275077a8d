----------------------------- MODULE MCDoorScan -----------------------------
EXTENDS DoorScan, TLC

Symmetry == Permutations(Seats) \cup Permutations(ReservationIds)
              \cup Permutations(Handlers) \cup Permutations(Scanners)

(* The bound on checkouts: one order, of one reservation or of both. *)
OneOrder == Cardinality(checkouts \cup sessions) <= 1
=============================================================================
