---------------------------- MODULE MCInventory -----------------------------
EXTENDS Inventory, TLC

Symmetry == Permutations(Users) \cup Permutations(Seats) \cup Permutations(ReservationIds)
              \cup Permutations(Organizers) \cup Permutations(Listings)
=============================================================================
