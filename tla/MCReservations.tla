--------------------------- MODULE MCReservations ---------------------------
EXTENDS Reservations, TLC

Symmetry == Permutations(Users) \cup Permutations(Seats) \cup Permutations(ReservationIds)
              \cup Permutations(Listings)
=============================================================================
