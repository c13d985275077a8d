------------------------------ MODULE MCBooking ------------------------------
EXTENDS Booking, TLC

Symmetry == Permutations(Users) \cup Permutations(Seats) \cup Permutations(ReservationIds)
              \cup Permutations(Handlers)
=============================================================================
