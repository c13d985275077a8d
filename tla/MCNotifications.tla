-------------------------- MODULE MCNotifications ---------------------------
EXTENDS Notifications, TLC

Symmetry == Permutations(Tickets) \cup Permutations(Users)
=============================================================================
