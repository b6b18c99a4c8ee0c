---------------------------- MODULE MCBookings ----------------------------
(***************************************************************************)
(* Instances of Bookings for TLC.                                             *)
(***************************************************************************)
EXTENDS Bookings, TLC

CONSTANT RoomsInStock

MCStock == [r \in Room |-> RoomsInStock]

Symmetry == Permutations(Customer) \cup Permutations(Staff)
=============================================================================
