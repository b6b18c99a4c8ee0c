---------------------------- MODULE MCInventory ----------------------------
(* Instances of Inventory for TLC. *)
EXTENDS Inventory, TLC

CONSTANTS RoomsInStock, s1, s2, s3

MCStock == [r \in Room |-> RoomsInStock]
TwoLists == {{s1}, {s2, s3}}
AnyTotal == {None, 1, 2}
AnyAvailable == {None, 0, 1, 2}
Symmetry == Permutations(Customer)
=============================================================================
