----------------------------- MODULE MCServices -----------------------------
(***************************************************************************)
(* Instances of ServiceRequests for TLC.                                      *)
(***************************************************************************)
EXTENDS ServiceRequests, TLC

Symmetry == Permutations(Client) \cup Permutations(Service) \cup Permutations(Category)
              \cup Permutations(Order) \cup Permutations(Log)
=============================================================================
