----------------------------- MODULE MCSessions -----------------------------
(* An instance of Sessions for TLC. *)
EXTENDS Sessions, TLC

Symmetry == Permutations(Session) \cup Permutations(Tab) \cup Permutations(User)
=============================================================================
