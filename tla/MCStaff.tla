------------------------------ MODULE MCStaff ------------------------------
(***************************************************************************)
(* An instance of StaffProfiles for TLC.                                      *)
(***************************************************************************)
EXTENDS StaffProfiles, TLC

Symmetry == Permutations(User)
=============================================================================
