---------------------------- MODULE MCAdmission ----------------------------
(***************************************************************************)
(* An instance of EmailCheck, and with it of RateLimiter, for TLC.             *)
(***************************************************************************)
EXTENDS EmailCheck, TLC

Symmetry == Permutations(Call)
=============================================================================
