---------------------------- MODULE MCSubsStore ----------------------------
(***************************************************************************)
(* SubsStore for TLC: requests are alike, and only invariants are checked. *)
(***************************************************************************)
EXTENDS SubsStore, TLC

Symmetry == Permutations(Requests)
=============================================================================
