---------------------------- MODULE MCLinkSearch ----------------------------
(* Instances of LinkSearch for TLC. *)
EXTENDS LinkSearch, TLC

Symmetry == Permutations(Search)
=============================================================================
