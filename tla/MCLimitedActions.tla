-------------------------- MODULE MCLimitedActions --------------------------
(* A small instance of LimitedActions for TLC. *)
EXTENDS LimitedActions, TLC

Symmetry == Permutations(Calls) \cup Permutations(Targets)
=============================================================================
