-------------------------- MODULE MCBaselineStore --------------------------
(* A small instance of BaselineStore for TLC. *)
EXTENDS BaselineStore, TLC

CONSTANTS c1, c2, c3, nuclei, nikto

Symmetry == Permutations(Cycles) \cup Permutations(Tools)
=============================================================================
