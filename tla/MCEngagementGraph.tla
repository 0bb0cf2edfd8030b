------------------------- MODULE MCEngagementGraph -------------------------
(* Instances of EngagementGraph for TLC.                                   *)
EXTENDS EngagementGraph, TLC

Symmetry == Permutations(Drivers) \cup Permutations(Items) \cup Permutations(Requests)
=============================================================================
