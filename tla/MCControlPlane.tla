--------------------------- MODULE MCControlPlane ---------------------------
(* A small instance of ControlPlane for TLC: a named approver who may not   *)
(* start anything, and an administrator who is no approver of the rules of  *)
(* engagement.                                                              *)
EXTENDS ControlPlane

CONSTANTS ann, bob

Assigned == [name \in {ann, bob} |-> IF name = ann THEN "approver" ELSE "admin"]

\* One start, two sign-offs and a kill; no query.
Bounds == [start |-> 1, approve |-> 2, kill |-> 1, query |-> 0]
=============================================================================
