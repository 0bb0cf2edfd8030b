----------------------------- MODULE MCJobServer -----------------------------
(* An instance of JobServer for TLC. *)
EXTENDS JobServer
=============================================================================
