--------------------------- MODULE MCApplications ---------------------------
(* Instances of Applications small enough for TLC. *)
EXTENDS Applications
=============================================================================
