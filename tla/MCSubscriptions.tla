--------------------------- MODULE MCSubscriptions ---------------------------
(* Instances of Subscriptions small enough for TLC. *)
EXTENDS Subscriptions, TLC
=============================================================================
