------------------------------ MODULE MCKarma ------------------------------
(* Instances of Karma small enough for TLC. *)
EXTENDS Karma, TLC

CONSTANTS ann, bob, cid, m1, m2

Authors == m1 :> ann @@ m2 :> bob
=============================================================================
