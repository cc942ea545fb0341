----------------------------- MODULE MCNetsplit -----------------------------
(* Two users and one channel, where the second quit of a second is a netsplit. *)
EXTENDS Netsplit
=============================================================================
