------------------------------- MODULE MCRelay -------------------------------
(* One message of a user to an IRC user he has just invited. *)
EXTENDS Relay
=============================================================================
