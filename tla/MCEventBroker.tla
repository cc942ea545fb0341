---------------------------- MODULE MCEventBroker ----------------------------
(***************************************************************************)
(* The bot and three users' clients, so that a claim can be stolen twice,  *)
(* three nicks, so that one can pass from hand to hand, an ordinary text   *)
(* and one that is never purged, and two lines, which may be identical.    *)
(***************************************************************************)
EXTENDS EventBroker
CONSTANTS c1, c2, c3
MCSymmetry == Permutations({c1, c2, c3}) \cup Permutations(Nicks)
=============================================================================
