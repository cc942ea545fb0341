---------------------------- MODULE MCChannelModes ----------------------------
(* Two channels bridged to one room, and two changes or questions. *)
EXTENDS ChannelModes, TLC
=============================================================================
