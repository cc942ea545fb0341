----------------------------- MODULE MCQueuePool -----------------------------
(***************************************************************************)
(* A pool of two queues with four calls that name none, so that the        *)
(* overflow queue holds two entries at once, and one that names the first. *)
(***************************************************************************)
EXTENDS QueuePool
CONSTANTS c1, c2, c3, c4, c5
MCCalls == {c1, c2, c3, c4, c5}
MCIndex == [c \in MCCalls |-> IF c = c5 THEN 1 ELSE 0]
FirstThree == {c1, c2, c3}
=============================================================================
