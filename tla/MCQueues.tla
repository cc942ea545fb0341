------------------------------- MODULE MCQueues -------------------------------
(***************************************************************************)
(* The queue and the pool of queues, one at a time: in a behaviour one of  *)
(* them takes all the steps.                                               *)
(*                                                                         *)
(* The queue has four calls over two IDs and one onceFree caller; the pool *)
(* two queues, four calls that name none, so that the overflow queue holds *)
(* two entries at once, and one that names the first.                      *)
(***************************************************************************)
EXTENDS Queue, QueuePool

CONSTANTS c1, c2, c3, c4, c5, i1, i2
MCCalls == {c1, c2, c3, c4, c5}
MCIds == {i1, i2}
MCIdOf == c1 :> i1 @@ c2 :> i2 @@ c3 :> i1 @@ c4 :> i1 @@ c5 :> i2
MCIndex == [c \in MCCalls |-> IF c = c5 THEN 1 ELSE 0]

VARIABLE part
MCVars == <<part, vars, queuesVars>>

MCInit == part \in {"queue", "pool"} /\ Init /\ QueuesInit /\ (part = "queue" \/ ~q.interval)
Alone == part = "queue" /\ UNCHANGED <<part, queuesVars>>
Pooled == part = "pool" /\ UNCHANGED <<part, vars>>
MCNext ==
  \/ Alone /\ Next /\ promise'[c5] = None
  \/ Pooled /\ QueuesNext

MCSpec ==
  /\ MCInit /\ [][MCNext]_MCVars
  /\ WF_MCVars(Alone /\ Wakeup)
  /\ WF_MCVars(Alone /\ SomeSettle)
  /\ WF_MCVars(Pooled /\ System)
  /\ \A i \in Queues : WF_MCVars(Pooled /\ Settles(i))
=============================================================================
