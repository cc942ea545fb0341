----------------------------- MODULE MCClientPool -----------------------------
(***************************************************************************)
(* One user besides the bot, one or two requests for his client, and four  *)
(* client objects: enough for a client to be lost, be replaced, and be     *)
(* lost again while a request is still on its way.                         *)
(***************************************************************************)
EXTENDS ClientPool, TLC
CONSTANTS r1, r2, r3, u1, u2
TwoAsks == r1 :> u1 @@ r2 :> u1
OneU1 == r1 :> u1

\* Connections are lost, but no attempt to connect fails and nobody is killed: what
\* may happen then, with the Scheduler not in use.
LossNext ==
  \/ \E r \in Requests : Ask(r) \/ Looked(r) \/ Stored(r)
  \/ \E c \in Clients : Welcome(c) \/ Drop(c) \/ End(c) \/ Revive(c) \/ Rejoined(c) \/ Quit(c)
  \/ Reconnect
  \/ \E n \in Nicks : LookupNick(n)
LossSpec == Init /\ [][LossNext]_vars /\ Fairness
=============================================================================
