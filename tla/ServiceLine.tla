----------------------------- MODULE ServiceLine -----------------------------
(***************************************************************************)
(* What a queue promises its callers, whatever it is made of: calls stand  *)
(* in one line, at most Servers of them are served at any moment, they are *)
(* taken from the head of the line only, and each one is served once.      *)
(* Queue implements it with one server, QueuePool with one per queue.      *)
(***************************************************************************)
EXTENDS Naturals, Sequences, FiniteSets

CONSTANTS Calls, Servers

VARIABLES line,      \* calls waiting, first come first
          serving,   \* calls being served
          served     \* calls that were served

lineVars == <<line, serving, served>>

LineInit == line = <<>> /\ serving = {} /\ served = {}

\* Newcomers join the line, some calls finish, the first k in line are taken.
Move(newcomers, finished, k) ==
  LET all == line \o newcomers
  IN  /\ k \in 0..Len(all)
      /\ line' = SubSeq(all, k + 1, Len(all))
      /\ finished \subseteq serving
      /\ serving' = (serving \ finished) \cup {all[i] : i \in 1..k}
      /\ Cardinality(serving') <= Servers
      /\ served' = served \cup finished

LineNext ==
  \E newcomers \in {<<>>} \cup {<<c>> : c \in Calls},
     finished \in {{}} \cup {{c} : c \in serving}, k \in 0..1 :
    /\ \A i \in DOMAIN newcomers : newcomers[i] \notin served \cup serving
    /\ Move(newcomers, finished, k)

LineSafety == LineInit /\ [][LineNext]_lineVars

\* Whoever is being served is done in the end, and then the next one is taken.
LineSpec ==
  /\ LineSafety
  /\ \A c \in Calls :
       WF_lineVars(\E k \in 0..1 : c \in serving /\ Move(<<>>, {c}, k))
  /\ WF_lineVars(Move(<<>>, {}, 1))
=============================================================================
