------------------------------ MODULE Netsplit ------------------------------
(***************************************************************************)
(* How the members of Matrix rooms follow those of IRC channels, and what  *)
(* becomes of it in a netsplit: src/src/bridge/QuitDebouncer.ts with its   *)
(* callers in src/src/irc/IrcEventBroker.ts.  Quits that come too fast are *)
(* not bridged but remembered; the first of those users who rejoins a      *)
(* channel starts a timer, and when it expires the users of that channel   *)
(* who are still remembered leave its room, one after the other.           *)
(*                                                                         *)
(* Everybody here is a real IRC user and every channel has one room.       *)
(***************************************************************************)
EXTENDS Naturals, Sequences, SequencesExt

CONSTANTS Nicks, Channels, None,
          QuitsPerSecond,  \* a higher rate of quits is a netsplit
          MaxRequests,     \* bound: requests in progress for a user and a room
          MaxBatches       \* bound: calls of handleDebouncedQuit in progress

ASSUME NetsplitAssumption ==
  /\ None \notin Nicks \cup Channels /\ QuitsPerSecond \in Nat
  /\ MaxRequests \in Nat /\ MaxBatches \in Nat

VARIABLES on,          \* who is in a channel
          recent,      \* quits in the last second
          splitUsers,  \* whose quit from a channel was not bridged
          timeouts,    \* channels that will be looked after (existingTimeouts)
          batches,     \* the calls of handleDebouncedQuit
          requests,    \* joins and leaves under way, for a channel and a user
          shown,       \* who is in a channel's room
          unnoticed    \* history: who came back while a quit of theirs was kept, and
                       \* has not been asked to join the room since

debouncer == <<recent, splitUsers, timeouts>>
vars == <<on, debouncer, batches, requests, shown, unnoticed>>

Ids == 1..MaxBatches
NoBatch == [chan |-> None, nicks |-> {}, current |-> None]

Init ==
  /\ on \in [Channels -> SUBSET Nicks]
  /\ recent = 0
  /\ splitUsers = [c \in Channels |-> {}]
  /\ timeouts = {}
  /\ batches = [i \in Ids |-> NoBatch]
  /\ requests = [c \in Channels |-> [n \in Nicks |-> <<>>]]
  /\ shown = on
  /\ unnoticed = [c \in Channels |-> {}]
------------------------------------------------------------------------------
\* IrcHandler.onJoin and onPart end in the MembershipQueue, which keeps the order
\* of the requests for a room; batch is the call that waits for it, 0 for none.
Ask(what, batch) == [what |-> what, batch |-> batch]
May(c, n) == Len(requests[c][n]) < MaxRequests

\* The channels a user is in, for the reason of a request for each of them.
In(n) == {c \in Channels : n \in on[c]}

\* Users of a channel whose quit was taken out of splitUsers to be bridged.
Kept(c) == UNION {batches[i].nicks : i \in {j \in Ids : batches[j].chan = c}}

\* History: some users ask to join, some of them while a quit of theirs was kept.
Overlooked(users, asking, kept) == (users \ asking) \cup kept

\* debounceQuit: quits beyond the rate are not bridged.
SplitOccurs == recent + 1 > QuitsPerSecond

\* Quits beyond QuitsPerSecond + 1 make no difference.
Counted == IF recent > QuitsPerSecond THEN recent ELSE recent + 1

Quit(n) ==
  /\ In(n) # {} /\ \A c \in In(n) : May(c, n)
  /\ on' = [c \in Channels |-> on[c] \ {n}]
  /\ recent' = Counted
  /\ IF SplitOccurs
     THEN /\ splitUsers' = [c \in Channels |->
                              IF c \in In(n) THEN splitUsers[c] \cup {n} ELSE splitUsers[c]]
          /\ UNCHANGED requests
     ELSE /\ requests' = [c \in Channels |->
                            IF c \in In(n)
                            THEN [requests[c] EXCEPT ![n] = Append(@, Ask("leave", 0))]
                            ELSE requests[c]]
          /\ UNCHANGED splitUsers
  /\ UNCHANGED <<timeouts, batches, shown, unnoticed>>

\* Some of the quits are more than a second old.
Elapse ==
  /\ \E k \in 0..recent - 1 : recent' = k
  /\ UNCHANGED <<on, splitUsers, timeouts, batches, requests, shown, unnoticed>>

\* QuitDebouncer.onJoin: a user whose quit was not bridged is still in the room;
\* the others who quit have until the timer expires.
RejoinKept(n, c) ==
  /\ n \in splitUsers[c]
  /\ timeouts' = timeouts \cup {c}
  /\ UNCHANGED <<splitUsers, requests>>
Rejoin(n, c) ==
  /\ n \in splitUsers[c]
  /\ splitUsers' = [splitUsers EXCEPT ![c] = @ \ {n}]
  /\ timeouts' = timeouts \cup {c}
  /\ UNCHANGED requests
FirstJoin(n, c) ==
  /\ n \notin splitUsers[c]
  /\ requests' = [requests EXCEPT ![c][n] = Append(@, Ask("join", 0))]
  /\ UNCHANGED <<splitUsers, timeouts>>

Join(n, c) ==
  /\ n \notin on[c] /\ May(c, n)
  /\ on' = [on EXCEPT ![c] = @ \cup {n}]
  /\ Rejoin(n, c) \/ FirstJoin(n, c)
  /\ unnoticed' = [unnoticed EXCEPT ![c] = Overlooked(@, {n} \ splitUsers[c], {n} \cap Kept(c))]
  /\ UNCHANGED <<recent, batches, shown>>

Part(n, c) ==
  /\ n \in on[c] /\ May(c, n)
  /\ on' = [on EXCEPT ![c] = @ \ {n}]
  /\ requests' = [requests EXCEPT ![c][n] = Append(@, Ask("leave", 0))]
  /\ UNCHANGED <<debouncer, batches, shown, unnoticed>>

\* A change of nick is a part and a join the debouncer is not told of.
Rename(n, m) ==
  /\ In(n) # {} /\ In(m) = {} /\ n # m
  /\ \A c \in In(n) : May(c, n) /\ May(c, m)
  /\ on' = [c \in Channels |-> IF c \in In(n) THEN (on[c] \ {n}) \cup {m} ELSE on[c]]
  /\ requests' = [c \in Channels |->
                    IF c \in In(n)
                    THEN [requests[c] EXCEPT ![n] = Append(@, Ask("leave", 0)),
                                             ![m] = Append(@, Ask("join", 0))]
                    ELSE requests[c]]
  /\ unnoticed' = [c \in Channels |->
                     IF c \in In(n)
                     THEN Overlooked(unnoticed[c], {m}, {m} \cap (splitUsers[c] \cup Kept(c)))
                     ELSE unnoticed[c]]
  /\ UNCHANGED <<debouncer, batches, shown>>

\* handleDebouncedQuit: a user of those left leaves the room, or the call is done.
Advance(reqs, i, c, left) ==
  \/ /\ left = {}
     /\ batches' = [batches EXCEPT ![i] = NoBatch] /\ requests' = reqs
  \/ \E n \in left :
       /\ batches' = [batches EXCEPT ![i] = [chan |-> c, nicks |-> left, current |-> n]]
       /\ requests' = [reqs EXCEPT ![c][n] = Append(@, Ask("leave", i))]

\* The timer of a channel expires.
Expire(c) ==
  /\ c \in timeouts
  /\ timeouts' = timeouts \ {c}
  /\ splitUsers' = [splitUsers EXCEPT ![c] = {}]
  /\ \E i \in Ids : batches[i] = NoBatch /\ Advance(requests, i, c, splitUsers[c])
  /\ UNCHANGED <<on, recent, shown, unnoticed>>

\* The homeserver has done what was asked of it; a batch goes on.
DoneStalls(c, n) ==
  /\ requests[c][n] # <<>>
  /\ requests' = [requests EXCEPT ![c][n] = Tail(@)]
  /\ shown' = [shown EXCEPT ![c] = IF Head(requests[c][n]).what = "join" THEN @ \cup {n} ELSE @ \ {n}]
  /\ UNCHANGED <<on, debouncer, unnoticed, batches>>
Done(c, n) ==
  /\ requests[c][n] # <<>>
  /\ LET r == Head(requests[c][n])
         rest == [requests EXCEPT ![c][n] = Tail(@)]
     IN  /\ shown' = [shown EXCEPT ![c] = IF r.what = "join" THEN @ \cup {n} ELSE @ \ {n}]
         /\ IF r.batch = 0
            THEN requests' = rest /\ UNCHANGED batches
            ELSE Advance(rest, r.batch, c, batches[r.batch].nicks \ {n})
  /\ UNCHANGED <<on, debouncer, unnoticed>>

Next ==
  \/ \E n \in Nicks : Quit(n)
  \/ Elapse
  \/ \E n \in Nicks, c \in Channels : Join(n, c) \/ Part(n, c) \/ Done(c, n)
  \/ \E n, m \in Nicks : Rename(n, m)
  \/ \E c \in Channels : Expire(c)

\* Timers expire and the homeserver answers.
Fairness ==
  /\ \A c \in Channels : WF_vars(Expire(c))
  /\ \A c \in Channels, n \in Nicks : WF_vars(Done(c, n))

Spec == Init /\ [][Next]_vars /\ Fairness
------------------------------------------------------------------------------
\* Whether a user will be in the room when what was asked for is done.
WillBeShown(c, n) ==
  IF requests[c][n] = <<>> THEN n \in shown[c] ELSE Last(requests[c][n]).what = "join"

TypeOK ==
  /\ on \in [Channels -> SUBSET Nicks] /\ shown \in [Channels -> SUBSET Nicks]
  /\ recent \in 0..QuitsPerSecond + 1
  /\ splitUsers \in [Channels -> SUBSET Nicks] /\ timeouts \subseteq Channels
  /\ \A i \in Ids : \/ batches[i] = NoBatch
                    \/ /\ batches[i].chan \in Channels
                       /\ batches[i].current \in batches[i].nicks
                       /\ batches[i].nicks \subseteq Nicks
  /\ requests \in [Channels -> [Nicks -> Seq([what: {"join", "leave"}, batch: 0..MaxBatches])]]

(***************************************************************************)
(* The room follows the channel: whoever is in the channel is in the room  *)
(* when all requests are done, except users who came back unnoticed by the *)
(* debouncer (while handleDebouncedQuit was busy, or by a change of nick), *)
(* and whoever is not in it leaves, except users whose quit is remembered. *)
(***************************************************************************)
RoomFollows ==
  \A c \in Channels, n \in Nicks :
    /\ n \in on[c] /\ n \notin unnoticed[c] => WillBeShown(c, n)
    /\ n \notin on[c] \cup splitUsers[c] \cup Kept(c) => ~WillBeShown(c, n)

(***************************************************************************)
(* When the timer of a channel runs, each user whose quit is remembered    *)
(* comes back or leaves the room: handleDebouncedQuit gets to all of them. *)
(***************************************************************************)
AllHandled ==
  \A c \in Channels, n \in Nicks :
    (c \in timeouts /\ n \in splitUsers[c]) ~> (n \in on[c] \/ n \notin shown[c])

(***************************************************************************)
(* config.sample.yaml: quitDebounce is "the time window in which to wait   *)
(* before bridging a QUIT", so a quit is bridged in the end, unless its    *)
(* user comes back.                                                        *)
(***************************************************************************)
QuitBridged ==
  \A c \in Channels, n \in Nicks :
    n \in splitUsers[c] ~> (n \in on[c] \/ n \notin shown[c])
=============================================================================
