----------------------------- MODULE RoomAccess -----------------------------
(***************************************************************************)
(* User modes of an IRC channel become power levels of the Matrix rooms it *)
(* is bridged to (src/src/bridge/RoomAccessSyncer.ts).                     *)
(*                                                                         *)
(* Levels are 0, 1 for voice and 2 for operators.  Changes of levels are   *)
(* collected for a grace period, per room; the current levels are cached   *)
(* and the cache is changed before the homeserver is.                      *)
(***************************************************************************)
EXTENDS Naturals, Sequences, FiniteSets, FiniteSetsExt, SequencesExt

CONSTANTS Speakers,     \* users of the channel
          Bridged,      \* those whose modes the bridge knows from their own client
          NumRooms,     \* rooms of the channel, in the data store's order
          MaxModeLines  \* changes of modes, and of levels by Matrix users

ASSUME RoomAccessAssumption ==
  Bridged \subseteq Speakers /\ NumRooms \in Nat \ {0} /\ MaxModeLines \in Nat

VARIABLES
  prefixes,   \* the modes each user has
  modeLines,  \* MODE lines the bot has not read
  used,       \* how many changes there were
  applying,   \* the line being handled: the room it is at, and its level so far
  levels,     \* power levels of each room
  cached,     \* powerLevelsForRoom: <<levels>>, or <<>> where there is nothing
  requested,  \* pendingPLChanges: the level asked for, NoLevel for no change
  timer,      \* rooms with a timer
  changing,   \* changes that wait for the current levels, or for the homeserver
  echoes,     \* power level events on their way to the bridge
  wanted,     \* history: the level last asked for
  disturbed   \* history: rooms where a request failed, or where changes met

accessVars == <<prefixes, modeLines, used, applying, levels, cached, requested, timer, changing,
                echoes, wanted, disturbed>>

Rooms == 1..NumRooms
NoLevel == 3
Nobody == [u \in Speakers |-> NoLevel]
NoLine == [room |-> 0]
Power == [v |-> 1, o |-> 2]

AccessInit ==
  /\ prefixes = [u \in Speakers |-> {}] /\ modeLines = <<>> /\ used = 0 /\ applying = NoLine
  /\ levels = [r \in Rooms |-> [u \in Speakers |-> 0]] /\ cached = [r \in Rooms |-> <<>>]
  /\ requested = [r \in Rooms |-> Nobody] /\ timer = {} /\ changing = {} /\ echoes = <<>>
  /\ wanted = [r \in Rooms |-> Nobody] /\ disturbed = {}
------------------------------------------------------------------------------
Use == used < MaxModeLines /\ used' = used + 1
SetMode(u, m) ==
  LET on == m \notin prefixes[u] IN
  /\ Use /\ prefixes' = [prefixes EXCEPT ![u] = IF on THEN @ \cup {m} ELSE @ \ {m}]
  /\ modeLines' = Append(modeLines, [user |-> u, mode |-> m, on |-> on])
  /\ UNCHANGED <<applying, levels, cached, requested, timer, changing, echoes, wanted, disturbed>>

\* A Matrix user changes a level.
SetLevel(r, u, level) ==
  /\ Use /\ levels[r][u] # level
  /\ levels' = [levels EXCEPT ![r][u] = level] /\ echoes' = Append(echoes, [room |-> r, levels |-> levels'[r]])
  /\ disturbed' = disturbed \cup {r}
  /\ UNCHANGED <<prefixes, modeLines, applying, cached, requested, timer, changing, wanted>>

\* onMode: the level is that of the mode that changes, given or taken, or of one the
\* user still has, if it is known.
OnMode ==
  LET told == Head(modeLines)
      kept == IF told.user \in Bridged THEN prefixes[told.user] ELSE {} IN
  /\ applying = NoLine /\ modeLines # <<>> /\ modeLines' = Tail(modeLines)
  /\ applying' = [room |-> 1, user |-> told.user, on |-> told.on,
                 level |-> Max({Power[m] : m \in kept \cup {told.mode}})]
  /\ UNCHANGED <<prefixes, used, levels, cached, requested, timer, changing, echoes, wanted, disturbed>>

\* getCurrentPowerlevels; when it fails the user has no level.
NextRoom(s, level) ==
  IF s.room < NumRooms THEN [room |-> s.room + 1, user |-> s.user, on |-> s.on, level |-> level]
  ELSE NoLine
Fetch(r) ==
  /\ cached[r] = <<>>
  /\ \/ applying # NoLine /\ applying.room = r
     \/ \E c \in changing : c.room = r /\ c.stage = "fetch"
  /\ cached' = [cached EXCEPT ![r] = <<levels[r]>>]
  /\ disturbed' = IF echoes # <<>> THEN disturbed \cup {r} ELSE disturbed
  /\ UNCHANGED <<prefixes, modeLines, used, applying, levels, requested, timer, changing, echoes, wanted>>

\* setPowerLevel: the change joins those of the room, and the timer starts anew.
SetPowerLevelAlone(r, u, level) ==
  /\ requested' = [requested EXCEPT ![r] = [Nobody EXCEPT ![u] = level]]
  /\ timer' = timer \cup {r} /\ wanted' = [wanted EXCEPT ![r][u] = level]
SetPowerLevel(r, u, level) ==
  /\ requested' = [requested EXCEPT ![r][u] = level]
  /\ timer' = timer \cup {r} /\ wanted' = [wanted EXCEPT ![r][u] = level]

\* One room of onMode.  Who has the level, or more, is left as he is.  The level 0 of
\* a mode that is taken is what the next room starts with.
OnModeInRoom ==
  LET s == applying
      has == IF cached[s.room] = <<>> THEN 0 ELSE cached[s.room][1][s.user] IN
  /\ s # NoLine
  /\ \/ /\ (has = s.level /\ s.on) \/ (has = 0 /\ ~s.on) \/ has > s.level \/ (has = 0 /\ s.level = 0)
        /\ applying' = NextRoom(s, s.level) /\ UNCHANGED <<requested, timer, wanted>>
     \/ /\ s.on /\ has < s.level
        /\ SetPowerLevel(s.room, s.user, s.level) /\ applying' = NextRoom(s, s.level)
     \/ /\ ~s.on /\ has # 0 /\ has <= s.level
        /\ SetPowerLevel(s.room, s.user, 0) /\ applying' = NextRoom(s, 0)
  /\ UNCHANGED <<prefixes, modeLines, used, levels, cached, changing, echoes, disturbed>>
------------------------------------------------------------------------------
\* The timer fires.  What was collected stays, to be sent again with the next change.
GracePeriodEnds(r) ==
  /\ r \in timer /\ timer' = timer \ {r}
  /\ changing' = changing \cup {[room |-> r, stage |-> "fetch", levels |-> requested[r]]}
  /\ disturbed' = IF \E c \in changing : c.room = r THEN disturbed \cup {r} ELSE disturbed
  /\ UNCHANGED <<prefixes, modeLines, used, applying, levels, cached, requested, echoes, wanted>>

\* removePowerLevels, for users who leave the room: what was collected is dropped.
RemovePowerLevels(r, u) ==
  /\ Use /\ timer' = timer \ {r}
  /\ requested' = [requested EXCEPT ![r] = Nobody] /\ wanted' = [wanted EXCEPT ![r] = [Nobody EXCEPT ![u] = 0]]
  /\ changing' = changing \cup {[room |-> r, stage |-> "fetch", levels |-> [Nobody EXCEPT ![u] = 0]]}
  /\ disturbed' = IF \E c \in changing : c.room = r THEN disturbed \cup {r} ELSE disturbed
  /\ UNCHANGED <<prefixes, modeLines, applying, levels, cached, echoes>>

\* changePowerLevels, with the levels there are: changed in the cache, then sent.
ChangePowerLevels(c) ==
  LET new == [u \in Speakers |-> IF c.levels[u] = NoLevel THEN cached[c.room][1][u] ELSE c.levels[u]] IN
  /\ c \in changing /\ c.stage = "fetch" /\ cached[c.room] # <<>>
  /\ cached' = [cached EXCEPT ![c.room] = <<new>>]
  /\ changing' = (changing \ {c}) \cup
       (IF <<new>> = cached[c.room] THEN {} ELSE {[room |-> c.room, stage |-> "send", levels |-> new]})
  /\ UNCHANGED <<prefixes, modeLines, used, applying, levels, requested, timer, echoes, wanted, disturbed>>

\* The event is accepted, or is refused: too large, or for lack of power.
SendPowerLevels(c) ==
  /\ c \in changing /\ c.stage = "send" /\ changing' = changing \ {c}
  /\ \/ /\ levels' = [levels EXCEPT ![c.room] = c.levels]
        /\ echoes' = Append(echoes, [room |-> c.room, levels |-> c.levels]) /\ UNCHANGED disturbed
     \/ disturbed' = disturbed \cup {c.room} /\ UNCHANGED <<levels, echoes>>
  /\ UNCHANGED <<prefixes, modeLines, used, applying, cached, requested, timer, wanted>>

\* Without the current levels the change is dropped.
FetchFails(c) ==
  /\ c \in changing /\ c.stage = "fetch" /\ cached[c.room] = <<>>
  /\ changing' = changing \ {c} /\ disturbed' = disturbed \cup {c.room}
  /\ UNCHANGED <<prefixes, modeLines, used, applying, levels, cached, requested, timer, echoes, wanted>>

\* onMatrixPowerlevelEvent: the event replaces the cache, changed or not.
OnMatrixPowerlevelEvent ==
  /\ echoes # <<>> /\ echoes' = Tail(echoes)
  /\ cached' = [cached EXCEPT ![Head(echoes).room] = <<Head(echoes).levels>>]
  /\ disturbed' = IF \/ Head(echoes).levels # levels[Head(echoes).room]
                     \/ \E c \in changing : c.room = Head(echoes).room
                  THEN disturbed \cup {Head(echoes).room} ELSE disturbed
  /\ UNCHANGED <<prefixes, modeLines, used, applying, levels, requested, timer, changing, wanted>>
------------------------------------------------------------------------------
AccessNext ==
  \/ \E u \in Speakers : \/ \E m \in {"o", "v"} : SetMode(u, m)
                         \/ \E r \in Rooms : RemovePowerLevels(r, u) \/ \E level \in 0..2 : SetLevel(r, u, level)
  \/ OnMode \/ OnModeInRoom \/ OnMatrixPowerlevelEvent
  \/ \E r \in Rooms : Fetch(r) \/ GracePeriodEnds(r)
  \/ \E c \in changing : ChangePowerLevels(c) \/ SendPowerLevels(c) \/ FetchFails(c)
AccessSpec == AccessInit /\ [][AccessNext]_accessVars
------------------------------------------------------------------------------
AccessTypeOK ==
  /\ prefixes \in [Speakers -> SUBSET {"o", "v"}] /\ used \in 0..MaxModeLines
  /\ levels \in [Rooms -> [Speakers -> 0..2]] /\ timer \subseteq Rooms /\ disturbed \subseteq Rooms
  /\ \A r \in Rooms : /\ cached[r] = <<>> \/ Head(cached[r]) \in [Speakers -> 0..2]
                      /\ \A u \in Speakers : requested[r][u] \in 0..NoLevel
  /\ \A c \in changing : c.room \in Rooms /\ c.stage \in {"fetch", "send"}

(***************************************************************************)
(* No change that was collected is lost: when all is done, each room has   *)
(* the levels last asked for, however the changes of several users meet in *)
(* the grace period.  Exceptions: a request that failed; a Matrix user's   *)
(* change; a change, or a late event, that came while another was sent.    *)
(***************************************************************************)
LevelsKept ==
  \A r \in Rooms \ (disturbed \cup timer) :
    (~\E c \in changing : c.room = r)
      => \A u \in Speakers : wanted[r][u] # NoLevel => levels[r][u] = wanted[r][u]
=============================================================================
