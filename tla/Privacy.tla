------------------------------- MODULE Privacy -------------------------------
(***************************************************************************)
(* Which IRC messages reach a Matrix room where everyone has to be in the  *)
(* IRC channel too (src/src/irc/PrivacyProtection.ts), given the room's    *)
(* own configuration (src/src/bridge/RoomConfig.ts), and how users who are *)
(* not are brought there (syncMembersInRoomToIrc in IrcBridge.ts).         *)
(*                                                                         *)
(* One channel and one room.  Its configuration is one state event for the *)
(* channel and one for all channels; each may say whether users who are    *)
(* not connected are allowed, and the second holds where the first is not. *)
(***************************************************************************)
EXTENDS Naturals, Sequences, FiniteSets, SequencesExt

CONSTANTS Members,    \* Matrix users
          Messages,   \* IRC messages
          MaxEvents   \* changes of the room

ASSUME PrivacyAssumption == MaxEvents \in Nat

VARIABLES
  joinedRoom, \* the members of the room
  onIrc,      \* those whose client is in the channel
  setting,    \* the two state events: "unset", "allow" or "require"
  news,       \* events the bridge has not handled
  members,    \* memberListCache: a set, or "none"
  configs,    \* the configuration cache: an answer for the channel, or "none"
  messages,   \* where each message is: its step, and what it has read
  sync,       \* members a sync has still to look at
  blocked,    \* roomBlockedSet has the room
  shown,      \* the state events about it the homeserver has not got, and the last it got
  changed,    \* how many changes there were
  doubt       \* history: a cache may be out of date

privacyVars ==
  <<joinedRoom, onIrc, setting, news, members, configs, messages, sync, blocked, shown, changed, doubt>>

Settings == {"unset", "allow", "require"}
NewMessage == [pc |-> "idle", got |-> {}, answer |-> "unset"]
Configured == IF setting.keyed # "unset" THEN setting.keyed ELSE setting.global

PrivacyInit ==
  /\ joinedRoom \in SUBSET Members /\ onIrc = {}
  /\ setting = [keyed |-> "unset", global |-> "unset"]
  /\ news = <<>> /\ members = "none" /\ configs = "none"
  /\ messages = [m \in Messages |-> NewMessage]
  /\ sync = {} /\ blocked = FALSE /\ shown = [sent |-> {}, last |-> FALSE]
  /\ changed = 0 /\ doubt = [members |-> FALSE, config |-> FALSE]
------------------------------------------------------------------------------
\* The room and the channel.
Change == changed < MaxEvents /\ changed' = changed + 1
MemberChanges(u) ==
  /\ Change
  /\ joinedRoom' = (IF u \in joinedRoom THEN joinedRoom \ {u} ELSE joinedRoom \cup {u})
  /\ news' = Append(news, "member")
  /\ UNCHANGED <<onIrc, setting, members, configs, messages, sync, blocked, shown, doubt>>
ConfigChanges(key, s) ==
  /\ Change /\ setting[key] # s
  /\ setting' = [setting EXCEPT ![key] = s] /\ news' = Append(news, key)
  /\ UNCHANGED <<joinedRoom, onIrc, members, configs, messages, sync, blocked, shown, doubt>>
LeavesChannel(u) ==
  /\ Change /\ u \in onIrc /\ onIrc' = onIrc \ {u}
  /\ UNCHANGED <<joinedRoom, setting, news, members, configs, messages, sync, blocked, shown, doubt>>

\* Their events.  The one for all channels has an empty state key, under which nothing
\* is cached: the answers made of it stay.
Reads(pc) == \E m \in Messages : messages[m].pc = pc
InvalidateNothing ==
  /\ news # <<>> /\ news' = Tail(news)
  /\ members' = members /\ configs' = IF Head(news) = "keyed" THEN "none" ELSE configs
  /\ UNCHANGED <<joinedRoom, onIrc, setting, messages, sync, blocked, shown, changed, doubt>>
Invalidate ==
  /\ news # <<>> /\ news' = Tail(news)
  /\ CASE Head(news) = "member" ->
            /\ members' = "none" /\ UNCHANGED configs
            /\ doubt' = [doubt EXCEPT !.members = Reads("members read")]
       [] Head(news) = "keyed" ->
            /\ configs' = "none" /\ UNCHANGED members
            /\ doubt' = [doubt EXCEPT !.config = Reads("config read")]
       [] Head(news) = "global" ->
            /\ UNCHANGED <<members, configs>>
            /\ doubt' = [doubt EXCEPT !.config = @ \/ configs # "none" \/ Reads("config read")]
  /\ UNCHANGED <<joinedRoom, onIrc, setting, messages, sync, blocked, shown, changed>>
------------------------------------------------------------------------------
\* getSafeRooms.
GoesTo(m, pc) == messages' = [messages EXCEPT ![m].pc = pc]
Has(m, pc, got, answer) == messages' = [messages EXCEPT ![m] = [pc |-> pc, got |-> got, answer |-> answer]]

Arrives(m) ==
  /\ messages[m].pc = "idle"
  /\ IF configs = "none" THEN Has(m, "ask config", messages[m].got, "unset")
                         ELSE Has(m, "config", messages[m].got, configs)
  /\ UNCHANGED <<joinedRoom, onIrc, setting, news, members, configs, sync, blocked, shown, changed, doubt>>

\* The homeserver answers; an answer is cached when it arrives.  (One that takes more
\* than two seconds is given up by the message, and cached later: left out.)
ReadConfig(m) ==
  /\ messages[m].pc = "ask config"
  /\ Has(m, "config read", messages[m].got, Configured)
  /\ UNCHANGED <<joinedRoom, onIrc, setting, news, members, configs, sync, blocked, shown, changed, doubt>>
ConfigRead(m) ==
  /\ messages[m].pc = "config read"
  /\ configs' = IF messages[m].answer = "unset" THEN "none" ELSE messages[m].answer
  /\ GoesTo(m, "config")
  /\ UNCHANGED <<joinedRoom, onIrc, setting, news, members, sync, blocked, shown, changed, doubt>>
ConfigTimeout(m) ==
  /\ messages[m].pc = "ask config"
  /\ Has(m, "config", messages[m].got, "unset")
  /\ UNCHANGED <<joinedRoom, onIrc, setting, news, members, configs, sync, blocked, shown, changed, doubt>>

\* Without an answer the server's configuration holds: they are required.
Allowed(m) ==
  /\ messages[m].pc = "config" /\ messages[m].answer = "allow"
  /\ GoesTo(m, "allowed")
  /\ UNCHANGED <<joinedRoom, onIrc, setting, news, members, configs, sync, blocked, shown, changed, doubt>>
AsksMembers(m) ==
  /\ messages[m].pc = "config" /\ messages[m].answer # "allow" /\ members = "none"
  /\ GoesTo(m, "ask members")
  /\ UNCHANGED <<joinedRoom, onIrc, setting, news, members, configs, sync, blocked, shown, changed, doubt>>
ReadMembers(m) ==
  /\ messages[m].pc = "ask members"
  /\ Has(m, "members read", joinedRoom, messages[m].answer)
  /\ UNCHANGED <<joinedRoom, onIrc, setting, news, members, configs, sync, blocked, shown, changed, doubt>>

\* setBlockedStateInRoom, which nothing waits for.
Block(b) ==
  /\ blocked' = b
  /\ shown' = IF b = blocked THEN shown ELSE [shown EXCEPT !.sent = @ \cup {b}]

\* areAllMatrixUsersJoined, with the members that were cached or read.  Missing users
\* start a sync unless there is one.
Decides(m, who) ==
  /\ Block(~(who \subseteq onIrc))
  /\ IF who \subseteq onIrc THEN GoesTo(m, "safe") /\ UNCHANGED sync
     ELSE /\ GoesTo(m, "dropped")
          /\ sync' = IF sync = {} THEN joinedRoom ELSE sync
MembersKnown(m) ==
  /\ messages[m].pc = "config" /\ messages[m].answer # "allow" /\ members # "none"
  /\ Decides(m, members[1])
  /\ UNCHANGED <<joinedRoom, onIrc, setting, news, members, configs, changed, doubt>>
MembersRead(m) ==
  /\ messages[m].pc = "members read" /\ members' = <<messages[m].got>>
  /\ Decides(m, messages[m].got)
  /\ UNCHANGED <<joinedRoom, onIrc, setting, news, configs, changed, doubt>>

StateSent(b) ==
  /\ b \in shown.sent
  /\ \E ok \in BOOLEAN : shown' = [sent |-> shown.sent \ {b}, last |-> IF ok THEN b ELSE shown.last]
  /\ UNCHANGED <<joinedRoom, onIrc, setting, news, members, configs, messages, sync, blocked, changed, doubt>>

\* Each user is connected and joined in turn; who cannot be is kicked from the room.
SyncMember(u) ==
  /\ u \in sync /\ sync' = sync \ {u}
  /\ \/ onIrc' = onIrc \cup {u} /\ UNCHANGED <<joinedRoom, news>>
     \/ /\ u \notin onIrc /\ u \in joinedRoom /\ UNCHANGED onIrc
        /\ joinedRoom' = joinedRoom \ {u} /\ news' = Append(news, "member")
     \/ u \notin onIrc /\ UNCHANGED <<joinedRoom, onIrc, news>>
  /\ UNCHANGED <<setting, members, configs, messages, blocked, shown, changed, doubt>>
------------------------------------------------------------------------------
PrivacyNext ==
  \/ \E u \in Members : MemberChanges(u) \/ LeavesChannel(u) \/ SyncMember(u)
  \/ \E key \in {"keyed", "global"}, s \in Settings : ConfigChanges(key, s)
  \/ Invalidate
  \/ \E m \in Messages : \/ Arrives(m) \/ ReadConfig(m) \/ ConfigRead(m) \/ ConfigTimeout(m) \/ Allowed(m)
                         \/ AsksMembers(m) \/ ReadMembers(m) \/ MembersKnown(m) \/ MembersRead(m)
  \/ \E b \in BOOLEAN : StateSent(b)
PrivacySpec == PrivacyInit /\ [][PrivacyNext]_privacyVars
------------------------------------------------------------------------------
PrivacyTypeOK ==
  /\ joinedRoom \subseteq Members /\ onIrc \subseteq Members /\ sync \subseteq Members
  /\ setting \in [keyed: Settings, global: Settings] /\ configs \in Settings \cup {"none"}
  /\ news \in Seq({"member", "keyed", "global"}) /\ blocked \in BOOLEAN /\ changed \in 0..MaxEvents
  /\ \A m \in Messages : messages[m].got \subseteq Members /\ messages[m].answer \in Settings

(***************************************************************************)
(* What the bridge takes for the members of the room and for its           *)
(* configuration is right as soon as it has handled all events: a message  *)
(* is only passed on to people who may read the channel.  Exceptions: what *)
(* was read before an event and cached after it; a configuration for all   *)
(* channels that changes when an answer made of it is cached.              *)
(***************************************************************************)
CachesFollow ==
  news = <<>> /\ ~Reads("members read") /\ ~Reads("config read")
    => /\ members = "none" \/ doubt.members \/ members = <<joinedRoom>>
       /\ configs = "none" \/ doubt.config \/ configs = Configured
=============================================================================
