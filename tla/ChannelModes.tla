---------------------------- MODULE ChannelModes ----------------------------
(***************************************************************************)
(* What the modes of IRC channels do to a Matrix room: whether it is in    *)
(* the directory (src/src/bridge/PublicitySyncer.ts), who may join it, and *)
(* who may speak (the channel modes of RoomAccessSyncer.ts).               *)
(*                                                                         *)
(* One room, bridged to every channel of Chans.  The bot is told of        *)
(* changes of modes, and may ask for all modes of a channel.               *)
(***************************************************************************)
EXTENDS Naturals, Sequences, FiniteSets, SequencesExt

CONSTANTS Chans,
          Handlers,     \* mode changes being handled at a time
          DefaultRule,  \* the join rule of the configuration
          MaxModeNews   \* lines about modes

ASSUME ChannelModesAssumption ==
  Chans # {} /\ DefaultRule \in {"invite", "public"} /\ MaxModeNews \in Nat

VARIABLES
  flags,      \* the modes each channel has
  sent,       \* lines so far
  lines,      \* lines the bot has not read, of its one connection
  handlers,   \* each change being handled
  secret,     \* channelIsSecret
  directory,  \* the room's visibility in the directory
  recorded,   \* its visibility in the data store
  modes,      \* the modes the data store has for the room
  joinRule,
  moderated,  \* events_default of the room, and what the bridge takes for it
  failed,     \* history: a request failed, or a line was missed
  crossed     \* history: two changes of secrecy were handled at once

modeVars == <<flags, sent, lines, handlers, secret, directory, recorded, modes, joinRule, moderated, failed,
              crossed>>

Modes == {"s", "k", "i", "m"}
Idle == [pc |-> "idle", chan |-> "none", mode |-> "s", on |-> FALSE, want |-> "private"]
Visible(isPrivate) == IF isPrivate THEN "private" ELSE "public"

ModesInit ==
  /\ flags = [c \in Chans |-> {}] /\ sent = 0 /\ lines = <<>>
  /\ handlers = [h \in Handlers |-> Idle]
  /\ secret = [c \in Chans |-> "unknown"]
  /\ directory = "private" /\ recorded = "private" /\ modes = {} /\ joinRule = DefaultRule
  /\ moderated = [room |-> FALSE, cached |-> FALSE]
  /\ failed = FALSE /\ crossed = FALSE
------------------------------------------------------------------------------
\* An IRC operator changes a mode; the bot may be away then.
SetChannelMode(c, mode) ==
  LET on == mode \notin flags[c] IN
  /\ sent < MaxModeNews /\ sent' = sent + 1
  /\ flags' = [flags EXCEPT ![c] = IF on THEN @ \cup {mode} ELSE @ \ {mode}]
  /\ \/ lines' = Append(lines, [chan |-> c, mode |-> mode, on |-> on, is |-> {}]) /\ UNCHANGED failed
     \/ UNCHANGED lines /\ failed' = TRUE
  /\ UNCHANGED <<handlers, secret, directory, recorded, modes, joinRule, moderated, crossed>>

\* initModeForChannel, or onFailedMessage: the answer lists the modes.
AskModes(c) ==
  /\ sent < MaxModeNews /\ sent' = sent + 1
  /\ lines' = Append(lines, [chan |-> c, mode |-> "is", on |-> TRUE, is |-> flags[c]])
  /\ UNCHANGED <<flags, handlers, secret, directory, recorded, modes, joinRule, moderated, failed, crossed>>

\* onModeIs: a change for each mode that is set.  If it is not secret, that is all but
\* for the secrecy; else the modes that are recorded and not set any more follow.
ModeChanges(c, set, on) ==
  [i \in DOMAIN SetToSeq(set) |-> [chan |-> c, mode |-> SetToSeq(set)[i], on |-> on, is |-> {}]]
OnModeIs ==
  LET c == Head(lines).chan
      is == Head(lines).is IN
  /\ lines # <<>> /\ Head(lines).mode = "is"
  /\ lines' = ModeChanges(c, is, TRUE)
                \o ModeChanges(c, IF "s" \notin is THEN {"s"} ELSE modes \ is, FALSE) \o Tail(lines)
  /\ UNCHANGED <<flags, sent, handlers, secret, directory, recorded, modes, joinRule, moderated, failed, crossed>>

Visibility == {"visibility", "solving", "solved", "directory", "record"}
First == [s |-> "visibility", k |-> "store", i |-> "store", m |-> "moderate"]
OnChannelMode(h) ==
  LET modeLine == Head(lines) IN
  /\ handlers[h] = Idle /\ lines # <<>> /\ modeLine.mode # "is"
  /\ handlers' = [handlers EXCEPT ![h] =
       [pc |-> First[modeLine.mode], chan |-> modeLine.chan, mode |-> modeLine.mode,
        on |-> modeLine.on, want |-> recorded]]
  /\ lines' = Tail(lines)
  /\ UNCHANGED <<flags, sent, secret, directory, recorded, modes, joinRule, moderated, failed>>
  /\ crossed' = (crossed \/ (modeLine.mode = "s" /\ \E g \in Handlers : handlers[g].pc \in Visibility))

------------------------------------------------------------------------------
Steps(h, pc) == handlers' = [handlers EXCEPT ![h].pc = pc]
Ends(h) == handlers' = [handlers EXCEPT ![h] = Idle]

\* A mode that is known already changes nothing.
UpdateVisibilityMapKnown(h) ==
  LET s == IF handlers[h].on THEN "yes" ELSE "no"
      c == handlers[h].chan IN
  /\ handlers[h].pc = "visibility"
  /\ secret' = [secret EXCEPT ![c] = s]
  /\ Steps(h, IF secret[c] \in {"unknown", s} THEN "store" ELSE "solving")
  /\ UNCHANGED <<flags, sent, lines, directory, recorded, modes, joinRule, moderated, failed, crossed>>
UpdateVisibilityMap(h) ==
  LET s == IF handlers[h].on THEN "yes" ELSE "no"
      c == handlers[h].chan IN
  /\ handlers[h].pc = "visibility"
  /\ secret' = [secret EXCEPT ![c] = s]
  /\ Steps(h, IF secret[c] = s THEN "store" ELSE "solving")
  /\ UNCHANGED <<flags, sent, lines, directory, recorded, modes, joinRule, moderated, failed, crossed>>

\* The data store answers with the room's visibility.
RoomsVisibility(h) ==
  /\ handlers[h].pc = "solving"
  /\ handlers' = [handlers EXCEPT ![h].pc = "solved", ![h].want = recorded]
  /\ UNCHANGED <<flags, sent, lines, secret, directory, recorded, modes, joinRule, moderated, failed, crossed>>

\* solveVisibility, for this channel.
SolveVisibility(h) ==
  LET correct == Visible(secret[handlers[h].chan] = "yes") IN
  /\ handlers[h].pc = "solved"
  /\ handlers' = [handlers EXCEPT ![h].pc = IF handlers[h].want = correct THEN "store" ELSE "directory",
                                  ![h].want = correct]
  /\ UNCHANGED <<flags, sent, lines, secret, directory, recorded, modes, joinRule, moderated, failed, crossed>>

\* A failure is logged, and not tried again.
SetDirectoryVisibility(h) ==
  /\ handlers[h].pc = "directory"
  /\ \/ directory' = handlers[h].want /\ Steps(h, "record") /\ UNCHANGED failed
     \/ Steps(h, "store") /\ failed' = TRUE /\ UNCHANGED directory
  /\ UNCHANGED <<flags, sent, lines, secret, recorded, modes, joinRule, moderated, crossed>>
SetRoomVisibility(h) ==
  /\ handlers[h].pc = "record"
  /\ recorded' = handlers[h].want /\ Steps(h, "store")
  /\ UNCHANGED <<flags, sent, lines, secret, directory, modes, joinRule, moderated, failed, crossed>>

Recorded(h) == IF handlers[h].on THEN modes \cup {handlers[h].mode} ELSE modes \ {handlers[h].mode}
SetModeForRoom(h) ==
  /\ handlers[h].pc = "store" /\ modes' = Recorded(h)
  /\ IF handlers[h].mode = "s" THEN Ends(h) ELSE Steps(h, "lock")
  /\ UNCHANGED <<flags, sent, lines, secret, directory, recorded, joinRule, moderated, failed, crossed>>

\* A room is not unlocked beyond the default, also if another mode still locks it.
SetMatrixRoomAsInviteOnly(h) ==
  /\ handlers[h].pc = "lock" /\ Ends(h)
  /\ \/ joinRule' = (IF handlers[h].on THEN "invite" ELSE DefaultRule) /\ UNCHANGED failed
     \/ failed' = TRUE /\ UNCHANGED joinRule
  /\ UNCHANGED <<flags, sent, lines, secret, directory, recorded, modes, moderated, crossed>>

\* onModeratedChannelToggle.  The cached power levels are changed before they are sent.
OnModeratedChannelToggle(h) ==
  /\ handlers[h].pc = "moderate"
  /\ IF moderated.cached = handlers[h].on THEN Ends(h) ELSE Steps(h, "moderating")
  /\ moderated' = [moderated EXCEPT !.cached = handlers[h].on]
  /\ UNCHANGED <<flags, sent, lines, secret, directory, recorded, modes, joinRule, failed, crossed>>
Moderates(h) ==
  /\ handlers[h].pc = "moderating" /\ Ends(h)
  /\ \/ /\ moderated' = [moderated EXCEPT !.room = handlers[h].on]
        /\ modes' = Recorded(h) /\ UNCHANGED failed
     \/ failed' = TRUE /\ UNCHANGED <<moderated, modes>>
  /\ UNCHANGED <<flags, sent, lines, secret, directory, recorded, joinRule, crossed>>
------------------------------------------------------------------------------
ModesNext ==
  \/ \E c \in Chans : AskModes(c) \/ \E mode \in Modes : SetChannelMode(c, mode)
  \/ OnModeIs
  \/ \E h \in Handlers : \/ OnChannelMode(h) \/ UpdateVisibilityMap(h) \/ RoomsVisibility(h) \/ SolveVisibility(h)
                         \/ SetDirectoryVisibility(h) \/ SetRoomVisibility(h) \/ SetModeForRoom(h)
                         \/ SetMatrixRoomAsInviteOnly(h) \/ OnModeratedChannelToggle(h) \/ Moderates(h)
ModesSpec == ModesInit /\ [][ModesNext]_modeVars
------------------------------------------------------------------------------
\* What each variable holds.
ModesTypeOK ==
  /\ flags \in [Chans -> SUBSET Modes] /\ modes \subseteq Modes /\ sent \in 0..MaxModeNews
  /\ secret \in [Chans -> {"unknown", "yes", "no"}]
  /\ {directory, recorded} \subseteq {"public", "private"} /\ joinRule \in {"public", "invite"}
  /\ moderated \in [room: BOOLEAN, cached: BOOLEAN]
  /\ \A h \in Handlers : handlers[h].mode \in Modes /\ handlers[h].want \in {"public", "private"}

Quiet == lines = <<>> /\ handlers = [h \in Handlers |-> Idle]

\* The room is in the directory exactly when none of its channels is secret, once every
\* channel has told its modes, if the channels agree: the directory is changed by one
\* handler, the store tells the next one what there is to change.  Not after a failure,
\* nor when two changes of secrecy were handled at once: the answers of the homeserver
\* and of the store come in any order.
PublicityFollows ==
  \A s \in BOOLEAN :
    /\ Quiet /\ ~failed /\ ~crossed
    /\ \A c \in Chans : secret[c] # "unknown" /\ ("s" \in flags[c]) = s
    => directory = Visible(s)

(***************************************************************************)
(* "If ANY +s channel is somehow being bridged into a room, that room is   *)
(* updated to private." (PublicitySyncer.ts:108)                           *)
(***************************************************************************)
AnySecretMeansPrivate ==
  Quiet /\ ~failed /\ (\E c \in Chans : "s" \in flags[c]) => directory = "private"
=============================================================================
