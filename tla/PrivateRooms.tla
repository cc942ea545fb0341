---------------------------- MODULE PrivateRooms ----------------------------
(***************************************************************************)
(* How the bridge finds or makes the room for private messages between an  *)
(* IRC user and a Matrix user, and the room in which it tells a Matrix     *)
(* user about his connection (src/src/bridge/IrcHandler.ts, with the parts *)
(* of MatrixHandler.ts and of the data stores that touch these rooms).     *)
(*                                                                         *)
(* One Matrix user, and one IRC user.  An ask is one private message, or   *)
(* one notice; an action is what runs between two awaits.                  *)
(***************************************************************************)
EXTENDS Naturals, Sequences, FiniteSets, SequencesExt

CONSTANTS Inquiries,  \* messages, or notices
          NoAsk,
          MaxRooms,   \* rooms made altogether
          MaxTries,   \* PM_ROOM_CREATION_RETRIES (3 in the code)
          MaxMoves    \* what the Matrix user does of his own accord

ASSUME PrivateRoomsAssumption == MaxRooms \in Nat /\ MaxTries \in Nat \ {0} /\ NoAsk \notin Inquiries

VARIABLES
  kind,      \* "pm" or "admin": which of the two rooms this is about
  stored,    \* the room the data store has, 0 for none
  rooms,     \* the rooms there are, in the order they were made: by whom
  asks,      \* where each ask is, its room, its tries, and whose priv it uses
  outcome,   \* what became of the promise the ask made
  promise,   \* the ask whose promise is in pmRoomPromises or pendingAdminRooms
  objs,      \* the priv object an ask made: membership, and whether events reach it
  tracked,   \* roomIdToPrivateMember: for each room the ask that made the object
  member,    \* the Matrix user's membership of each room
  events,    \* member events on their way to the bridge
  moves,     \* what the user did so far
  excuse     \* history: a second room may have been made

asked == <<asks, outcome, promise>>
tracking == <<objs, tracked, member, events, moves>>
privateVars == <<kind, stored, rooms, asked, tracking, excuse>>

RoomIds == 1..MaxRooms
AskAt(pc, room, tries, priv) == [pc |-> pc, room |-> room, tries |-> tries, priv |-> priv]
NewAsk == AskAt("idle", 0, MaxTries, NoAsk)
Obj(membership, hears) == [membership |-> membership, hears |-> hears]
NewObj == Obj("leave", TRUE)

PrivateInit ==
  /\ kind \in {"pm", "admin"}
  /\ stored = 0 /\ rooms = <<>>
  /\ asks = [a \in Inquiries |-> NewAsk] /\ outcome = [a \in Inquiries |-> "none"] /\ promise = NoAsk
  /\ objs = [a \in Inquiries |-> NewObj] /\ tracked = [r \in RoomIds |-> NoAsk]
  /\ member = [r \in RoomIds |-> "leave"] /\ events = <<>> /\ moves = 0
  /\ excuse = FALSE
------------------------------------------------------------------------------
At(a, pc) == asks[a].pc = pc
GoTo(a, pc) == asks' = [asks EXCEPT ![a] = AskAt(pc, @.room, @.tries, @.priv)]
Finds(a, r) == asks' = [asks EXCEPT ![a] = AskAt("found", r, @.tries, @.priv)]

\* onPrivateMessage, once it has the virtual user; onMetadata.
Inquire(a) ==
  /\ At(a, "idle") /\ GoTo(a, "looking")
  /\ UNCHANGED <<kind, stored, rooms, outcome, promise, tracking, excuse>>

\* The store answers.
LookedUp(a) ==
  /\ At(a, "looking")
  /\ \/ asks' = [asks EXCEPT ![a] = AskAt("looked", stored, @.tries, @.priv)]
     \/ GoTo(a, "error")
  /\ UNCHANGED <<kind, stored, rooms, outcome, promise, tracking, excuse>>

Creates(a) ==
  /\ GoTo(a, "creating") /\ promise' = a /\ outcome' = [outcome EXCEPT ![a] = "pending"]

\* The room of the store, or of the promise there is, or a new one.
ResumeAlone(a) ==
  /\ At(a, "looked")
  /\ IF asks[a].room # 0 THEN Finds(a, asks[a].room) /\ UNCHANGED <<outcome, promise>> ELSE Creates(a)
  /\ UNCHANGED <<kind, stored, rooms, tracking, excuse>>
Resume(a) ==
  /\ At(a, "looked")
  /\ IF asks[a].room # 0 THEN Finds(a, asks[a].room) /\ UNCHANGED <<outcome, promise>>
     ELSE IF promise = NoAsk THEN Creates(a)
     ELSE /\ asks' = [asks EXCEPT ![a] = AskAt("waits", @.room, @.tries, promise)]
          /\ UNCHANGED <<outcome, promise>>
  /\ excuse' = (excuse \/ (kind = "admin" /\ asks[a].room = 0 /\ stored # 0 /\ promise = NoAsk))
  /\ UNCHANGED <<kind, stored, rooms, tracking>>

\* The promise is settled.  A message whose promise failed makes one of its own, also
\* when another message has done so by now.
Waited(a) ==
  LET p == asks[a].priv IN
  /\ At(a, "waits")
  /\ \/ outcome[p] = "made" /\ Finds(a, asks[p].room) /\ UNCHANGED <<outcome, promise>>
     \/ outcome[p] = "failed" /\ kind = "pm" /\ Creates(a)
     \/ outcome[p] = "failed" /\ kind = "admin" /\ GoTo(a, "error") /\ UNCHANGED <<outcome, promise>>
  /\ UNCHANGED <<kind, stored, rooms, tracking, excuse>>

AskFails(a) ==
  /\ GoTo(a, "error") /\ outcome' = [outcome EXCEPT ![a] = "failed"]
  /\ excuse' = TRUE

\* The homeserver makes the room, or refuses.  Only an admin room invites the user.
CreateRoom(a) ==
  /\ At(a, "creating")
  /\ \/ /\ Len(rooms) < MaxRooms /\ rooms' = Append(rooms, "bridge")
        /\ asks' = [asks EXCEPT ![a] = AskAt("storing", Len(rooms) + 1, @.tries, @.priv)]
        /\ member' = [member EXCEPT ![Len(rooms) + 1] = IF kind = "admin" THEN "invite" ELSE "leave"]
        /\ UNCHANGED <<outcome, excuse>>
     \/ /\ kind = "pm" /\ asks[a].tries > 1
        /\ asks' = [asks EXCEPT ![a] = AskAt(@.pc, @.room, @.tries - 1, @.priv)] /\ UNCHANGED <<rooms, member, outcome, excuse>>
     \/ /\ kind = "admin" \/ asks[a].tries = 1
        /\ AskFails(a) /\ UNCHANGED <<rooms, member>>
  /\ UNCHANGED <<kind, stored, promise, objs, tracked, events, moves>>

\* setPmRoom and storeAdminRoom: the entry of the pair or user is overwritten.
StoreRoom(a) ==
  /\ At(a, "storing")
  /\ \/ /\ stored' = asks[a].room
        /\ IF kind = "pm" THEN GoTo(a, "found") /\ outcome' = [outcome EXCEPT ![a] = "made"]
           ELSE GoTo(a, "announcing") /\ UNCHANGED outcome
        /\ UNCHANGED excuse
     \/ AskFails(a) /\ UNCHANGED stored
  /\ UNCHANGED <<kind, rooms, promise, tracking>>

\* The first notice in an admin room; only after it is the promise removed.
Announce(a) ==
  /\ At(a, "announcing")
  /\ \/ /\ GoTo(a, "found") /\ outcome' = [outcome EXCEPT ![a] = "made"]
        /\ promise' = NoAsk /\ UNCHANGED excuse
     \/ AskFails(a) /\ UNCHANGED promise
  /\ UNCHANGED <<kind, stored, rooms, tracking>>
------------------------------------------------------------------------------
\* ensureMatrixUserJoined.  Nothing known of the room: ask the homeserver, which may
\* know nothing either.  The object it returns has no sender.
EnsureQueries(a) ==
  /\ kind = "pm" /\ At(a, "found") /\ tracked[asks[a].room] = NoAsk
  /\ GoTo(a, "querying")
  /\ UNCHANGED <<kind, stored, rooms, outcome, promise, tracking, excuse>>

Invites(a, o) ==
  asks' = [asks EXCEPT ![a] = AskAt(IF objs'[o].membership \in {"join", "invite"} THEN "sending" ELSE "inviting",
                                    @.room, @.tries, o)]

EnsureKnows(a) ==
  /\ kind = "pm" /\ At(a, "found") /\ tracked[asks[a].room] # NoAsk
  /\ objs' = objs /\ Invites(a, tracked[asks[a].room])
  /\ UNCHANGED <<kind, stored, rooms, outcome, promise, tracked, member, events, moves, excuse>>

Queried(a) ==
  LET r == asks[a].room IN
  /\ At(a, "querying")
  /\ \/ GoTo(a, "sending") /\ UNCHANGED <<objs, tracked>>
     \/ /\ \/ member[r] = "leave" /\ objs' = [objs EXCEPT ![a] = NewObj]
           \/ objs' = [objs EXCEPT ![a] = Obj(member[r], FALSE)]
        /\ tracked' = [tracked EXCEPT ![r] = a] /\ Invites(a, a)
  /\ UNCHANGED <<kind, stored, rooms, outcome, promise, member, events, moves, excuse>>

Moves(r, membership) ==
  /\ member' = [member EXCEPT ![r] = membership]
  /\ events' = Append(events, [room |-> r, membership |-> membership])

\* The invite; the homeserver refuses it for who has joined, or it fails.
Invited(a) ==
  LET r == asks[a].room IN
  /\ At(a, "inviting") /\ GoTo(a, "sending")
  /\ \/ /\ member[r] # "join" /\ Moves(r, "invite")
        /\ objs' = [objs EXCEPT ![asks[a].priv] = Obj("invite", @.hears)]
     \/ UNCHANGED <<objs, member, events>>
  /\ UNCHANGED <<kind, stored, rooms, outcome, promise, tracked, moves, excuse>>

\* The message or the notice itself.
SendAction(a) ==
  /\ At(a, "sending") \/ (kind = "admin" /\ At(a, "found"))
  /\ \E end \in {"ok", "error"} : GoTo(a, end)
  /\ UNCHANGED <<kind, stored, rooms, outcome, promise, tracking, excuse>>

OnMatrixMemberEvent ==
  /\ events # <<>> /\ events' = Tail(events)
  /\ LET e == Head(events) IN
     IF tracked[e.room] # NoAsk /\ objs[tracked[e.room]].hears
     THEN objs' = [objs EXCEPT ![tracked[e.room]] = Obj(e.membership, @.hears)] ELSE UNCHANGED objs
  /\ UNCHANGED <<kind, stored, rooms, asked, tracked, member, moves, excuse>>
------------------------------------------------------------------------------
\* What the Matrix user does.
Move == moves < MaxMoves /\ moves' = moves + 1

UserMoves(r) ==
  /\ Move
  /\ \/ member[r] = "invite" /\ \E m \in {"join", "leave"} : Moves(r, m)
     \/ member[r] = "join" /\ Moves(r, "leave")
  /\ UNCHANGED <<kind, stored, rooms, asked, objs, tracked, excuse>>

\* He invites the IRC user's double to a direct chat (handleInviteFromUser), or the
\* bot to one (handleAdminRoomInvite): that is the room from then on.
InviteFromUser ==
  /\ Move /\ Len(rooms) < MaxRooms
  /\ rooms' = Append(rooms, "user") /\ stored' = Len(rooms) + 1
  /\ member' = [member EXCEPT ![Len(rooms) + 1] = "join"]
  /\ UNCHANGED <<kind, asked, objs, tracked, events, excuse>>

\* He invites a third to the room: it is given up (handleInviteToPMRoom).  Only the
\* store forgets it, and the promise, which is lost when the bridge restarts.
InviteToPMRoom ==
  /\ Move /\ kind = "pm" /\ stored # 0 /\ member[stored] = "join"
  /\ stored' = 0
  /\ excuse' = (excuse \/ promise = NoAsk)
  /\ UNCHANGED <<kind, rooms, asked, objs, tracked, member, events>>

Restart ==
  /\ Move
  /\ asks' = [a \in Inquiries |->
                LET x == asks[a] IN IF x.pc = "idle" THEN x ELSE AskAt("error", x.room, x.tries, x.priv)]
  /\ promise' = NoAsk /\ tracked' = [r \in RoomIds |-> NoAsk] /\ events' = <<>>
  /\ excuse' = (excuse \/ (stored = 0 /\ rooms # <<>>))
  /\ UNCHANGED <<kind, stored, rooms, outcome, objs, member>>
------------------------------------------------------------------------------
PrivateNext ==
  \/ \E a \in Inquiries :
       \/ Inquire(a) \/ LookedUp(a) \/ Resume(a) \/ Waited(a) \/ CreateRoom(a) \/ StoreRoom(a)
       \/ Announce(a) \/ EnsureQueries(a) \/ EnsureKnows(a) \/ Queried(a) \/ Invited(a)
       \/ SendAction(a)
  \/ OnMatrixMemberEvent \/ InviteFromUser \/ InviteToPMRoom \/ Restart
  \/ \E r \in RoomIds : UserMoves(r)

PrivateSpec == PrivateInit /\ [][PrivateNext]_privateVars
------------------------------------------------------------------------------
PrivateTypeOK ==
  /\ stored \in 0..Len(rooms) /\ rooms \in Seq({"bridge", "user"}) /\ Len(rooms) <= MaxRooms
  /\ promise \in Inquiries \cup {NoAsk} /\ outcome \in [Inquiries -> {"none", "pending", "made", "failed"}]
  /\ \A a \in Inquiries : asks[a].room \in 0..Len(rooms) /\ asks[a].tries \in 1..MaxTries
  /\ objs \in [Inquiries -> [membership: {"join", "invite", "leave"}, hears: BOOLEAN]]
  /\ tracked \in [RoomIds -> Inquiries \cup {NoAsk}] /\ member \in [RoomIds -> {"join", "invite", "leave"}]

(***************************************************************************)
(* However many messages or notices there are at once, the bridge makes    *)
(* one room, unless making one failed, or the bridge was restarted when    *)
(* the store did not have the room it had made, or the user gave the room  *)
(* up after a restart.  An admin room is also made twice when a lookup in  *)
(* the store was overtaken by the whole creation.                          *)
(***************************************************************************)
RoomsDoNotMultiply ==
  excuse \/ Cardinality({i \in DOMAIN rooms : rooms[i] = "bridge"}) <= 1
=============================================================================
