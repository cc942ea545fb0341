----------------------------- MODULE MemberLists -----------------------------
(***************************************************************************)
(* The members of a room and of its channel are brought together when the  *)
(* bridge starts, while members already come and go                        *)
(* (src/src/bridge/MemberListSyncer.ts, IrcBridge.run, and joins and       *)
(* leaves in MatrixHandler.ts).                                            *)
(*                                                                         *)
(* One room, one channel, a bridge bot.  Nothing in the start waits for    *)
(* the lists but the joins of Matrix users.  What a client does to join is *)
(* in Channels; what is queued for the homeserver is done at once here     *)
(* (Netsplit has the order of such requests).                              *)
(***************************************************************************)
EXTENDS Naturals, Sequences

CONSTANTS Matrixers,     \* Matrix users
          Ghosts,        \* IRC users, and their Matrix users
          JoinIfNoUsers, \* joinChannelsIfNoUsers, TRUE by default
          MaxMoves       \* joins and leaves while the bridge runs

ASSUME MembersAssumption == MaxMoves \in Nat /\ JoinIfNoUsers \in BOOLEAN

VARIABLES
  here,      \* who is in the room: reals and ghosts
  channel,   \* IRC users in the channel
  moved,     \* how many came or left
  fetched,   \* the room as fetched by getSyncableRooms: <<>> or <<room>>
  lists,     \* memberLists: ghosts of the room, nicks of the channel; <<>> if none
  entries,   \* memberEntriesToSync
  found,     \* discoverPoolConnectedClients is done
  bot,       \* away, up, or in the channel
  wanted,    \* the bot is to join
  client,    \* none, connecting, up, or in the channel
  handling,  \* users whose join waits for their client
  unread,    \* member events of Matrix users
  steps,     \* a list of names, or a part of the bot, that waits for its rooms
  overtaken, \* history: users whose leave was handled before their join
  missed     \* history: names or parts the lists could not be used for

start == <<fetched, lists, entries, found>>
sides == <<here, channel, moved>>
history == <<overtaken, missed>>
memberVars == <<sides, start, bot, wanted, client, handling, unread, steps, history>>

\* Ghosts may have been left in the room by an earlier run of the bridge.
MembersInit ==
  /\ here \in [reals : SUBSET Matrixers, ghosts : SUBSET Ghosts]
  /\ channel \in SUBSET Ghosts /\ moved = 0
  /\ fetched = <<>> /\ lists = [matrix |-> <<>>, irc |-> <<>>] /\ entries = {} /\ found = FALSE
  /\ bot = "away" /\ wanted = JoinIfNoUsers
  /\ client = [u \in Matrixers |-> "none"] /\ handling = {} /\ unread = <<>>
  /\ steps = [names |-> <<>>, parting |-> FALSE] /\ overtaken = {} /\ missed = FALSE
------------------------------------------------------------------------------
Present == bot = "in" \/ \E u \in Matrixers : client[u] = "in"
Move == moved < MaxMoves /\ moved' = moved + 1

\* Joins and parts in the channel are bridged if someone of the bridge sees them.
IrcMoves(g) ==
  /\ Move /\ channel' = IF g \in channel THEN channel \ {g} ELSE channel \cup {g}
  /\ IF Present THEN here' = [here EXCEPT !.ghosts = IF g \in channel THEN @ \ {g} ELSE @ \cup {g}]
     ELSE UNCHANGED here
  /\ missed' = (missed \/ (Present /\ steps.names # <<>>) \/ (~Present /\ lists.irc # <<>>))
  /\ UNCHANGED <<start, bot, wanted, client, handling, unread, steps, overtaken>>

MatrixMoves(u) ==
  /\ Move /\ here' = [here EXCEPT !.reals = IF u \in @ THEN @ \ {u} ELSE @ \cup {u}]
  /\ unread' = Append(unread, [user |-> u, kind |-> IF u \in here.reals THEN "leave" ELSE "join"])
  /\ UNCHANGED <<channel, start, bot, wanted, client, handling, steps, history>>
------------------------------------------------------------------------------
\* sync: rooms without Matrix users are not listed.
FetchRooms ==
  /\ fetched = <<>> /\ fetched' = <<here>>
  /\ UNCHANGED <<sides, lists, entries, found, bot, wanted, client, handling, unread, steps, history>>
CollectEntries ==
  /\ fetched # <<>> /\ lists.matrix = <<>>
  /\ LET info == Head(fetched) IN
     /\ lists' = [lists EXCEPT !.matrix = <<IF info.reals = {} THEN {} ELSE info.ghosts>>]
     /\ entries' = info.reals
     /\ missed' = (missed \/ lists.irc # <<>> \/ info.reals = {})
  /\ UNCHANGED <<sides, fetched, found, bot, wanted, client, handling, unread, steps, overtaken>>
Discover ==
  /\ ~found /\ found' = TRUE
  /\ UNCHANGED <<sides, fetched, lists, entries, bot, wanted, client, handling, unread, steps, history>>

\* onJoin: the bot joins, and the user's client is awaited.
Handle(u) ==
  /\ handling' = handling \cup {u} /\ wanted' = TRUE
  /\ client' = [client EXCEPT ![u] = IF @ = "none" THEN "connecting" ELSE @]

\* joinMatrixUsersToChannels.  The flood delay limits how long one join is awaited, and
\* the next one is injected even if it failed.
InjectFirst(u) ==
  /\ lists.matrix # <<>> /\ found /\ u \in entries /\ entries' = {} /\ Handle(u)
  /\ UNCHANGED <<sides, fetched, lists, found, bot, unread, steps, history>>
InjectJoin(u) ==
  /\ lists.matrix # <<>> /\ found /\ u \in entries /\ entries' = entries \ {u} /\ Handle(u)
  /\ overtaken' = IF u \in here.reals THEN overtaken ELSE overtaken \cup {u}
  /\ UNCHANGED <<sides, fetched, lists, found, bot, unread, steps, missed>>

OnJoin ==
  /\ unread # <<>> /\ Head(unread).kind = "join" /\ unread' = Tail(unread)
  /\ Handle(Head(unread).user) /\ overtaken' = overtaken \ {Head(unread).user}
  /\ UNCHANGED <<sides, start, bot, steps, missed>>

\* onLeave and onKick: a client that is not in the channel has nothing to leave, even
\* when its join is under way.  After a leave the bot looks whether it is needed.
OnLeave ==
  /\ unread # <<>> /\ Head(unread).kind # "join" /\ unread' = Tail(unread)
  /\ LET u == Head(unread).user IN
     /\ client' = [client EXCEPT ![u] = IF @ = "in" THEN "up" ELSE @]
     /\ overtaken' = IF u \in handling THEN overtaken \cup {u} ELSE overtaken
     /\ steps' = [steps EXCEPT !.parting =
                    @ \/ (/\ ~JoinIfNoUsers /\ Head(unread).kind = "leave"
                          /\ client[u] # "none" /\ here.reals = {})]
  /\ UNCHANGED <<sides, start, bot, wanted, handling, missed>>

\* A client that cannot connect costs its user the membership, if so configured.
ClientConnects(u) ==
  /\ client[u] = "connecting"
  /\ \/ client' = [client EXCEPT ![u] = "up"] /\ UNCHANGED <<handling, here, unread>>
     \/ /\ client' = [client EXCEPT ![u] = "none"] /\ handling' = handling \ {u}
        /\ here' = [here EXCEPT !.reals = @ \ {u}]
        /\ unread' = IF u \in here.reals THEN Append(unread, [user |-> u, kind |-> "kick"]) ELSE unread
  /\ UNCHANGED <<channel, moved, start, bot, wanted, steps, history>>
------------------------------------------------------------------------------
\* Who joins is sent the names.  The first list is compared with the room, after an
\* await; all names become members.
NamesUnsynced ==
  /\ steps' = [steps EXCEPT !.names = IF lists.irc = <<>> THEN <<channel>> ELSE @]
  /\ lists' = [lists EXCEPT !.irc = IF @ = <<>> THEN <<channel>> ELSE @]
  /\ missed' = (missed \/ lists.matrix = <<>>) /\ UNCHANGED here
Names ==
  /\ steps' = [steps EXCEPT !.names = IF lists.irc = <<>> THEN <<channel>> ELSE @]
  /\ lists' = [lists EXCEPT !.irc = IF @ = <<>> THEN <<channel>> ELSE @]
  /\ here' = [here EXCEPT !.ghosts = @ \cup channel]
  /\ missed' = (missed \/ lists.matrix = <<>>)

ClientJoins(u) ==
  /\ u \in handling /\ client[u] \in {"up", "in"} /\ handling' = handling \ {u}
  /\ client' = [client EXCEPT ![u] = "in"]
  /\ IF client[u] = "up" THEN Names ELSE UNCHANGED <<steps, lists, here, missed>>
  /\ UNCHANGED <<channel, moved, fetched, entries, found, bot, wanted, unread, overtaken>>

\* loginToServer: without joinChannelsIfNoUsers, the bot waits for the rooms.
BotConnects ==
  /\ bot = "away" /\ (JoinIfNoUsers \/ lists.matrix # <<>>) /\ bot' = "up"
  /\ wanted' = (wanted \/ Head(fetched).reals # {})
  /\ UNCHANGED <<sides, start, client, handling, unread, steps, history>>
BotJoins ==
  /\ bot = "up" /\ wanted /\ bot' = "in" /\ Names
  /\ UNCHANGED <<channel, moved, fetched, entries, found, wanted, client, handling, unread, overtaken>>
BotParts ==
  /\ steps.parting /\ steps' = [steps EXCEPT !.parting = FALSE]
  /\ bot' = (IF bot = "in" THEN "up" ELSE bot) /\ wanted' = (bot = "in" => FALSE) /\ bot # "away"
  /\ UNCHANGED <<sides, start, client, handling, unread, history>>

\* updateIrcMemberList goes on: who was in the room at the start and is not named leaves.
LeaveUsersInRoom ==
  /\ steps.names # <<>> /\ steps' = [steps EXCEPT !.names = <<>>]
  /\ LET gone == IF lists.matrix = <<>> THEN {} ELSE Head(lists.matrix) \ Head(steps.names) IN
     here' = [here EXCEPT !.ghosts = @ \ gone]
  /\ UNCHANGED <<channel, moved, start, bot, wanted, client, handling, unread, history>>
------------------------------------------------------------------------------
MembersStep ==
  \/ FetchRooms \/ CollectEntries \/ Discover \/ OnJoin \/ OnLeave
  \/ BotConnects \/ BotJoins \/ BotParts \/ LeaveUsersInRoom
  \/ \E u \in Matrixers : InjectJoin(u) \/ ClientConnects(u) \/ ClientJoins(u)
MembersNext ==
  \/ MembersStep
  \/ \E g \in Ghosts : IrcMoves(g)
  \/ \E u \in Matrixers : MatrixMoves(u)
\* Promises settle, timers fire and the server answers.
MembersSpec == MembersInit /\ [][MembersNext]_memberVars /\ WF_memberVars(MembersStep)
------------------------------------------------------------------------------
MembersTypeOK ==
  /\ here.reals \subseteq Matrixers /\ here.ghosts \subseteq Ghosts /\ channel \subseteq Ghosts
  /\ moved \in 0..MaxMoves /\ entries \subseteq Matrixers /\ handling \subseteq Matrixers
  /\ bot \in {"away", "up", "in"} /\ client \in [Matrixers -> {"none", "connecting", "up", "in"}]

(***************************************************************************)
(* In the end those have a client in the channel who are in the room, in   *)
(* whatever order the start and their own joins and leaves are handled.    *)
(* Exception: who left while his join waited for the client, or after he   *)
(* was listed: he stays in the channel.                                    *)
(***************************************************************************)
EveryoneFollows ==
  <>[](\A u \in Matrixers \ overtaken : u \in here.reals <=> client[u] = "in")

Started == lists.matrix # <<>> /\ lists.irc # <<>> /\ steps.names = <<>> /\ Present

(***************************************************************************)
(* Once the start is over, the ghosts in the room are the IRC users in the *)
(* channel, those left by an earlier run included.  Exceptions are what    *)
(* the lists miss: names read before the room was listed, rooms without    *)
(* Matrix users, moves of IRC users during the comparison or out of sight. *)
(***************************************************************************)
GhostsFollow == Started /\ ~missed => here.ghosts = channel
=============================================================================
