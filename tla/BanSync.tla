------------------------------- MODULE BanSync -------------------------------
(***************************************************************************)
(* The ban lists (src/src/bridge/MatrixBanSync.ts): rules are state events *)
(* of policy rooms, read when the configuration is loaded and followed by  *)
(* their events; a client of a banned user is killed (ClientPool.ts).      *)
(*                                                                         *)
(* One Matrix user, whom every rule matches.  Each rule names him or his   *)
(* server: its type; a rule is a policy room, a state key and a type.      *)
(***************************************************************************)
EXTENDS Naturals, Sequences, FiniteSets, SequencesExt

CONSTANTS PolicyRooms, Keys, Types,
          BanReads,      \* readings of the rules, by onConfigChanged or run
          MaxChanges    \* changes of rules

ASSUME BanSyncAssumption == IsFiniteSet(PolicyRooms) /\ MaxChanges \in Nat

VARIABLES
  policy,      \* the rules in the rooms' state
  changes,     \* how often it changed
  banNews,     \* events about rules the bridge has not handled
  banned,      \* bannedEntites: the keys in it
  subscribed,  \* subscribedRooms
  reads,       \* each reading: the rooms to come, what it does, the state it got
  client,      \* the user's client
  unsure       \* history: keys that may be wrong, and clients killed in vain

banVars == <<policy, changes, banNews, banned, subscribed, reads, client, unsure>>

Rules == PolicyRooms \X Keys \X Types
KeyOf(rule) == <<rule[1], rule[2]>>
AllKeys == PolicyRooms \X Keys
RulesOf(key) == {rule \in policy : KeyOf(rule) = key}
IsBanned == banned # {}

BanInit ==
  /\ policy = {} /\ changes = 0 /\ banNews = <<>>
  /\ banned = {} /\ subscribed = {}
  /\ reads = [s \in BanReads |-> [pc |-> "idle", todo |-> <<>>, got |-> {}]]
  /\ client = "none" /\ unsure = [keys |-> {}, killed |-> FALSE]
------------------------------------------------------------------------------
\* Someone adds a rule to a list, or empties it.
PolicyChanges(rule) ==
  /\ changes < MaxChanges /\ changes' = changes + 1
  /\ policy' = IF rule \in policy THEN policy \ {rule} ELSE policy \cup {rule}
  /\ banNews' = Append(banNews, [rule |-> rule, set |-> rule \notin policy])
  /\ unsure' = IF RulesOf(KeyOf(rule)) \ {rule} = {} THEN unsure
               ELSE [unsure EXCEPT !.keys = @ \cup {KeyOf(rule)}]
  /\ UNCHANGED <<banned, subscribed, reads, client>>

Read(s, pc, todo, got) ==
  reads' = [reads EXCEPT ![s] = [pc |-> pc, todo |-> todo, got |-> got]]

\* syncRules.  The rooms are those of the configuration the bridge started with: a
\* reload reads the rules again, but nobody calls updateConfig.
SyncRules(s) ==
  /\ reads[s].pc = "idle"
  /\ Read(s, "join", SetToSeq(PolicyRooms), {})
  /\ banned' = {} /\ subscribed' = {}
  /\ UNCHANGED <<policy, changes, banNews, client, unsure>>

Subject(s) == Head(reads[s].todo)
Skipped(s) ==
  /\ Read(s, "join", Tail(reads[s].todo), {})
  /\ unsure' = [unsure EXCEPT !.keys = @ \cup ({Subject(s)} \X Keys)]

\* The bot is in the room, and the homeserver is asked for its state.
Join(s) ==
  /\ reads[s].pc = "join" /\ reads[s].todo # <<>>
  /\ \/ /\ subscribed' = subscribed \cup {Subject(s)}
        /\ Read(s, "ask", reads[s].todo, {}) /\ UNCHANGED unsure
     \/ Skipped(s) /\ UNCHANGED subscribed
  /\ UNCHANGED <<policy, changes, banNews, banned, client>>
RoomState(s) ==
  /\ reads[s].pc = "ask"
  /\ \/ Read(s, "apply", reads[s].todo, policy) /\ UNCHANGED unsure
     \/ Skipped(s)
  /\ UNCHANGED <<policy, changes, banNews, banned, subscribed, client>>

\* handleIncomingState of each event; a rule without an entity deletes the key.
\* History: a key that changed meanwhile, the event of which was handled already.
Outdated(key, set) ==
  /\ key \in set <=> RulesOf(key) = {}
  /\ \A i \in DOMAIN banNews : KeyOf(banNews[i].rule) # key
Apply(s) ==
  LET here == {Subject(s)} \X Keys
      set == {KeyOf(rule) : rule \in reads[s].got} IN
  /\ reads[s].pc = "apply"
  /\ banned' = (banned \ here) \cup (set \cap here)
  /\ Read(s, "join", Tail(reads[s].todo), {})
  /\ unsure' = [unsure EXCEPT !.keys = @ \cup {key \in here : Outdated(key, set)}]
  /\ UNCHANGED <<policy, changes, banNews, subscribed, client>>

\* checkForBannedConnectedUsers: to kill a client that is still connecting does
\* not stop it.
Checked(keys) == IF keys # {} /\ client = "connected" THEN "none" ELSE client
Doubt(keys) == [unsure EXCEPT !.killed = @ \/ (keys # {} /\ client = "connecting")]

\* onConfigChanged goes on after the reading.
Reloaded(s) ==
  /\ reads[s].pc = "join" /\ reads[s].todo = <<>>
  /\ Read(s, "done", <<>>, {})
  /\ client' = Checked(banned) /\ unsure' = Doubt(banned)
  /\ UNCHANGED <<policy, changes, banNews, banned, subscribed>>

\* An event of a subscribed room; all others are not about rules.
HandleAdded ==
  LET key == KeyOf(Head(banNews).rule) IN
  /\ banNews # <<>> /\ banNews' = Tail(banNews)
  /\ IF key[1] \in subscribed /\ Head(banNews).set
     THEN banned' = banned \cup {key} /\ client' = Checked(banned') /\ unsure' = Doubt(banned')
     ELSE UNCHANGED <<banned, client, unsure>>
  /\ UNCHANGED <<policy, changes, subscribed, reads>>
HandleIncomingState ==
  LET key == KeyOf(Head(banNews).rule) IN
  /\ banNews # <<>> /\ banNews' = Tail(banNews)
  /\ IF key[1] \notin subscribed THEN UNCHANGED <<banned, client, unsure>>
     ELSE IF Head(banNews).set
          THEN banned' = banned \cup {key} /\ client' = Checked(banned') /\ unsure' = Doubt(banned')
          ELSE banned' = banned \ {key} /\ UNCHANGED <<client, unsure>>
  /\ UNCHANGED <<policy, changes, subscribed, reads>>

\* createIrcClient refuses who is banned; then connecting takes a while.
CreateIrcClient ==
  /\ client = "none" /\ ~IsBanned /\ client' = "connecting"
  /\ UNCHANGED <<policy, changes, banNews, banned, subscribed, reads, unsure>>
Connects ==
  /\ client = "connecting" /\ client' \in {"connected", "none"}
  /\ UNCHANGED <<policy, changes, banNews, banned, subscribed, reads, unsure>>
------------------------------------------------------------------------------
BanNext ==
  \/ \E rule \in Rules : PolicyChanges(rule)
  \/ \E s \in BanReads : SyncRules(s) \/ Join(s) \/ RoomState(s) \/ Apply(s) \/ Reloaded(s)
  \/ HandleIncomingState \/ CreateIrcClient \/ Connects
BanSpec == BanInit /\ [][BanNext]_banVars
------------------------------------------------------------------------------
BanTypeOK ==
  /\ policy \subseteq Rules /\ changes \in 0..MaxChanges /\ banNews \in Seq([rule: Rules, set: BOOLEAN])
  /\ banned \subseteq AllKeys /\ subscribed \subseteq PolicyRooms
  /\ reads \in [BanReads -> [pc : {"idle", "join", "ask", "apply", "done"}, todo : Seq(PolicyRooms),
                            got : SUBSET Rules]]
  /\ client \in {"none", "connecting", "connected"}
  /\ unsure \in [keys : SUBSET AllKeys, killed : BOOLEAN]

RulesRead ==
  /\ banNews = <<>> /\ \A s \in BanReads : reads[s].pc \in {"idle", "done"}
  /\ \E s \in BanReads : reads[s].pc = "done"

(***************************************************************************)
(* When nothing is under way the rules are those of the configured lists   *)
(* and nobody is connected whom they ban.  Exceptions: a list that could   *)
(* not be read; a rule that changed after the state was read and before it *)
(* was applied; two rules of one state key; a client killed while it was   *)
(* still connecting.                                                       *)
(***************************************************************************)
BansHold ==
  RulesRead => /\ \A key \in AllKeys \ unsure.keys : key \in banned <=> RulesOf(key) # {}
               /\ IsBanned /\ ~unsure.killed => client # "connected"
=============================================================================
