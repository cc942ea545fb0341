----------------------------- MODULE Rooms_proofs -----------------------------
(***************************************************************************)
(* The rooms of the bridge: who is in them (Privacy), who is banned from   *)
(* them (BanSync), what their members may do (RoomAccess), the rooms the   *)
(* bridge makes for one user (PrivateRooms), and that a room's place in    *)
(* the directory follows the modes of its channels (ChannelModes).         *)
(***************************************************************************)
EXTENDS Privacy, BanSync, RoomAccess, PrivateRooms, ChannelModes,
        SequenceTheorems, FiniteSetTheorems, TLAPS
------------------------------------------------------------------------------
Kinds == {"member", "keyed", "global"}
MessageSteps == {"idle", "ask config", "config read", "config", "allowed", "ask members", "members read", "safe", "dropped"}
MessageType == [pc : MessageSteps, got : SUBSET Members, answer : Settings]

PrivacyTypes ==
  /\ PrivacyTypeOK
  /\ messages \in [Messages -> MessageType]
  /\ doubt \in [members : BOOLEAN, config : BOOLEAN]
  /\ members = "none" \/ \E who \in SUBSET Members : members = <<who>>

\* While no event about members is to be handled, what is cached and what a message has
\* read are the members of the room; the same of the configuration.
MembersRight ==
  ~Contains(news, "member") /\ ~doubt.members =>
    /\ members = "none" \/ members = <<joinedRoom>>
    /\ \A m \in Messages : messages[m].pc = "members read" => messages[m].got = joinedRoom
ConfigRight ==
  ~Contains(news, "keyed") /\ ~Contains(news, "global") /\ ~doubt.config =>
    /\ configs = "none" \/ configs = Configured
    /\ \A m \in Messages : messages[m].pc = "config read" => messages[m].answer = Configured
PInv == PrivacyTypes /\ MembersRight /\ ConfigRight
------------------------------------------------------------------------------
LEMMA TypeFacts ==
  ASSUME PrivacyTypes
  PROVE  /\ joinedRoom \subseteq Members /\ onIrc \subseteq Members /\ sync \subseteq Members
         /\ setting \in [keyed : Settings, global : Settings] /\ configs \in Settings \cup {"none"}
         /\ news \in Seq(Kinds) /\ blocked \in BOOLEAN /\ changed \in 0..MaxEvents
         /\ messages \in [Messages -> MessageType]
         /\ doubt \in [members : BOOLEAN, config : BOOLEAN]
         /\ members = "none" \/ \E who \in SUBSET Members : members = <<who>>
  BY DEF PrivacyTypes, PrivacyTypeOK, Kinds

LEMMA TypeParts ==
  ASSUME joinedRoom' \subseteq Members, onIrc' \subseteq Members, sync' \subseteq Members,
         setting' \in [keyed : Settings, global : Settings], configs' \in Settings \cup {"none"},
         news' \in Seq(Kinds), blocked' \in BOOLEAN, changed' \in 0..MaxEvents,
         messages' \in [Messages -> MessageType],
         doubt' \in [members : BOOLEAN, config : BOOLEAN],
         members' = "none" \/ \E who \in SUBSET Members : members' = <<who>>
  PROVE  PrivacyTypes'
  BY DEF PrivacyTypes, PrivacyTypeOK, Kinds, MessageType

\* Events are added at the end and handled from the front.
LEMMA NewsAdded ==
  ASSUME NEW s \in Seq(Kinds), NEW e \in Kinds
  PROVE  /\ Append(s, e) \in Seq(Kinds) /\ Contains(Append(s, e), e)
         /\ \A x : Contains(s, x) => Contains(Append(s, e), x)
<1>1. Append(s, e) \in Seq(Kinds) /\ Len(Append(s, e)) = Len(s) + 1 /\ Append(s, e)[Len(s) + 1] = e
  BY AppendProperties
<1>2. \A i \in 1..Len(s) : Append(s, e)[i] = s[i]
  BY AppendProperties
<1>3. Len(s) \in Nat
  BY LenProperties
<1>4. Contains(Append(s, e), e)
  BY <1>1, <1>3 DEF Contains
<1>5. ASSUME NEW x, Contains(s, x) PROVE Contains(Append(s, e), x)
  <2>1. PICK i \in 1..Len(s) : s[i] = x
    BY <1>5 DEF Contains
  <2>2. i \in 1..Len(Append(s, e)) /\ Append(s, e)[i] = x
    BY <1>1, <1>2, <1>3, <2>1
  <2> QED BY <2>2 DEF Contains
<1> QED BY <1>1, <1>4, <1>5

LEMMA NewsHandled ==
  ASSUME NEW s \in Seq(Kinds), s # <<>>
  PROVE  /\ Tail(s) \in Seq(Kinds) /\ Head(s) \in Kinds
         /\ \A x : Contains(s, x) => x = Head(s) \/ Contains(Tail(s), x)
<1>1. Tail(s) \in Seq(Kinds) /\ Head(s) \in Kinds
  OBVIOUS
<1>2. ASSUME NEW x, Contains(s, x), x # Head(s) PROVE Contains(Tail(s), x)
  <2>1. PICK i \in 1..Len(s) : s[i] = x
    BY <1>2 DEF Contains
  <2>2. i # 1
    BY <1>2, <2>1
  <2>3. i - 1 \in 1..Len(Tail(s)) /\ Tail(s)[i - 1] = x
    BY <2>1, <2>2
  <2> QED BY <2>3 DEF Contains
<1> QED BY <1>1, <1>2

LEMMA NoNews ==
  ASSUME NEW x
  PROVE  ~Contains(<<>>, x)
  BY DEF Contains
------------------------------------------------------------------------------
(* MessageSteps of messages.                                                      *)

\* What a message may put into the caches.
Caches(m) ==
  /\ \/ members' = members
     \/ members' = <<messages[m].got>> /\ messages[m].pc = "members read"
  /\ \/ configs' \in {configs, "none"}
     \/ configs' = messages[m].answer /\ messages[m].pc = "config read"

\* A step of one message that reads nothing keeps what is right.
LEMMA MessageMoves ==
  ASSUME PInv, NEW m \in Messages, messages' \in [Messages -> MessageType],
         \A n \in Messages \ {m} : messages'[n] = messages[n],
         messages'[m].pc = "members read" => messages'[m].got = joinedRoom,
         messages'[m].pc = "config read" => messages'[m].answer = Configured,
         Caches(m),
         sync' \subseteq Members, blocked' \in BOOLEAN,
         UNCHANGED <<joinedRoom, onIrc, setting, news, changed, doubt>>
  PROVE  PInv'
<1>2. messages[m] \in MessageType
  BY TypeFacts DEF PInv
<1>3. /\ members' = "none" \/ \E who \in SUBSET Members : members' = <<who>>
      /\ configs' \in Settings \cup {"none"}
  BY <1>2, TypeFacts DEF PInv, MessageType, Caches
<1>4. PrivacyTypes'
  BY <1>3, TypeFacts, TypeParts DEF PInv
<1>5. MembersRight'
  BY <1>2 DEF PInv, MembersRight, Caches
<1>6. ConfigRight'
  <2>1. Configured' = Configured
    BY DEF Configured
  <2> QED BY <1>2, <2>1 DEF PInv, ConfigRight, Caches
<1> QED BY <1>4, <1>5, <1>6 DEF PInv

LEMMA MessageReads ==
  ASSUME PInv, NEW m \in Messages
  PROVE  messages[m].got \in SUBSET Members /\ messages[m].answer \in Settings /\ messages[m].pc \in MessageSteps
  BY TypeFacts DEF PInv, MessageType

\* A step that only moves the message on.
LEMMA MovesOn ==
  ASSUME PInv, NEW m \in Messages, NEW pc \in MessageSteps \ {"members read", "config read"}, GoesTo(m, pc),
         Caches(m),
         sync' \subseteq Members, blocked' \in BOOLEAN,
         UNCHANGED <<joinedRoom, onIrc, setting, news, changed, doubt>>
  PROVE  PInv'
<1>1. /\ messages' \in [Messages -> MessageType] /\ messages'[m].pc = pc
      /\ \A n \in Messages \ {m} : messages'[n] = messages[n]
  BY TypeFacts DEF PInv, GoesTo, MessageType
<1> QED BY <1>1, MessageMoves

\* A step after which the message has something it read.
LEMMA HasKeeps ==
  ASSUME PInv, NEW m \in Messages, NEW pc \in MessageSteps, NEW got \in SUBSET Members, NEW a \in Settings,
         Has(m, pc, got, a),
         pc = "members read" => got = joinedRoom, pc = "config read" => a = Configured,
         UNCHANGED <<joinedRoom, onIrc, setting, news, members, configs, sync, blocked, changed, doubt>>
  PROVE  PInv'
<1>1. /\ messages' \in [Messages -> MessageType]
      /\ messages'[m].pc = pc /\ messages'[m].got = got /\ messages'[m].answer = a
      /\ \A n \in Messages \ {m} : messages'[n] = messages[n]
  BY TypeFacts DEF PInv, Has, MessageType
<1> QED BY <1>1, MessageMoves, TypeFacts DEF PInv, Caches

LEMMA AsksKeep ==
  ASSUME PInv, NEW m \in Messages,
         Arrives(m) \/ ReadConfig(m) \/ ConfigTimeout(m) \/ ReadMembers(m)
  PROVE  PInv'
<1>0. /\ {"ask config", "config", "config read", "members read"} \subseteq MessageSteps
      /\ "unset" \in Settings /\ Configured \in Settings /\ joinedRoom \in SUBSET Members
      /\ configs # "none" => configs \in Settings
  BY TypeFacts DEF PInv, MessageSteps, Settings, Configured
<1>1. UNCHANGED <<joinedRoom, onIrc, setting, news, members, configs, sync, blocked, changed, doubt>>
  BY DEF Arrives, ReadConfig, ConfigTimeout, ReadMembers
<1>2. CASE Has(m, "ask config", messages[m].got, "unset")
  BY <1>0, <1>1, <1>2, MessageReads, HasKeeps
<1>3. CASE configs # "none" /\ Has(m, "config", messages[m].got, configs)
  BY <1>0, <1>1, <1>3, MessageReads, HasKeeps
<1>4. CASE Has(m, "config read", messages[m].got, Configured)
  BY <1>0, <1>1, <1>4, MessageReads, HasKeeps
<1>5. CASE Has(m, "config", messages[m].got, "unset")
  BY <1>0, <1>1, <1>5, MessageReads, HasKeeps
<1>6. CASE Has(m, "members read", joinedRoom, messages[m].answer)
  BY <1>0, <1>1, <1>6, MessageReads, HasKeeps
<1> QED BY <1>2, <1>3, <1>4, <1>5, <1>6 DEF Arrives, ReadConfig, ConfigTimeout, ReadMembers

LEMMA DecidesTypes ==
  ASSUME PInv, NEW m \in Messages, NEW who, Decides(m, who)
  PROVE  /\ \E pc \in {"safe", "dropped"} : GoesTo(m, pc)
         /\ sync' \subseteq Members /\ blocked' \in BOOLEAN
  BY TypeFacts DEF PInv, Decides, Block

LEMMA MessageKeeps ==
  ASSUME PInv, NEW m \in Messages,
         \/ Arrives(m) \/ ReadConfig(m) \/ ConfigRead(m) \/ ConfigTimeout(m) \/ Allowed(m)
         \/ AsksMembers(m) \/ ReadMembers(m) \/ MembersKnown(m) \/ MembersRead(m)
  PROVE  PInv'
<1>0. {"config", "allowed", "ask members", "safe", "dropped"} \subseteq MessageSteps \ {"members read", "config read"}
  BY DEF MessageSteps
<1>1. CASE ConfigRead(m)
  <2>1. /\ GoesTo(m, "config") /\ UNCHANGED <<joinedRoom, onIrc, setting, news, members, sync, blocked, changed, doubt>>
        /\ Caches(m)
    BY <1>1 DEF ConfigRead, Caches
  <2> QED BY <1>0, <2>1, MovesOn, TypeFacts DEF PInv, Caches
<1>2. CASE Allowed(m)
  <2>1. /\ GoesTo(m, "allowed")
        /\ UNCHANGED <<joinedRoom, onIrc, setting, news, members, configs, sync, blocked, changed, doubt>>
    BY <1>2 DEF Allowed
  <2> QED BY <1>0, <2>1, MovesOn, TypeFacts DEF PInv, Caches
<1>3. CASE AsksMembers(m)
  <2>1. /\ GoesTo(m, "ask members")
        /\ UNCHANGED <<joinedRoom, onIrc, setting, news, members, configs, sync, blocked, changed, doubt>>
    BY <1>3 DEF AsksMembers
  <2> QED BY <1>0, <2>1, MovesOn, TypeFacts DEF PInv, Caches
<1>4. CASE MembersKnown(m)
  <2>1. (\E who : Decides(m, who)) /\ UNCHANGED <<joinedRoom, onIrc, setting, news, members, configs, changed, doubt>>
    BY <1>4 DEF MembersKnown
  <2>2. Caches(m)
    BY <2>1 DEF Caches
  <2> QED BY <1>0, <2>1, <2>2, DecidesTypes, MovesOn
<1>5. CASE MembersRead(m)
  <2>1. /\ (\E who : Decides(m, who)) /\ UNCHANGED <<joinedRoom, onIrc, setting, news, configs, changed, doubt>>
        /\ Caches(m)
    BY <1>5 DEF MembersRead, Caches
  <2> QED BY <1>0, <2>1, DecidesTypes, MovesOn
<1> QED BY <1>1, <1>2, <1>3, <1>4, <1>5, AsksKeep
------------------------------------------------------------------------------
(* MessageSteps of the room and its events.                                       *)

LEMMA MemberNews ==
  ASSUME PInv, news' = Append(news, "member"), joinedRoom' \subseteq Members, onIrc' \subseteq Members,
         sync' \subseteq Members, changed' \in 0..MaxEvents,
         UNCHANGED <<setting, members, configs, messages, blocked, doubt>>
  PROVE  PInv'
<1>1. /\ news' \in Seq(Kinds) /\ Contains(news', "member")
      /\ Contains(news, "keyed") => Contains(news', "keyed")
      /\ Contains(news, "global") => Contains(news', "global")
  BY NewsAdded, TypeFacts DEF PInv, Kinds
<1>2. PrivacyTypes'
  BY <1>1, TypeFacts, TypeParts DEF PInv
<1>3. MembersRight' /\ ConfigRight'
  BY <1>1 DEF PInv, MembersRight, ConfigRight, Configured
<1> QED BY <1>2, <1>3 DEF PInv

LEMMA ConfigNews ==
  ASSUME PInv, NEW key \in {"keyed", "global"}, NEW s \in Settings, ConfigChanges(key, s)
  PROVE  PInv'
<1>1. /\ news' \in Seq(Kinds) /\ Contains(news', key)
      /\ Contains(news, "member") => Contains(news', "member")
  BY NewsAdded, TypeFacts DEF PInv, Kinds, ConfigChanges
<1>2. changed' \in 0..MaxEvents
  BY TypeFacts, PrivacyAssumption DEF PInv, ConfigChanges, Change
<1>3. setting' \in [keyed : Settings, global : Settings]
  BY TypeFacts DEF PInv, ConfigChanges
<1>4. UNCHANGED <<joinedRoom, onIrc, members, configs, messages, sync, blocked, doubt>>
  BY DEF ConfigChanges
<1>5. PrivacyTypes'
  BY <1>1, <1>2, <1>3, <1>4, TypeFacts, TypeParts DEF PInv
<1>6. MembersRight' /\ ConfigRight'
  BY <1>1, <1>4 DEF PInv, MembersRight, ConfigRight
<1> QED BY <1>5, <1>6 DEF PInv

\* A step that has nothing to do with members or configuration.
LEMMA Elsewhere ==
  ASSUME PInv, onIrc' \subseteq Members, sync' \subseteq Members, changed' \in 0..MaxEvents,
         UNCHANGED <<joinedRoom, setting, news, members, configs, messages, blocked, doubt>>
  PROVE  PInv'
<1>1. PrivacyTypes'
  BY TypeFacts, TypeParts DEF PInv
<1>2. MembersRight' /\ ConfigRight'
  BY DEF PInv, MembersRight, ConfigRight, Configured
<1> QED BY <1>1, <1>2 DEF PInv

LEMMA RoomKeeps ==
  ASSUME PInv,
         \/ \E u \in Members : MemberChanges(u) \/ LeavesChannel(u) \/ SyncMember(u)
         \/ \E b \in BOOLEAN : StateSent(b)
  PROVE  PInv'
<1>1. ASSUME NEW u \in Members, MemberChanges(u) PROVE PInv'
  BY <1>1, MemberNews, TypeFacts, PrivacyAssumption DEF PInv, MemberChanges, Change
<1>2. ASSUME NEW u \in Members, LeavesChannel(u) PROVE PInv'
  BY <1>2, Elsewhere, TypeFacts, PrivacyAssumption DEF PInv, LeavesChannel, Change
<1>3. ASSUME NEW u \in Members, SyncMember(u) PROVE PInv'
  <2>1. CASE news' = Append(news, "member")
    BY <1>3, <2>1, MemberNews, TypeFacts DEF PInv, SyncMember
  <2>2. CASE UNCHANGED <<joinedRoom, news>>
    BY <1>3, <2>2, Elsewhere, TypeFacts DEF PInv, SyncMember
  <2> QED BY <1>3, <2>1, <2>2 DEF SyncMember
<1>4. ASSUME NEW b \in BOOLEAN, StateSent(b) PROVE PInv'
  BY <1>4, Elsewhere, TypeFacts DEF PInv, StateSent
<1> QED BY <1>1, <1>2, <1>3, <1>4

LEMMA InvalidateKeeps ==
  ASSUME PInv, Invalidate
  PROVE  PInv'
<1>0. /\ news # <<>> /\ news' = Tail(news) /\ news \in Seq(Kinds)
      /\ UNCHANGED <<joinedRoom, onIrc, setting, messages, sync, blocked, changed>>
  BY TypeFacts DEF PInv, Invalidate
<1>1. /\ news' \in Seq(Kinds) /\ Head(news) \in {"member", "keyed", "global"}
      /\ \A x : Contains(news, x) => x = Head(news) \/ Contains(news', x)
  BY <1>0, NewsHandled DEF Kinds
<1>2. Configured' = Configured
  BY <1>0 DEF Configured
<1>3. doubt \in [members : BOOLEAN, config : BOOLEAN] /\ \A pc : Reads(pc) \in BOOLEAN
  BY TypeFacts DEF PInv, Reads
<1>4. CASE Head(news) = "member"
  <2>1. /\ members' = "none" /\ UNCHANGED configs
        /\ doubt' = [doubt EXCEPT !.members = Reads("members read")]
    BY <1>4 DEF Invalidate
  <2>2. /\ doubt'.members = Reads("members read") /\ doubt'.config = doubt.config
        /\ doubt' \in [members : BOOLEAN, config : BOOLEAN]
    BY <1>3, <2>1
  <2>3. PrivacyTypes'
    BY <1>0, <1>1, <2>1, <2>2, TypeFacts, TypeParts DEF PInv
  <2>4. MembersRight'
    BY <1>0, <2>1, <2>2 DEF MembersRight, Reads
  <2>5. ConfigRight'
    BY <1>0, <1>1, <1>2, <1>4, <2>1, <2>2 DEF PInv, ConfigRight
  <2> QED BY <2>3, <2>4, <2>5 DEF PInv
<1>5. CASE Head(news) = "keyed"
  <2>1. /\ configs' = "none" /\ UNCHANGED members
        /\ doubt' = [doubt EXCEPT !.config = Reads("config read")]
    BY <1>5 DEF Invalidate
  <2>2. /\ doubt'.config = Reads("config read") /\ doubt'.members = doubt.members
        /\ doubt' \in [members : BOOLEAN, config : BOOLEAN]
    BY <1>3, <2>1
  <2>3. PrivacyTypes'
    BY <1>0, <1>1, <2>1, <2>2, TypeFacts, TypeParts DEF PInv
  <2>4. ConfigRight'
    BY <1>0, <2>1, <2>2 DEF ConfigRight, Reads
  <2>5. MembersRight'
    BY <1>0, <1>1, <1>5, <2>1, <2>2 DEF PInv, MembersRight
  <2> QED BY <2>3, <2>4, <2>5 DEF PInv
<1>6. CASE Head(news) = "global"
  <2>1. /\ UNCHANGED <<members, configs>>
        /\ doubt' = [doubt EXCEPT !.config = @ \/ configs # "none" \/ Reads("config read")]
    BY <1>6 DEF Invalidate
  <2>2. /\ doubt'.config <=> (doubt.config \/ configs # "none" \/ Reads("config read"))
        /\ doubt'.members = doubt.members
        /\ doubt' \in [members : BOOLEAN, config : BOOLEAN]
    BY <1>3, <2>1
  <2>3. PrivacyTypes'
    BY <1>0, <1>1, <2>1, <2>2, TypeFacts, TypeParts DEF PInv
  <2>4. ConfigRight'
    BY <1>0, <2>1, <2>2 DEF ConfigRight, Reads
  <2>5. MembersRight'
    BY <1>0, <1>1, <1>6, <2>1, <2>2 DEF PInv, MembersRight
  <2> QED BY <2>3, <2>4, <2>5 DEF PInv
<1> QED BY <1>1, <1>4, <1>5, <1>6
------------------------------------------------------------------------------
LEMMA PrivacyStarts ==
  ASSUME PrivacyInit
  PROVE  PInv
<1>1. NewMessage \in MessageType /\ NewMessage.pc = "idle"
  BY DEF NewMessage, MessageType, Settings, MessageSteps
<1>2. <<>> \in Seq({"member", "keyed", "global"})
  BY EmptySeq
<1>3. \A m \in Messages : messages[m] = NewMessage
  BY DEF PrivacyInit
<1>4. messages \in [Messages -> MessageType]
  BY <1>1 DEF PrivacyInit
<1>6. PrivacyTypeOK
  <2>1. \A m \in Messages : messages[m].got \subseteq Members /\ messages[m].answer \in Settings
    BY <1>1, <1>3 DEF MessageType
  <2>2. joinedRoom \subseteq Members /\ onIrc \subseteq Members /\ sync \subseteq Members
    BY DEF PrivacyInit
  <2>3. setting \in [keyed : Settings, global : Settings] /\ configs \in Settings \cup {"none"}
    BY DEF PrivacyInit, Settings
  <2>4. news \in Seq({"member", "keyed", "global"})
    BY <1>2 DEF PrivacyInit
  <2>5. blocked = FALSE /\ changed = 0
    BY DEF PrivacyInit
  <2>6. blocked \in BOOLEAN
    BY <2>5
  <2>7. changed \in 0..MaxEvents
    BY <2>5, PrivacyAssumption
  <2> QED BY <2>1, <2>2, <2>3, <2>4, <2>6, <2>7 DEF PrivacyTypeOK
<1>7. PrivacyTypes
  BY <1>4, <1>6 DEF PrivacyInit, PrivacyTypes
<1>5. MembersRight /\ ConfigRight
  BY <1>1, <1>3 DEF PrivacyInit, MembersRight, ConfigRight
<1> QED BY <1>5, <1>7 DEF PInv

LEMMA PrivacySteps ==
  ASSUME PInv, [PrivacyNext]_privacyVars
  PROVE  PInv'
<1>1. CASE UNCHANGED privacyVars
  <2>1. UNCHANGED <<joinedRoom, onIrc, setting, news, members, configs, messages, sync, blocked, changed, doubt>>
    BY <1>1 DEF privacyVars
  <2> QED BY <2>1, Elsewhere, TypeFacts DEF PInv
<1>2. CASE PrivacyNext
  BY <1>2, RoomKeeps, ConfigNews, InvalidateKeeps, MessageKeeps DEF PrivacyNext
<1> QED BY <1>1, <1>2

(***************************************************************************)
(* The state is of its types in every state that is reached.               *)
(***************************************************************************)
THEOREM PrivacyTypeCorrect == PrivacySpec => []PrivacyTypeOK
<1>1. PInv => PrivacyTypeOK
  BY DEF PInv, PrivacyTypes
<1> QED BY <1>1, PrivacyStarts, PrivacySteps, PTL DEF PrivacySpec

(***************************************************************************)
(* Once all events are handled, the members and the configuration that     *)
(* decide who may read a message are those of the room.                    *)
(***************************************************************************)
THEOREM PrivacyCachesFollow == PrivacySpec => []CachesFollow
<1>1. PInv => CachesFollow
  BY NoNews DEF PInv, MembersRight, ConfigRight, CachesFollow
<1> QED BY <1>1, PrivacyStarts, PrivacySteps, PTL DEF PrivacySpec
------------------------------------------------------------------------------
\* BanSync: a reading of the lists, room by room, against the events about their rules.
Phases == {"idle", "join", "ask", "apply", "done"}
ReadingType == [pc : Phases, todo : Seq(PolicyRooms), got : SUBSET Rules]
NewsType == [rule : Rules, set : BOOLEAN]

\* A reading still has the room to do, or has yet to join it.
Reading(s) == reads[s].pc \in {"join", "ask", "apply"}
Coming(r, s) == Reading(s) /\ Contains(reads[s].todo, r)
ToJoin(r, s) ==
  \/ reads[s].pc = "join" /\ Contains(reads[s].todo, r)
  \/ reads[s].pc \in {"ask", "apply"} /\ Contains(Tail(reads[s].todo), r)
Started == \E s \in BanReads : reads[s].pc # "idle"

\* The bridge hears of the rules of a room, or will: a reading clears this.
Heard ==
  Started => \A r \in PolicyRooms :
    r \in subscribed \/ (\E s \in BanReads : ToJoin(r, s)) \/ {r} \X Keys \subseteq unsure.keys

KeyAt(i) == KeyOf(banNews[i].rule)
InNews(key) == \E i \in 1..Len(banNews) : KeyAt(i) = key
Sure(key) == key \in AllKeys \ unsure.keys

\* The last event about a key tells whether it has a rule.
LastNews ==
  \A key \in AllKeys : Sure(key) =>
    \A i \in 1..Len(banNews) :
      KeyAt(i) = key /\ (\A j \in 1..Len(banNews) : i < j => KeyAt(j) # key) =>
        (banNews[i].set <=> RulesOf(key) # {})

\* A key is right, unless a reading or an event will set it.
KeysRight ==
  Started => \A key \in AllKeys : Sure(key) =>
    \/ \E s \in BanReads : Coming(key[1], s)
    \/ InNews(key)
    \/ key \in banned <=> RulesOf(key) # {}

ClientRight ==
  client # "none" /\ ~unsure.killed => banned = {} \/ \E s \in BanReads : Reading(s)

BanTypes ==
  BanTypeOK /\ \A s \in BanReads : reads[s].pc \in {"ask", "apply"} => reads[s].todo # <<>>
BanInv == BanTypes /\ Heard /\ LastNews /\ KeysRight /\ ClientRight
------------------------------------------------------------------------------
\* SetToSeq lists every element of a finite set.
LEMMA ListsAll ==
  ASSUME NEW S, IsFiniteSet(S)
  PROVE  SetToSeq(S) \in Seq(S) /\ \A x \in S : Contains(SetToSeq(S), x)
<1> DEFINE n == Cardinality(S)
           f == SetToSeq(S)
           T == {f[i] : i \in 1..n}
<1>1. n \in Nat /\ ExistsBijection(1..n, S)
  BY FS_CardinalityType
<1>2. \E g \in [1..n -> S] : IsInjective(g)
  BY <1>1 DEF ExistsBijection, Bijection, Injection
<1>3. f \in [1..n -> S] /\ IsInjective(f)
  BY <1>2 DEF SetToSeq
<1> HIDE DEF n, f
<1>4. f \in Seq(S) /\ Len(f) = n
  BY <1>1, <1>3
<1>5. f \in Bijection(1..n, T)
  BY <1>3 DEF Bijection, Injection, Surjection, IsInjective
<1>6. Cardinality(T) = n
  BY <1>1, <1>5, FS_CountingElements DEF ExistsBijection
<1>7. T \in SUBSET S
  BY <1>3
<1>8. T = S
  BY <1>6, <1>7, FS_Subset DEF n
<1>9. \A x \in S : Contains(f, x)
  BY <1>4, <1>8 DEF Contains
<1> QED
  BY <1>4, <1>9 DEF f

LEMMA BanTypeFacts ==
  ASSUME BanTypes
  PROVE  /\ policy \subseteq Rules /\ changes \in 0..MaxChanges /\ banNews \in Seq(NewsType)
         /\ banned \subseteq AllKeys /\ subscribed \subseteq PolicyRooms
         /\ reads \in [BanReads -> ReadingType]
         /\ client \in {"none", "connecting", "connected"}
         /\ unsure \in [keys : SUBSET AllKeys, killed : BOOLEAN]
         /\ \A s \in BanReads : reads[s].pc \in {"ask", "apply"} => reads[s].todo # <<>>
  BY DEF BanTypes, BanTypeOK, NewsType, ReadingType, Phases

LEMMA BanTypeParts ==
  ASSUME policy' \subseteq Rules, changes' \in 0..MaxChanges, banNews' \in Seq(NewsType),
         banned' \subseteq AllKeys, subscribed' \subseteq PolicyRooms,
         reads' \in [BanReads -> ReadingType],
         client' \in {"none", "connecting", "connected"},
         unsure' \in [keys : SUBSET AllKeys, killed : BOOLEAN],
         \A s \in BanReads : reads'[s].pc \in {"ask", "apply"} => reads'[s].todo # <<>>
  PROVE  BanTypes'
  BY DEF BanTypes, BanTypeOK, NewsType, ReadingType, Phases

\* What writing a reading does.
LEMMA ReadFacts ==
  ASSUME BanTypes, NEW s \in BanReads, NEW pc \in Phases, NEW todo \in Seq(PolicyRooms),
         NEW got \in SUBSET Rules, Read(s, pc, todo, got)
  PROVE  /\ reads' \in [BanReads -> ReadingType]
         /\ reads'[s].pc = pc /\ reads'[s].todo = todo /\ reads'[s].got = got
         /\ \A t \in BanReads : t # s => reads'[t] = reads[t]
<1>1. [pc |-> pc, todo |-> todo, got |-> got] \in ReadingType
  BY DEF ReadingType
<1> QED
  BY <1>1, BanTypeFacts DEF Read

LEMMA SomeTail ==
  ASSUME NEW S, NEW q \in Seq(S), q # <<>>
  PROVE  /\ Tail(q) \in Seq(S) /\ Head(q) \in S
         /\ \A x : Contains(Tail(q), x) => Contains(q, x)
         /\ \A x : Contains(q, x) => x = Head(q) \/ Contains(Tail(q), x)
<1>1. /\ Head(q) \in S /\ Tail(q) \in Seq(S) /\ Len(Tail(q)) = Len(q) - 1 /\ Len(q) \in Nat \ {0}
      /\ Head(q) = q[1] /\ \A i \in 1..Len(Tail(q)) : Tail(q)[i] = q[i + 1]
  BY HeadTailProperties, EmptySeq
<1>2. ASSUME NEW x, Contains(Tail(q), x)
      PROVE  Contains(q, x)
  <2>1. PICK i \in 1..Len(Tail(q)) : Tail(q)[i] = x
    BY <1>2 DEF Contains
  <2>2. i + 1 \in 1..Len(q) /\ q[i + 1] = x
    BY <1>1, <2>1
  <2> QED
    BY <2>2 DEF Contains
<1>3. ASSUME NEW x, Contains(q, x), x # Head(q)
      PROVE  Contains(Tail(q), x)
  <2>1. PICK i \in 1..Len(q) : q[i] = x
    BY <1>3 DEF Contains
  <2>2. i - 1 \in 1..Len(Tail(q)) /\ Tail(q)[i - 1] = x
    BY <1>1, <1>3, <2>1
  <2> QED
    BY <2>2 DEF Contains
<1> QED
  BY <1>1, <1>2, <1>3

LEMMA PolicyChangesTypes ==
  ASSUME BanTypes, NEW rule \in Rules, PolicyChanges(rule)
  PROVE  BanTypes'
<1> DEFINE item == [rule |-> rule, set |-> rule \notin policy]
<1>1. item \in NewsType
  BY DEF NewsType
<1> HIDE DEF item
<1>2. banNews' \in Seq(NewsType)
  BY <1>1, BanTypeFacts, AppendProperties DEF PolicyChanges, item
<1>3. policy' \subseteq Rules /\ changes' \in 0..MaxChanges
  BY BanTypeFacts, BanSyncAssumption DEF PolicyChanges
<1>4. unsure' \in [keys : SUBSET AllKeys, killed : BOOLEAN]
  BY BanTypeFacts DEF PolicyChanges, KeyOf, AllKeys, Rules
<1> QED
  BY <1>2, <1>3, <1>4, BanTypeFacts, BanTypeParts DEF PolicyChanges

\* The step of a reading.
ReadingSteps(s) == SyncRules(s) \/ Join(s) \/ RoomState(s) \/ Apply(s) \/ Reloaded(s)

LEMMA ReadingTypes ==
  ASSUME BanTypes, NEW s \in BanReads, ReadingSteps(s)
  PROVE  BanTypes'
<1> USE BanTypeFacts DEF Phases
<1>1. /\ reads[s].todo \in Seq(PolicyRooms) /\ reads[s].got \in SUBSET Rules
      /\ \A x \in Seq(PolicyRooms) : x # <<>> => Tail(x) \in Seq(PolicyRooms) /\ Head(x) \in PolicyRooms
      /\ {} \in SUBSET Rules
  BY HeadTailProperties DEF ReadingType
<1>2. CASE SyncRules(s)
  <2>1. SetToSeq(PolicyRooms) \in Seq(PolicyRooms)
    BY ListsAll, BanSyncAssumption
  <2> QED
    BY <1>1, <1>2, <2>1, ReadFacts, BanTypeParts DEF SyncRules
<1>3. ASSUME Skipped(s), reads[s].todo # <<>>
      PROVE  /\ reads' \in [BanReads -> ReadingType]
             /\ \A t \in BanReads : reads'[t].pc \in {"ask", "apply"} => reads'[t].todo # <<>>
             /\ unsure' \in [keys : SUBSET AllKeys, killed : BOOLEAN]
  <2>1. Read(s, "join", Tail(reads[s].todo), {})
    BY <1>3 DEF Skipped
  <2>2. /\ reads' \in [BanReads -> ReadingType]
        /\ \A t \in BanReads : reads'[t].pc \in {"ask", "apply"} => reads'[t].todo # <<>>
    BY <1>1, <1>3, <2>1, ReadFacts
  <2>3. Subject(s) \in PolicyRooms
    BY <1>1, <1>3 DEF Subject
  <2>4. unsure' \in [keys : SUBSET AllKeys, killed : BOOLEAN]
    BY <1>3, <2>3 DEF Skipped, AllKeys
  <2> QED
    BY <2>2, <2>4
<1>4. CASE Join(s)
  <2>1. CASE Skipped(s)
    <3>1. reads[s].todo # <<>> /\ Subject(s) \in PolicyRooms
      BY <1>1, <1>4 DEF Join, Subject
    <3>2. subscribed' \subseteq PolicyRooms /\ UNCHANGED <<policy, changes, banNews, banned, client>>
      BY <1>4, <3>1 DEF Join
    <3> QED
      BY <1>3, <2>1, <3>1, <3>2, BanTypeParts
  <2>2. CASE subscribed' = subscribed \cup {Subject(s)} /\ Read(s, "ask", reads[s].todo, {}) /\ UNCHANGED unsure
    <3>1. Subject(s) \in PolicyRooms /\ reads[s].todo # <<>>
      BY <1>1, <1>4 DEF Subject, Join
    <3>2. /\ reads' \in [BanReads -> ReadingType]
          /\ \A t \in BanReads : reads'[t].pc \in {"ask", "apply"} => reads'[t].todo # <<>>
      BY <1>1, <2>2, <3>1, ReadFacts
    <3> QED
      BY <1>4, <2>2, <3>1, <3>2, BanTypeParts DEF Join
  <2> QED
    BY <1>4, <2>1, <2>2 DEF Join
<1>5. CASE RoomState(s)
  <2>1. reads[s].todo # <<>>
    BY <1>5 DEF RoomState
  <2>2. CASE Skipped(s)
    BY <1>3, <1>5, <2>1, <2>2, BanTypeParts DEF RoomState
  <2>3. CASE Read(s, "apply", reads[s].todo, policy) /\ UNCHANGED unsure
    <3>1. /\ reads' \in [BanReads -> ReadingType]
          /\ \A t \in BanReads : reads'[t].pc \in {"ask", "apply"} => reads'[t].todo # <<>>
      BY <1>1, <2>1, <2>3, ReadFacts
    <3> QED
      BY <1>5, <2>3, <3>1, BanTypeParts DEF RoomState
  <2> QED
    BY <1>5, <2>2, <2>3 DEF RoomState
<1>6. CASE Apply(s)
  <2>1. reads[s].todo # <<>> /\ Read(s, "join", Tail(reads[s].todo), {})
    BY <1>6 DEF Apply
  <2>2. Subject(s) \in PolicyRooms
    BY <1>1, <2>1 DEF Subject
  <2>3. banned' \subseteq AllKeys
    BY <1>6, <2>2 DEF Apply, AllKeys
  <2>4. unsure' \in [keys : SUBSET AllKeys, killed : BOOLEAN]
    BY <1>6, <2>2 DEF Apply, AllKeys
  <2>5. /\ reads' \in [BanReads -> ReadingType]
        /\ \A t \in BanReads : reads'[t].pc \in {"ask", "apply"} => reads'[t].todo # <<>>
    BY <1>1, <2>1, ReadFacts
  <2> QED
    BY <1>6, <2>3, <2>4, <2>5, BanTypeParts DEF Apply
<1>7. CASE Reloaded(s)
  <2>1. <<>> \in Seq(PolicyRooms)
    BY EmptySeq
  <2>2. client' \in {"none", "connecting", "connected"} /\ unsure' \in [keys : SUBSET AllKeys, killed : BOOLEAN]
    BY <1>7 DEF Reloaded, Checked, Doubt
  <2> QED
    <3>1. Read(s, "done", <<>>, {})
      BY <1>7 DEF Reloaded
    <3>2. /\ reads' \in [BanReads -> ReadingType]
          /\ \A t \in BanReads : reads'[t].pc \in {"ask", "apply"} => reads'[t].todo # <<>>
      BY <1>1, <2>1, <3>1, ReadFacts
    <3> QED
      BY <1>7, <2>2, <3>2, BanTypeParts DEF Reloaded
<1> QED
  BY <1>2, <1>4, <1>5, <1>6, <1>7 DEF ReadingSteps

LEMMA IncomingTypes ==
  ASSUME BanTypes, HandleIncomingState
  PROVE  BanTypes'
<1> USE BanTypeFacts
<1>1. banNews # <<>> /\ banNews' \in Seq(NewsType) /\ Head(banNews) \in NewsType
  BY SomeTail DEF HandleIncomingState
<1>2. KeyOf(Head(banNews).rule) \in AllKeys
  BY <1>1 DEF NewsType, KeyOf, AllKeys, Rules
<1>3. banned' \subseteq AllKeys /\ client' \in {"none", "connecting", "connected"}
  BY <1>2 DEF HandleIncomingState, Checked
<1>4. unsure' \in [keys : SUBSET AllKeys, killed : BOOLEAN]
  BY DEF HandleIncomingState, Doubt
<1> QED
  BY <1>1, <1>3, <1>4, BanTypeParts DEF HandleIncomingState

LEMMA BanTypesKept ==
  ASSUME BanTypes, [BanNext]_banVars
  PROVE  BanTypes'
<1>1. CASE UNCHANGED banVars
  BY <1>1, BanTypeFacts, BanTypeParts DEF banVars
<1>2. CASE CreateIrcClient \/ Connects
  BY <1>2, BanTypeFacts, BanTypeParts DEF CreateIrcClient, Connects
<1> QED
  BY <1>1, <1>2, PolicyChangesTypes, ReadingTypes, IncomingTypes DEF BanNext, ReadingSteps

------------------------------------------------------------------------------
\* What a step of a reading does to the rooms it has to do.
LEMMA ReadingMoves ==
  ASSUME BanTypes, NEW s \in BanReads, ReadingSteps(s)
  PROVE  /\ UNCHANGED <<policy, banNews>>
         /\ unsure.keys \subseteq unsure'.keys
         /\ reads'[s].pc # "idle"
         /\ \A t \in BanReads : t # s => reads'[t] = reads[t]
         /\ \/ /\ SyncRules(s) /\ subscribed' = {} /\ banned' = {}
               /\ \A r \in PolicyRooms : ToJoin(r, s)' /\ Coming(r, s)'
            \/ /\ reads[s].pc # "idle" /\ subscribed \subseteq subscribed'
               /\ \A r \in PolicyRooms : ToJoin(r, s) =>
                    \/ ToJoin(r, s)' \/ r \in subscribed'
                    \/ {r} \X Keys \subseteq unsure'.keys
               /\ \A r \in PolicyRooms : Coming(r, s) =>
                    \/ Coming(r, s)' \/ {r} \X Keys \subseteq unsure'.keys
                    \/ Apply(s) /\ r = Subject(s)
               /\ Apply(s) \/ banned' = banned
<1> USE BanTypeFacts DEF Phases
<1>1. /\ reads[s].todo \in Seq(PolicyRooms) /\ reads[s].got \in SUBSET Rules
      /\ {} \in SUBSET Rules /\ <<>> \in Seq(PolicyRooms)
  BY EmptySeq DEF ReadingType
<1>2. reads[s].todo # <<>> =>
        /\ Tail(reads[s].todo) \in Seq(PolicyRooms) /\ Subject(s) \in PolicyRooms
        /\ \A x : Contains(reads[s].todo, x) => x = Subject(s) \/ Contains(Tail(reads[s].todo), x)
        /\ \A x : Contains(Tail(reads[s].todo), x) => Contains(reads[s].todo, x)
  BY <1>1, SomeTail DEF Subject
<1>3. CASE SyncRules(s)
  <2>1. /\ SetToSeq(PolicyRooms) \in Seq(PolicyRooms)
        /\ \A r \in PolicyRooms : Contains(SetToSeq(PolicyRooms), r)
    BY ListsAll, BanSyncAssumption
  <2>2. /\ reads'[s].pc = "join" /\ reads'[s].todo = SetToSeq(PolicyRooms)
        /\ \A t \in BanReads : t # s => reads'[t] = reads[t]
    BY <1>1, <1>3, <2>1, ReadFacts DEF SyncRules
  <2> QED
    BY <1>3, <2>1, <2>2 DEF SyncRules, ToJoin, Coming, Reading
<1>4. ASSUME reads[s].todo # <<>>, Read(s, "join", Tail(reads[s].todo), {})
      PROVE  /\ reads'[s].pc = "join" /\ reads'[s].todo = Tail(reads[s].todo)
             /\ \A t \in BanReads : t # s => reads'[t] = reads[t]
  BY <1>1, <1>2, <1>4, ReadFacts
<1>5. ASSUME Skipped(s), reads[s].todo # <<>>
      PROVE  /\ reads'[s].pc = "join" /\ reads'[s].todo = Tail(reads[s].todo)
             /\ \A t \in BanReads : t # s => reads'[t] = reads[t]
             /\ unsure.keys \subseteq unsure'.keys /\ {Subject(s)} \X Keys \subseteq unsure'.keys
  <2>1. Read(s, "join", Tail(reads[s].todo), {})
    BY <1>5 DEF Skipped
  <2>2. unsure'.keys = unsure.keys \cup ({Subject(s)} \X Keys)
    BY <1>5 DEF Skipped
  <2> QED
    BY <1>4, <1>5, <2>1, <2>2
<1>6. CASE Join(s)
  <2>1. /\ reads[s].pc = "join" /\ reads[s].todo # <<>> /\ UNCHANGED <<policy, banNews, banned>>
        /\ subscribed \subseteq subscribed'
    BY <1>6 DEF Join
  <2>2. CASE Skipped(s)
    BY <1>2, <1>5, <2>1, <2>2 DEF ToJoin, Coming, Reading
  <2>3. CASE subscribed' = subscribed \cup {Subject(s)} /\ Read(s, "ask", reads[s].todo, {}) /\ UNCHANGED unsure
    <3>1. /\ reads'[s].pc = "ask" /\ reads'[s].todo = reads[s].todo
          /\ \A t \in BanReads : t # s => reads'[t] = reads[t]
      BY <1>1, <2>3, ReadFacts
    <3> QED
      BY <1>2, <2>1, <2>3, <3>1 DEF ToJoin, Coming, Reading
  <2> QED
    BY <1>6, <2>2, <2>3 DEF Join
<1>7. CASE RoomState(s)
  <2>1. /\ reads[s].pc = "ask" /\ reads[s].todo # <<>> /\ UNCHANGED <<policy, banNews, banned, subscribed>>
    BY <1>7 DEF RoomState
  <2>2. CASE Skipped(s)
    BY <1>2, <1>5, <2>1, <2>2 DEF ToJoin, Coming, Reading
  <2>3. CASE Read(s, "apply", reads[s].todo, policy) /\ UNCHANGED unsure
    <3>1. /\ reads'[s].pc = "apply" /\ reads'[s].todo = reads[s].todo
          /\ \A t \in BanReads : t # s => reads'[t] = reads[t]
      BY <1>1, <2>3, ReadFacts
    <3> QED
      BY <2>1, <2>3, <3>1 DEF ToJoin, Coming, Reading
  <2> QED
    BY <1>7, <2>2, <2>3 DEF RoomState
<1>8. CASE Apply(s)
  <2>1. /\ reads[s].pc = "apply" /\ reads[s].todo # <<>> /\ UNCHANGED <<policy, banNews, subscribed>>
        /\ Read(s, "join", Tail(reads[s].todo), {})
    BY <1>8 DEF Apply
  <2>2. unsure.keys \subseteq unsure'.keys
    BY <1>8 DEF Apply
  <2> QED
    BY <1>2, <1>4, <1>8, <2>1, <2>2 DEF ToJoin, Coming, Reading
<1>9. CASE Reloaded(s)
  <2>1. /\ reads[s].pc = "join" /\ reads[s].todo = <<>> /\ UNCHANGED <<policy, banNews, banned, subscribed>>
        /\ Read(s, "done", <<>>, {})
    BY <1>9 DEF Reloaded
  <2>2. reads'[s].pc = "done" /\ \A t \in BanReads : t # s => reads'[t] = reads[t]
    BY <1>1, <2>1, ReadFacts
  <2>3. unsure'.keys = unsure.keys
    BY <1>9 DEF Reloaded, Doubt
  <2>4. \A r : ~Contains(<<>>, r)
    BY DEF Contains
  <2> QED
    BY <2>1, <2>2, <2>3, <2>4 DEF ToJoin, Coming, Reading
<1> QED
  BY <1>3, <1>6, <1>7, <1>8, <1>9 DEF ReadingSteps

\* What the other steps do to the readings.
LEMMA OtherSteps ==
  ASSUME BanTypes, (\E rule \in Rules : PolicyChanges(rule)) \/ HandleIncomingState \/ CreateIrcClient
                   \/ Connects \/ UNCHANGED banVars
  PROVE  UNCHANGED <<reads, subscribed>> /\ unsure.keys \subseteq unsure'.keys
<1> USE BanTypeFacts
<1>1. CASE \E rule \in Rules : PolicyChanges(rule)
  BY <1>1 DEF PolicyChanges
<1>2. CASE HandleIncomingState
  BY <1>2 DEF HandleIncomingState, Doubt
<1>3. CASE CreateIrcClient \/ Connects \/ UNCHANGED banVars
  BY <1>3 DEF CreateIrcClient, Connects, banVars
<1> QED
  BY <1>1, <1>2, <1>3

LEMMA BanSteps ==
  ASSUME [BanNext]_banVars
  PROVE  \/ \E s \in BanReads : ReadingSteps(s)
         \/ (\E rule \in Rules : PolicyChanges(rule)) \/ HandleIncomingState \/ CreateIrcClient
            \/ Connects \/ UNCHANGED banVars
  BY DEF BanNext, ReadingSteps

LEMMA HeardKept ==
  ASSUME BanTypes, Heard, [BanNext]_banVars
  PROVE  Heard'
<1>1. ASSUME NEW s \in BanReads, ReadingSteps(s)
      PROVE  Heard'
  <2>1. SUFFICES ASSUME NEW r \in PolicyRooms
                 PROVE  \/ r \in subscribed' \/ (\E t \in BanReads : ToJoin(r, t)')
                        \/ {r} \X Keys \subseteq unsure'.keys
    BY DEF Heard
  <2>2. CASE \A x \in PolicyRooms : ToJoin(x, s)'
    BY <2>2
  <2>3. ASSUME reads[s].pc # "idle", subscribed \subseteq subscribed',
               \A x \in PolicyRooms : ToJoin(x, s) =>
                    ToJoin(x, s)' \/ x \in subscribed' \/ {x} \X Keys \subseteq unsure'.keys
        PROVE  \/ r \in subscribed' \/ (\E t \in BanReads : ToJoin(r, t)')
               \/ {r} \X Keys \subseteq unsure'.keys
    <3>1. \/ r \in subscribed \/ (\E t \in BanReads : ToJoin(r, t))
          \/ {r} \X Keys \subseteq unsure.keys
      BY <2>3 DEF Heard, Started
    <3>2. \A t \in BanReads : t # s => (ToJoin(r, t)' <=> ToJoin(r, t))
      BY <1>1, ReadingMoves DEF ToJoin
    <3>3. unsure.keys \subseteq unsure'.keys
      BY <1>1, ReadingMoves
    <3> QED
      BY <2>3, <3>1, <3>2, <3>3
  <2> QED
    BY <1>1, <2>2, <2>3, ReadingMoves
<1>2. ASSUME UNCHANGED <<reads, subscribed>>, unsure.keys \subseteq unsure'.keys
      PROVE  Heard'
  <2>1. (Started' <=> Started) /\ \A r \in PolicyRooms, s \in BanReads : ToJoin(r, s)' <=> ToJoin(r, s)
    BY <1>2 DEF Started, ToJoin
  <2> QED
    BY <1>2, <2>1 DEF Heard
<1> QED
  BY <1>1, <1>2, BanSteps, OtherSteps

\* The last event about a key is the last change of the key.
LEMMA LastNewsKept ==
  ASSUME BanTypes, LastNews, [BanNext]_banVars
  PROVE  LastNews'
<1> USE BanTypeFacts
<1>1. ASSUME NEW rule \in Rules, PolicyChanges(rule)
      PROVE  LastNews'
  <2> DEFINE item == [rule |-> rule, set |-> rule \notin policy]
             mine == KeyOf(rule)
  <2>1. item \in NewsType /\ item.rule = rule /\ (item.set <=> rule \notin policy)
    BY DEF NewsType
  <2>2. banNews' = Append(banNews, item)
    BY <1>1 DEF PolicyChanges
  <2> HIDE DEF item
  <2>3. /\ Len(banNews) \in Nat /\ Len(banNews') = Len(banNews) + 1 /\ banNews'[Len(banNews) + 1] = item
        /\ \A i \in 1..Len(banNews) : banNews'[i] = banNews[i]
    BY <2>1, <2>2, AppendProperties, LenProperties
  <2>4. /\ unsure.keys \subseteq unsure'.keys
        /\ mine \notin unsure'.keys => RulesOf(mine) \ {rule} = {}
    BY <1>1 DEF PolicyChanges
  <2>5. SUFFICES ASSUME NEW key \in AllKeys, key \notin unsure'.keys, NEW i \in 1..Len(banNews'),
                        KeyOf(banNews'[i].rule) = key,
                        \A j \in 1..Len(banNews') : i < j => KeyOf(banNews'[j].rule) # key
                 PROVE  banNews'[i].set <=> RulesOf(key)' # {}
    BY DEF LastNews, Sure, KeyAt
  <2>6. CASE key = mine
    <3>1. i = Len(banNews) + 1
      BY <2>1, <2>3, <2>5, <2>6
    <3>2. RulesOf(key)' # {} <=> rule \notin policy
      BY <1>1, <2>4, <2>5, <2>6 DEF PolicyChanges, RulesOf
    <3> QED
      BY <2>1, <2>3, <3>1, <3>2
  <2>7. CASE key # mine
    <3>1. i \in 1..Len(banNews)
      BY <2>1, <2>3, <2>5, <2>7
    <3>2. \A j \in 1..Len(banNews) : i < j => KeyOf(banNews[j].rule) # key
      BY <2>3, <2>5
    <3>3. RulesOf(key)' = RulesOf(key)
      BY <1>1, <2>7 DEF PolicyChanges, RulesOf
    <3>4. Sure(key)
      BY <2>4, <2>5 DEF Sure
    <3>5. KeyAt(i) = key
      BY <2>3, <2>5, <3>1 DEF KeyAt
    <3> QED
      BY <2>3, <3>1, <3>2, <3>3, <3>4, <3>5 DEF LastNews, KeyAt
  <2> QED
    BY <2>6, <2>7
<1>2. CASE HandleIncomingState
  <2>1. /\ banNews # <<>> /\ banNews' = Tail(banNews) /\ UNCHANGED policy /\ unsure'.keys = unsure.keys
    BY <1>2 DEF HandleIncomingState, Doubt
  <2>2. /\ Len(banNews) \in Nat \ {0} /\ Len(banNews') = Len(banNews) - 1
        /\ \A i \in 1..Len(banNews') : banNews'[i] = banNews[i + 1]
    BY <2>1, HeadTailProperties, EmptySeq
  <2>3. SUFFICES ASSUME NEW key \in AllKeys, Sure(key), NEW i \in 1..Len(banNews'),
                        KeyOf(banNews'[i].rule) = key,
                        \A j \in 1..Len(banNews') : i < j => KeyOf(banNews'[j].rule) # key
                 PROVE  banNews'[i].set <=> RulesOf(key) # {}
    BY <2>1 DEF LastNews, Sure, KeyAt, RulesOf
  <2>4. i + 1 \in 1..Len(banNews) /\ KeyAt(i + 1) = key
    BY <2>2, <2>3 DEF KeyAt
  <2>5. ASSUME NEW j \in 1..Len(banNews), i + 1 < j
        PROVE  KeyAt(j) # key
    <3>1. j - 1 \in 1..Len(banNews') /\ i < j - 1 /\ banNews'[j - 1] = banNews[j]
      BY <2>2, <2>5
    <3> QED
      BY <2>3, <3>1 DEF KeyAt
  <2> QED
    BY <2>2, <2>3, <2>4, <2>5 DEF LastNews
<1>3. ASSUME UNCHANGED <<policy, banNews>>, unsure.keys \subseteq unsure'.keys
      PROVE  LastNews'
  BY <1>3 DEF LastNews, Sure, KeyAt, RulesOf
<1>4. ASSUME NEW s \in BanReads, ReadingSteps(s)
      PROVE  LastNews'
  BY <1>3, <1>4, ReadingMoves
<1>5. CASE CreateIrcClient \/ Connects \/ UNCHANGED banVars
  BY <1>3, <1>5 DEF CreateIrcClient, Connects, banVars
<1> QED
  BY <1>1, <1>2, <1>4, <1>5, BanSteps

LEMMA KeysRightKept ==
  ASSUME BanTypes, Heard, LastNews, KeysRight, [BanNext]_banVars
  PROVE  KeysRight'
<1> USE BanTypeFacts
<1>1. ASSUME NEW rule \in Rules, PolicyChanges(rule)
      PROVE  KeysRight'
  <2> DEFINE item == [rule |-> rule, set |-> rule \notin policy]
  <2>1. item \in NewsType /\ item.rule = rule
    BY DEF NewsType
  <2>2. banNews' = Append(banNews, item)
    BY <1>1 DEF PolicyChanges
  <2> HIDE DEF item
  <2>3. /\ Len(banNews) \in Nat /\ Len(banNews') = Len(banNews) + 1 /\ banNews'[Len(banNews) + 1] = item
        /\ \A i \in 1..Len(banNews) : banNews'[i] = banNews[i]
    BY <2>1, <2>2, AppendProperties, LenProperties
  <2>4. /\ InNews(KeyOf(rule))' /\ \A key : InNews(key) => InNews(key)'
    <3>1. Len(banNews) + 1 \in 1..Len(banNews')
      BY <2>3
    <3> QED
      BY <2>1, <2>3, <3>1 DEF InNews, KeyAt
  <2>5. \A key : key # KeyOf(rule) => RulesOf(key)' = RulesOf(key)
    BY <1>1 DEF PolicyChanges, RulesOf
  <2>6. (Started' <=> Started) /\ \A r, s : Coming(r, s)' <=> Coming(r, s)
    BY <1>1 DEF PolicyChanges, Started, Coming, Reading
  <2>7. banned' = banned /\ \A key : Sure(key)' => Sure(key)
    BY <1>1 DEF PolicyChanges, Sure
  <2> QED
    BY <2>4, <2>5, <2>6, <2>7 DEF KeysRight
<1>2. ASSUME NEW s \in BanReads, ReadingSteps(s)
      PROVE  KeysRight'
  <2>1. SUFFICES ASSUME NEW key \in AllKeys, Sure(key)'
                 PROVE  \/ \E t \in BanReads : Coming(key[1], t)'
                        \/ InNews(key)'
                        \/ key \in banned' <=> RulesOf(key)' # {}
    BY DEF KeysRight
  <2>2. /\ Sure(key) /\ key[1] \in PolicyRooms
        /\ InNews(key)' <=> InNews(key)
        /\ RulesOf(key)' = RulesOf(key)
        /\ ~({key[1]} \X Keys \subseteq unsure'.keys)
    BY <1>2, <2>1, ReadingMoves DEF Sure, AllKeys, InNews, KeyAt, RulesOf
  <2>3. \A t \in BanReads : t # s => (Coming(key[1], t)' <=> Coming(key[1], t))
    BY <1>2, ReadingMoves DEF Coming, Reading
  <2>4. CASE \A r \in PolicyRooms : Coming(r, s)'
    BY <2>2, <2>4
  <2>5. CASE Apply(s) /\ key[1] = Subject(s)
    <3> DEFINE here == {Subject(s)} \X Keys
               set == {KeyOf(rule) : rule \in reads[s].got}
    <3>1. /\ banned' = (banned \ here) \cup (set \cap here)
          /\ unsure'.keys = unsure.keys \cup {k \in here : Outdated(k, set)}
      BY <2>5 DEF Apply
    <3>2. key \in here
      BY <2>1, <2>5 DEF AllKeys
    <3> HIDE DEF here, set
    <3>3. key \in banned' <=> key \in set
      BY <3>1, <3>2
    <3>4. ~Outdated(key, set)
      BY <2>1, <3>1, <3>2 DEF Sure
    <3>5. (key \in set <=> RulesOf(key) # {}) \/ InNews(key)
      BY <3>4, LenProperties DEF Outdated, InNews, KeyAt
    <3> QED
      BY <2>2, <3>3, <3>5
  <2>6. ASSUME reads[s].pc # "idle", ~(Apply(s) /\ key[1] = Subject(s)),
               \A r \in PolicyRooms : Coming(r, s) =>
                    \/ Coming(r, s)' \/ {r} \X Keys \subseteq unsure'.keys
                    \/ Apply(s) /\ r = Subject(s),
               Apply(s) \/ banned' = banned
        PROVE  \/ \E t \in BanReads : Coming(key[1], t)'
               \/ InNews(key)'
               \/ key \in banned' <=> RulesOf(key)' # {}
    <3>1. key \in banned' <=> key \in banned
      BY <2>1, <2>6 DEF Apply, AllKeys
    <3>2. \/ \E t \in BanReads : Coming(key[1], t)
          \/ InNews(key)
          \/ key \in banned <=> RulesOf(key) # {}
      BY <2>2, <2>6 DEF KeysRight, Started
    <3> QED
      BY <2>2, <2>3, <2>6, <3>1, <3>2
  <2> QED
    BY <1>2, <2>4, <2>5, <2>6, ReadingMoves
<1>3. CASE HandleIncomingState
  <2> DEFINE item == Head(banNews)
             mine == KeyOf(item.rule)
  <2>1. /\ banNews # <<>> /\ banNews' = Tail(banNews) /\ UNCHANGED <<policy, reads, subscribed>>
        /\ unsure'.keys = unsure.keys
    BY <1>3 DEF HandleIncomingState, Doubt
  <2>2. /\ Len(banNews) \in Nat \ {0} /\ Len(banNews') = Len(banNews) - 1 /\ item = banNews[1]
        /\ \A i \in 1..Len(banNews') : banNews'[i] = banNews[i + 1]
        /\ item \in NewsType
    BY <2>1, HeadTailProperties, EmptySeq
  <2>3. \/ mine[1] \notin subscribed /\ UNCHANGED banned
        \/ mine[1] \in subscribed /\ item.set /\ banned' = banned \cup {mine}
        \/ mine[1] \in subscribed /\ ~item.set /\ banned' = banned \ {mine}
    BY <1>3 DEF HandleIncomingState
  <2>4. mine = KeyAt(1)
    BY <2>2 DEF KeyAt
  <2> HIDE DEF item, mine
  <2>5. SUFFICES ASSUME Started, NEW key \in AllKeys, Sure(key),
                        \A t \in BanReads : ~Coming(key[1], t), ~InNews(key)'
                 PROVE  key \in banned' <=> RulesOf(key) # {}
    BY <2>1 DEF KeysRight, Started, Sure, Coming, Reading, RulesOf
  <2>6. \A i \in 1..Len(banNews) : 1 < i => KeyAt(i) # key
    <3>1. ASSUME NEW i \in 1..Len(banNews), 1 < i
          PROVE  KeyAt(i) # key
      <4>1. i - 1 \in 1..Len(banNews') /\ banNews'[i - 1] = banNews[i]
        BY <2>2, <3>1
      <4> QED
        BY <2>5, <4>1 DEF InNews, KeyAt
    <3> QED
      BY <3>1
  <2>7. CASE key = mine
    <3>1. item.set <=> RulesOf(key) # {}
      BY <2>2, <2>4, <2>5, <2>6, <2>7 DEF LastNews
    <3>2. \A t \in BanReads : ~ToJoin(key[1], t)
      <4>1. ASSUME NEW t \in BanReads, ToJoin(key[1], t)
            PROVE  Coming(key[1], t)
        <5>1. reads[t].todo \in Seq(PolicyRooms)
          BY DEF ReadingType
        <5> QED
          BY <4>1, <5>1, SomeTail DEF ToJoin, Coming, Reading
      <4> QED
        BY <2>5, <4>1
    <3>3. key[1] \in PolicyRooms /\ ~({key[1]} \X Keys \subseteq unsure.keys)
      BY <2>5 DEF Sure, AllKeys
    <3>4. key[1] \in subscribed
      BY <2>5, <3>2, <3>3 DEF Heard
    <3> QED
      BY <2>3, <2>7, <3>1, <3>4
  <2>8. CASE key # mine
    <3>1. ~InNews(key)
      BY <2>2, <2>4, <2>6, <2>8 DEF InNews
    <3> QED
      BY <2>3, <2>5, <2>8, <3>1 DEF KeysRight
  <2> QED
    BY <2>7, <2>8
<1>4. CASE CreateIrcClient \/ Connects \/ UNCHANGED banVars
  BY <1>4 DEF CreateIrcClient, Connects, banVars, KeysRight, Started, Sure, Coming, Reading, InNews, KeyAt, RulesOf
<1> QED
  BY <1>1, <1>2, <1>3, <1>4, BanSteps

LEMMA ClientRightKept ==
  ASSUME BanTypes, ClientRight, [BanNext]_banVars
  PROVE  ClientRight'
<1> USE BanTypeFacts
<1>1. ASSUME NEW s \in BanReads, SyncRules(s) \/ Join(s) \/ RoomState(s) \/ Apply(s)
      PROVE  ClientRight'
  <2>1. Reading(s)'
    <3>1. \E pc \in {"join", "ask", "apply"} : \E todo, got : Read(s, pc, todo, got)
      BY <1>1 DEF SyncRules, Join, RoomState, Apply, Skipped
    <3> QED
      BY <3>1 DEF Read, Reading
  <2> QED
    BY <2>1 DEF ClientRight
<1>2. ASSUME NEW s \in BanReads, Reloaded(s)
      PROVE  ClientRight'
  BY <1>2 DEF Reloaded, Checked, Doubt, ClientRight
<1>3. CASE HandleIncomingState
  <2>1. CASE banned' \subseteq banned /\ UNCHANGED <<client, unsure>>
    BY <1>3, <2>1 DEF HandleIncomingState, ClientRight, Reading
  <2>2. CASE client' = Checked(banned') /\ unsure' = Doubt(banned') /\ banned' # {}
    BY <2>2 DEF Checked, Doubt, ClientRight
  <2> QED
    BY <1>3, <2>1, <2>2 DEF HandleIncomingState
<1>4. CASE CreateIrcClient \/ Connects \/ UNCHANGED banVars \/ \E rule \in Rules : PolicyChanges(rule)
  <2>1. UNCHANGED <<banned, reads>> /\ unsure'.killed = unsure.killed
    BY <1>4 DEF CreateIrcClient, Connects, banVars, PolicyChanges
  <2>2. client' = client \/ banned = {} \/ client # "none"
    BY <1>4 DEF CreateIrcClient, Connects, banVars, PolicyChanges, IsBanned
  <2> QED
    BY <2>1, <2>2 DEF ClientRight, Reading
<1> QED
  BY <1>1, <1>2, <1>3, <1>4, BanSteps DEF ReadingSteps

LEMMA BanStart ==
  ASSUME BanInit
  PROVE  BanInv
<1>1. BanTypes
  <2>1. <<>> \in Seq([rule : Rules, set : BOOLEAN]) /\ <<>> \in Seq(PolicyRooms)
    BY EmptySeq
  <2> QED
    BY <2>1, BanSyncAssumption DEF BanInit, BanTypes, BanTypeOK
<1>2. ~Started
  BY DEF BanInit, Started
<1>3. LastNews
  BY DEF BanInit, LastNews
<1> QED
  BY <1>1, <1>2, <1>3 DEF BanInv, Heard, KeysRight, ClientRight, BanInit

LEMMA BanInvHolds == BanSpec => []BanInv
<1>1. BanInit => BanInv
  BY BanStart
<1>2. BanInv /\ [BanNext]_banVars => BanInv'
  BY BanTypesKept, HeardKept, LastNewsKept, KeysRightKept, ClientRightKept DEF BanInv
<1> QED
  BY <1>1, <1>2, PTL DEF BanSpec

(***************************************************************************)
(* The data of the ban lists keep their form.                              *)
(***************************************************************************)
THEOREM BanTyping == BanSpec => []BanTypeOK
<1>1. BanInv => BanTypeOK
  BY DEF BanInv, BanTypes
<1> QED
  BY <1>1, BanInvHolds, PTL

(***************************************************************************)
(* When nothing is under way the rules the bridge holds are those of the   *)
(* configured lists, and nobody they ban is connected, up to the cases     *)
(* BansHold names (MatrixBanSync.ts).                                      *)
(***************************************************************************)
THEOREM BansHoldHolds == BanSpec => []BansHold
<1>1. ASSUME BanInv, RulesRead
      PROVE  /\ \A key \in AllKeys \ unsure.keys : key \in banned <=> RulesOf(key) # {}
             /\ IsBanned /\ ~unsure.killed => client # "connected"
  <2>1. Started /\ (\A s \in BanReads : ~Reading(s)) /\ \A key : ~InNews(key)
    BY <1>1 DEF RulesRead, Started, Reading, InNews
  <2> QED
    BY <1>1, <2>1 DEF BanInv, KeysRight, ClientRight, Coming, Sure, IsBanned
<1>2. BanInv => BansHold
  BY <1>1 DEF BansHold
<1> QED
  BY <1>2, BanInvHolds, PTL
------------------------------------------------------------------------------
\* RoomAccess: the levels of a room, here and on the homeserver, while changes collect.
LevelsOf == [Speakers -> 0..2]
Changes == [Speakers -> 0..3]
LineType == [room : Rooms, user : Speakers, on : BOOLEAN, level : 0..2]
ModeLineType == [user : Speakers, mode : {"o", "v"}, on : BOOLEAN]
EchoType == [room : Rooms, levels : LevelsOf]
ChangeType == [room : Rooms, stage : {"fetch", "send"}, levels : Changes]

AccessTypes ==
  /\ AccessTypeOK
  /\ modeLines \in Seq(ModeLineType) /\ applying \in LineType \cup {NoLine}
  /\ cached \in [Rooms -> Seq(LevelsOf)] /\ requested \in [Rooms -> Changes]
  /\ wanted \in [Rooms -> Changes] /\ changing \subseteq ChangeType
  /\ \A c \in changing : c.stage = "send" => c.levels \in LevelsOf
  /\ echoes \in Seq(EchoType)

\* The change on its way of a room, and the level of a user once it has arrived.
Underway(r) == {c \in changing : c.room = r}
WillBe(r, u, level) ==
  /\ Underway(r) = {} => levels[r][u] = level
  /\ \A c \in Underway(r) :
       /\ c.levels[u] # NoLevel => c.levels[u] = level
       /\ c.levels[u] = NoLevel => levels[r][u] = level

\* A room is changed once at a time, with the levels of the homeserver.
OneChange(r) ==
  /\ \A c, d \in Underway(r) : c = d
  /\ Underway(r) = {} /\ cached[r] # <<>> => cached[r][1] = levels[r]
  /\ \A c \in Underway(r) :
       /\ c.stage = "fetch" /\ cached[r] # <<>> => cached[r][1] = levels[r]
       /\ c.stage = "send" => cached[r] # <<>> /\ cached[r][1] = c.levels

\* What was asked for last is collected, or on its way, or there.
Collected(r) ==
  \A u \in Speakers :
    /\ requested[r][u] \in {NoLevel, wanted[r][u]}
    /\ wanted[r][u] # NoLevel =>
         \/ r \in timer /\ requested[r][u] = wanted[r][u]
         \/ WillBe(r, u, wanted[r][u])

Orderly == \A r \in Rooms \ disturbed : OneChange(r) /\ Collected(r)
AccessInv == AccessTypes /\ Orderly
------------------------------------------------------------------------------
LEMMA AccessTypeFacts ==
  ASSUME AccessTypes
  PROVE  /\ prefixes \in [Speakers -> SUBSET {"o", "v"}] /\ used \in 0..MaxModeLines
         /\ levels \in [Rooms -> LevelsOf] /\ timer \subseteq Rooms /\ disturbed \subseteq Rooms
         /\ modeLines \in Seq(ModeLineType) /\ applying \in LineType \cup {NoLine}
         /\ cached \in [Rooms -> Seq(LevelsOf)] /\ requested \in [Rooms -> Changes]
         /\ wanted \in [Rooms -> Changes] /\ changing \subseteq ChangeType
         /\ \A c \in changing : c.stage = "send" => c.levels \in LevelsOf
         /\ echoes \in Seq(EchoType)
         /\ \A r \in Rooms : cached[r] # <<>> => cached[r][1] \in LevelsOf
<1>1. ASSUME AccessTypes, NEW r \in Rooms, cached[r] # <<>>
      PROVE  cached[r][1] \in LevelsOf
  <2>1. cached[r] \in Seq(LevelsOf)
    BY DEF AccessTypes
  <2> QED
    BY <1>1, <2>1, EmptySeq, ElementOfSeq
<1> QED
  BY <1>1 DEF AccessTypes, AccessTypeOK, LevelsOf

LEMMA AccessTypeParts ==
  ASSUME prefixes' \in [Speakers -> SUBSET {"o", "v"}], used' \in 0..MaxModeLines,
         levels' \in [Rooms -> LevelsOf], timer' \subseteq Rooms, disturbed' \subseteq Rooms,
         modeLines' \in Seq(ModeLineType), applying' \in LineType \cup {NoLine},
         cached' \in [Rooms -> Seq(LevelsOf)], requested' \in [Rooms -> Changes],
         wanted' \in [Rooms -> Changes], changing' \subseteq ChangeType,
         \A c \in changing' : c.stage = "send" => c.levels \in LevelsOf,
         echoes' \in Seq(EchoType)
  PROVE  AccessTypes'
<1>1. \A r \in Rooms : cached'[r] = <<>> \/ Head(cached'[r]) \in [Speakers -> 0..2]
  BY HeadTailProperties DEF LevelsOf
<1>2. \A r \in Rooms, u \in Speakers : requested'[r][u] \in 0..NoLevel
  BY DEF Changes, NoLevel
<1>3. \A c \in changing' : c.room \in Rooms /\ c.stage \in {"fetch", "send"}
  BY DEF ChangeType
<1> QED
  BY <1>1, <1>2, <1>3 DEF AccessTypes, AccessTypeOK, LevelsOf

\* Nobody's level vector, or one user's.
LEMMA ChangeOf ==
  /\ Nobody \in Changes /\ \A u \in Speakers : Nobody[u] = NoLevel
  /\ \A u \in Speakers, level \in 0..3, vector \in Changes :
       /\ [vector EXCEPT ![u] = level] \in Changes
       /\ [vector EXCEPT ![u] = level][u] = level
       /\ \A v \in Speakers : v # u => [vector EXCEPT ![u] = level][v] = vector[v]
  BY DEF Nobody, Changes, NoLevel

LEMMA LineTypes ==
  ASSUME AccessTypes, applying # NoLine, NEW level \in 0..2
  PROVE  /\ applying \in LineType
         /\ NextRoom(applying, level) \in LineType \cup {NoLine}
<1>1. applying \in LineType
  BY AccessTypeFacts
<1> QED
  BY <1>1, RoomAccessAssumption DEF LineType, NextRoom, Rooms

\* Power levels are maxima of the modes'.
LEMMA LevelOfModes ==
  ASSUME NEW K \in SUBSET {"o", "v"}, NEW m \in {"o", "v"}
  PROVE  Max({Power[x] : x \in K \cup {m}}) \in 0..2
<1> DEFINE S == {Power[x] : x \in K \cup {m}}
<1>1. Power["o"] = 2 /\ Power["v"] = 1
  BY DEF Power
<1>2. S \subseteq {1, 2} /\ Power[m] \in S
  BY <1>1
<1> HIDE DEF S
<1>3. \E x \in S : \A y \in S : x >= y
  <2>1. CASE 2 \in S
    <3>1. \A y \in S : 2 >= y
      BY <1>2
    <3> QED
      BY <2>1, <3>1
  <2>2. CASE 2 \notin S
    <3>1. S = {1}
      BY <1>2, <2>2
    <3> QED
      BY <3>1
  <2> QED
    BY <2>1, <2>2
<1>4. Max(S) \in S
  BY <1>3 DEF Max
<1>5. Max(S) \in {1, 2}
  BY <1>2, <1>4
<1>6. Max(S) \in 0..2
  BY <1>5
<1> QED
  BY <1>6 DEF S

\* Setting a level, for a user of a room.
LEMMA SetPowerLevelFacts ==
  ASSUME AccessTypes, NEW r \in Rooms, NEW u \in Speakers, NEW level \in 0..2, SetPowerLevel(r, u, level)
  PROVE  /\ requested' \in [Rooms -> Changes] /\ wanted' \in [Rooms -> Changes]
         /\ timer' = timer \cup {r}
         /\ requested'[r][u] = level /\ wanted'[r][u] = level
         /\ \A x \in Rooms, v \in Speakers : x # r \/ v # u =>
              requested'[x][v] = requested[x][v] /\ wanted'[x][v] = wanted[x][v]
<1> USE AccessTypeFacts
<1>1. level \in 0..3
  OBVIOUS
<1>2. /\ requested' = [requested EXCEPT ![r] = [requested[r] EXCEPT ![u] = level]]
      /\ wanted' = [wanted EXCEPT ![r] = [wanted[r] EXCEPT ![u] = level]]
  BY DEF SetPowerLevel
<1>3. requested[r] \in Changes /\ wanted[r] \in Changes
  OBVIOUS
<1>5. /\ requested' \in [Rooms -> Changes] /\ requested'[r][u] = level
      /\ \A x \in Rooms, v \in Speakers : x # r \/ v # u => requested'[x][v] = requested[x][v]
  <2> DEFINE new == [requested[r] EXCEPT ![u] = level]
  <2>1. new \in Changes /\ new[u] = level /\ \A v \in Speakers : v # u => new[v] = requested[r][v]
    BY <1>1, <1>3, ChangeOf
  <2>2. requested' = [requested EXCEPT ![r] = new]
    BY <1>2
  <2> HIDE DEF new
  <2>3. requested' \in [Rooms -> Changes] /\ requested'[r] = new /\ \A x \in Rooms : x # r => requested'[x] = requested[x]
    BY <2>1, <2>2
  <2> QED
    BY <2>1, <2>3
<1>6. /\ wanted' \in [Rooms -> Changes] /\ wanted'[r][u] = level
      /\ \A x \in Rooms, v \in Speakers : x # r \/ v # u => wanted'[x][v] = wanted[x][v]
  <2> DEFINE new == [wanted[r] EXCEPT ![u] = level]
  <2>1. new \in Changes /\ new[u] = level /\ \A v \in Speakers : v # u => new[v] = wanted[r][v]
    BY <1>1, <1>3, ChangeOf
  <2>2. wanted' = [wanted EXCEPT ![r] = new]
    BY <1>2
  <2> HIDE DEF new
  <2>3. wanted' \in [Rooms -> Changes] /\ wanted'[r] = new /\ \A x \in Rooms : x # r => wanted'[x] = wanted[x]
    BY <2>1, <2>2
  <2> QED
    BY <2>1, <2>3
<1> QED
  BY <1>5, <1>6 DEF SetPowerLevel

LEMMA LineSteps ==
  ASSUME AccessTypes, OnMode \/ OnModeInRoom
  PROVE  AccessTypes'
<1> USE AccessTypeFacts
<1>1. CASE OnMode
  <2> DEFINE told == Head(modeLines)
             kept == IF told.user \in Bridged THEN prefixes[told.user] ELSE {}
  <2>1. told \in ModeLineType /\ modeLines' \in Seq(ModeLineType)
    BY <1>1, HeadTailProperties DEF OnMode
  <2>2. told.user \in Speakers /\ told.mode \in {"o", "v"} /\ told.on \in BOOLEAN
    BY <2>1 DEF ModeLineType
  <2>3. kept \in SUBSET {"o", "v"}
    BY <2>2
  <2>4. Max({Power[m] : m \in kept \cup {told.mode}}) \in 0..2
    BY <2>2, <2>3, LevelOfModes
  <2>5. applying' = [room |-> 1, user |-> told.user, on |-> told.on,
                     level |-> Max({Power[m] : m \in kept \cup {told.mode}})]
    BY <1>1 DEF OnMode
  <2>6. 1 \in Rooms
    BY RoomAccessAssumption DEF Rooms
  <2>7. applying' \in LineType
    BY <2>2, <2>4, <2>5, <2>6 DEF LineType
  <2> QED
    BY <1>1, <2>1, <2>7, AccessTypeParts DEF OnMode
<1>2. CASE OnModeInRoom
  <2>1. applying # NoLine /\ applying \in LineType
    BY <1>2 DEF OnModeInRoom
  <2>2. applying.room \in Rooms /\ applying.user \in Speakers /\ applying.level \in 0..2
    BY <2>1 DEF LineType
  <2>3. applying' \in LineType \cup {NoLine}
    <3>1. \E level \in 0..2 : applying' = NextRoom(applying, level)
      BY <1>2, <2>2 DEF OnModeInRoom
    <3> QED
      BY <2>1, <3>1, LineTypes
  <2>4. \/ UNCHANGED <<requested, timer, wanted>>
        \/ \E level \in 0..2 : SetPowerLevel(applying.room, applying.user, level)
    BY <1>2, <2>2 DEF OnModeInRoom
  <2>5. timer' \subseteq Rooms /\ requested' \in [Rooms -> Changes] /\ wanted' \in [Rooms -> Changes]
    BY <2>2, <2>4, SetPowerLevelFacts
  <2> QED
    BY <1>2, <2>3, <2>5, AccessTypeParts DEF OnModeInRoom
<1> QED
  BY <1>1, <1>2

LEMMA ModeTypes ==
  ASSUME AccessTypes, NEW u \in Speakers, NEW m \in {"o", "v"}, SetMode(u, m)
  PROVE  AccessTypes'
<1> USE AccessTypeFacts
<1> DEFINE item == [user |-> u, mode |-> m, on |-> m \notin prefixes[u]]
<1>1. item \in ModeLineType
  BY DEF ModeLineType
<1> HIDE DEF item
<1>2. modeLines' \in Seq(ModeLineType)
  BY <1>1, AppendProperties DEF SetMode, item
<1>3. used' \in 0..MaxModeLines
  BY RoomAccessAssumption DEF SetMode, Use
<1>4. prefixes' \in [Speakers -> SUBSET {"o", "v"}]
  <2>1. \E new \in SUBSET {"o", "v"} : prefixes' = [prefixes EXCEPT ![u] = new]
    BY DEF SetMode
  <2> QED
    BY <2>1
<1> QED
  BY <1>2, <1>3, <1>4, AccessTypeParts DEF SetMode

LEMMA LevelTypes ==
  ASSUME AccessTypes, NEW r \in Rooms, NEW u \in Speakers, NEW level \in 0..2, SetLevel(r, u, level)
  PROVE  AccessTypes'
<1> USE AccessTypeFacts
<1>1. levels' = [levels EXCEPT ![r] = [levels[r] EXCEPT ![u] = level]]
  BY DEF SetLevel
<1>2. levels[r] \in LevelsOf /\ [levels[r] EXCEPT ![u] = level] \in LevelsOf
  BY DEF LevelsOf
<1>3. levels' \in [Rooms -> LevelsOf] /\ levels'[r] \in LevelsOf
  BY <1>1, <1>2
<1>4. [room |-> r, levels |-> levels'[r]] \in EchoType
  BY <1>3 DEF EchoType
<1>5. echoes' \in Seq(EchoType)
  BY <1>4, AppendProperties DEF SetLevel
<1>6. used' \in 0..MaxModeLines
  BY RoomAccessAssumption DEF SetLevel, Use
<1> QED
  BY <1>3, <1>5, <1>6, AccessTypeParts DEF SetLevel

LEMMA FetchTypes ==
  ASSUME AccessTypes, NEW r \in Rooms, Fetch(r) \/ GracePeriodEnds(r)
  PROVE  AccessTypes'
<1> USE AccessTypeFacts
<1>1. CASE Fetch(r)
  <2>1. levels[r] \in LevelsOf
    OBVIOUS
  <2>2. <<levels[r]>> \in Seq(LevelsOf)
    BY <2>1
  <2>3. cached' \in [Rooms -> Seq(LevelsOf)]
    BY <1>1, <2>2 DEF Fetch
  <2> QED
    BY <1>1, <2>3, AccessTypeParts DEF Fetch
<1>2. CASE GracePeriodEnds(r)
  <2> DEFINE c == [room |-> r, stage |-> "fetch", levels |-> requested[r]]
  <2>1. c \in ChangeType /\ c.stage = "fetch"
    BY DEF ChangeType
  <2>2. changing' = changing \cup {c} /\ timer' \subseteq Rooms
    BY <1>2 DEF GracePeriodEnds
  <2> HIDE DEF c
  <2>3. changing' \subseteq ChangeType /\ \A d \in changing' : d.stage = "send" => d.levels \in LevelsOf
    BY <2>1, <2>2
  <2>4. disturbed' \subseteq Rooms
    BY <1>2 DEF GracePeriodEnds
  <2> QED
    BY <1>2, <2>2, <2>3, <2>4, AccessTypeParts DEF GracePeriodEnds
<1> QED
  BY <1>1, <1>2

LEMMA RemoveTypes ==
  ASSUME AccessTypes, NEW r \in Rooms, NEW u \in Speakers, RemovePowerLevels(r, u)
  PROVE  AccessTypes'
<1> USE AccessTypeFacts
<1> DEFINE none == [Nobody EXCEPT ![u] = 0]
           c == [room |-> r, stage |-> "fetch", levels |-> none]
<1>1. none \in Changes
  BY ChangeOf
<1>2. c \in ChangeType /\ c.stage = "fetch"
  BY <1>1 DEF ChangeType
<1>3. changing' = changing \cup {c} /\ timer' \subseteq Rooms
  BY DEF RemovePowerLevels
<1>4. requested' \in [Rooms -> Changes] /\ wanted' \in [Rooms -> Changes]
  BY <1>1, ChangeOf DEF RemovePowerLevels
<1> HIDE DEF c, none
<1>5. changing' \subseteq ChangeType /\ \A d \in changing' : d.stage = "send" => d.levels \in LevelsOf
  BY <1>2, <1>3
<1>6. used' \in 0..MaxModeLines
  BY RoomAccessAssumption DEF RemovePowerLevels, Use
<1>7. disturbed' \subseteq Rooms
  BY DEF RemovePowerLevels
<1> QED
  BY <1>3, <1>4, <1>5, <1>6, <1>7, AccessTypeParts DEF RemovePowerLevels

\* The levels that are sent.
New(c) == [u \in Speakers |-> IF c.levels[u] = NoLevel THEN cached[c.room][1][u] ELSE c.levels[u]]

LEMMA NewTypes ==
  ASSUME AccessTypes, NEW c \in changing, cached[c.room] # <<>>
  PROVE  New(c) \in LevelsOf
<1>1. c \in ChangeType
  BY AccessTypeFacts
<1>2. c.room \in Rooms /\ c.levels \in Changes
  BY <1>1 DEF ChangeType
<1>3. cached[c.room][1] \in LevelsOf
  BY <1>2, AccessTypeFacts
<1> QED
  BY <1>2, <1>3 DEF New, LevelsOf, Changes, NoLevel

LEMMA ChangeTypes ==
  ASSUME AccessTypes, NEW c \in changing, ChangePowerLevels(c) \/ SendPowerLevels(c) \/ FetchFails(c)
  PROVE  AccessTypes'
<1> USE AccessTypeFacts
<1>1. c \in ChangeType /\ c.room \in Rooms
  BY DEF ChangeType
<1>2. CASE ChangePowerLevels(c)
  <2> DEFINE d == [room |-> c.room, stage |-> "send", levels |-> New(c)]
  <2>1. New(c) \in LevelsOf
    BY <1>2, NewTypes DEF ChangePowerLevels
  <2>2. New(c) \in Changes
    BY <2>1 DEF LevelsOf, Changes
  <2>3. d \in ChangeType /\ d.levels \in LevelsOf
    BY <1>1, <2>1, <2>2 DEF ChangeType
  <2>4. changing' \subseteq changing \cup {d} /\ cached' = [cached EXCEPT ![c.room] = <<New(c)>>]
    BY <1>2 DEF ChangePowerLevels, New
  <2> HIDE DEF d
  <2>5. changing' \subseteq ChangeType /\ \A x \in changing' : x.stage = "send" => x.levels \in LevelsOf
    BY <2>3, <2>4
  <2>6. <<New(c)>> \in Seq(LevelsOf)
    BY <2>1
  <2>7. cached' \in [Rooms -> Seq(LevelsOf)]
    BY <2>4, <2>6
  <2> QED
    BY <1>2, <2>5, <2>7, AccessTypeParts DEF ChangePowerLevels
<1>3. CASE SendPowerLevels(c)
  <2>1. c.levels \in LevelsOf /\ changing' = changing \ {c}
    BY <1>3 DEF SendPowerLevels
  <2>2. [room |-> c.room, levels |-> c.levels] \in EchoType
    BY <1>1, <2>1 DEF EchoType
  <2>3. echoes' \in Seq(EchoType)
    <3>1. Append(echoes, [room |-> c.room, levels |-> c.levels]) \in Seq(EchoType)
      BY <2>2, AppendProperties
    <3> QED
      BY <1>3, <3>1 DEF SendPowerLevels
  <2>4. levels' \in [Rooms -> LevelsOf] /\ disturbed' \subseteq Rooms
    BY <1>1, <1>3, <2>1 DEF SendPowerLevels
  <2> QED
    BY <1>3, <2>1, <2>3, <2>4, AccessTypeParts DEF SendPowerLevels
<1>4. CASE FetchFails(c)
  BY <1>1, <1>4, AccessTypeParts DEF FetchFails
<1> QED
  BY <1>2, <1>3, <1>4

LEMMA EchoTypes ==
  ASSUME AccessTypes, OnMatrixPowerlevelEvent
  PROVE  AccessTypes'
<1> USE AccessTypeFacts
<1>1. Head(echoes) \in EchoType /\ echoes' \in Seq(EchoType)
  BY HeadTailProperties DEF OnMatrixPowerlevelEvent
<1>2. Head(echoes).room \in Rooms /\ Head(echoes).levels \in LevelsOf
  BY <1>1 DEF EchoType
<1>3. <<Head(echoes).levels>> \in Seq(LevelsOf)
  BY <1>2
<1>4. cached' \in [Rooms -> Seq(LevelsOf)]
  BY <1>3 DEF OnMatrixPowerlevelEvent
<1>5. disturbed' \subseteq Rooms
  BY <1>2 DEF OnMatrixPowerlevelEvent
<1> QED
  BY <1>1, <1>4, <1>5, AccessTypeParts DEF OnMatrixPowerlevelEvent

LEMMA AccessTypesKept ==
  ASSUME AccessTypes, [AccessNext]_accessVars
  PROVE  AccessTypes'
<1>1. CASE UNCHANGED accessVars
  BY <1>1, AccessTypeFacts, AccessTypeParts DEF accessVars
<1> QED
  BY <1>1, LineSteps, ModeTypes, LevelTypes, FetchTypes, RemoveTypes, ChangeTypes, EchoTypes DEF AccessNext

------------------------------------------------------------------------------
\* A room whose data a step leaves alone is in order afterwards.
LEMMA RoomAlone ==
  ASSUME NEW r \in Rooms, OneChange(r), Collected(r),
         levels'[r] = levels[r], cached'[r] = cached[r], requested'[r] = requested[r],
         wanted'[r] = wanted[r], r \in timer => r \in timer', Underway(r)' = Underway(r)
  PROVE  OneChange(r)' /\ Collected(r)'
  BY DEF OneChange, Collected, WillBe

LEMMA OrderlyLines ==
  ASSUME AccessTypes, Orderly, OnModeInRoom
  PROVE  Orderly'
<1> USE AccessTypeFacts
<1>1. UNCHANGED <<levels, cached, changing, disturbed>>
  BY DEF OnModeInRoom
<1>2. SUFFICES ASSUME NEW r \in Rooms \ disturbed
               PROVE  OneChange(r)' /\ Collected(r)'
  BY <1>1 DEF Orderly
<1>3. OneChange(r) /\ Collected(r) /\ Underway(r)' = Underway(r)
  BY <1>1 DEF Orderly, Underway
<1>4. CASE UNCHANGED <<requested, timer, wanted>>
  BY <1>1, <1>3, <1>4, RoomAlone
<1>5. ASSUME NEW level \in 0..2, applying # NoLine, SetPowerLevel(applying.room, applying.user, level)
      PROVE  OneChange(r)' /\ Collected(r)'
  <2>1. applying.room \in Rooms /\ applying.user \in Speakers
    BY <1>5 DEF LineType
  <2>2. OneChange(r)'
    BY <1>1, <1>3 DEF OneChange
  <2>3. SUFFICES ASSUME NEW u \in Speakers
                 PROVE  /\ requested'[r][u] \in {NoLevel, wanted'[r][u]}
                        /\ wanted'[r][u] # NoLevel =>
                             \/ r \in timer' /\ requested'[r][u] = wanted'[r][u]
                             \/ WillBe(r, u, wanted[r][u])' /\ wanted'[r][u] = wanted[r][u]
    BY <2>2 DEF Collected, WillBe
  <2>4. /\ timer' = timer \cup {applying.room}
        /\ requested'[applying.room][applying.user] = level /\ wanted'[applying.room][applying.user] = level
        /\ \A x \in Rooms, v \in Speakers : x # applying.room \/ v # applying.user =>
             requested'[x][v] = requested[x][v] /\ wanted'[x][v] = wanted[x][v]
    BY <1>5, <2>1, SetPowerLevelFacts
  <2>5. CASE r = applying.room /\ u = applying.user
    BY <2>4, <2>5
  <2>6. CASE ~(r = applying.room /\ u = applying.user)
    <3>1. requested'[r][u] = requested[r][u] /\ wanted'[r][u] = wanted[r][u]
      BY <2>4, <2>6
    <3>2. WillBe(r, u, wanted[r][u]) /\ wanted'[r][u] = wanted[r][u] => WillBe(r, u, wanted[r][u])'
      BY <1>1, <1>3 DEF WillBe
    <3> QED
      BY <1>3, <2>4, <3>1, <3>2 DEF Collected
  <2> QED
    BY <2>5, <2>6
<1>6. applying # NoLine =>
        \/ UNCHANGED <<requested, timer, wanted>>
        \/ \E level \in 0..2 : SetPowerLevel(applying.room, applying.user, level)
  BY DEF OnModeInRoom, LineType
<1>7. applying # NoLine
  BY DEF OnModeInRoom
<1> QED
  BY <1>4, <1>5, <1>6, <1>7

\* The room that a step is about, and the others.
LEMMA OrderlyBut ==
  ASSUME Orderly, NEW x \in Rooms, disturbed \subseteq disturbed',
         \A r \in Rooms : r # x => /\ levels'[r] = levels[r] /\ cached'[r] = cached[r]
                                   /\ requested'[r] = requested[r] /\ wanted'[r] = wanted[r]
                                   /\ (r \in timer => r \in timer') /\ Underway(r)' = Underway(r),
         x \in disturbed' \/ (OneChange(x) /\ Collected(x) => OneChange(x)' /\ Collected(x)')
  PROVE  Orderly'
<1>1. SUFFICES ASSUME NEW r \in Rooms, r \notin disturbed'
               PROVE  OneChange(r)' /\ Collected(r)'
  BY DEF Orderly
<1>2. OneChange(r) /\ Collected(r)
  BY <1>1 DEF Orderly
<1>3. CASE r = x
  BY <1>1, <1>2, <1>3
<1>4. CASE r # x
  BY <1>2, <1>4, RoomAlone
<1> QED
  BY <1>3, <1>4

LEMMA OrderlyModes ==
  ASSUME AccessTypes, Orderly,
         UNCHANGED <<levels, cached, requested, wanted, timer, changing, disturbed>>
  PROVE  Orderly'
<1>1. \A r \in Rooms : Underway(r)' = Underway(r)
  BY DEF Underway
<1> QED
  BY <1>1, RoomAlone DEF Orderly

LEMMA OrderlyLevels ==
  ASSUME AccessTypes, Orderly, NEW x \in Rooms, NEW u \in Speakers, NEW level \in 0..2, SetLevel(x, u, level)
  PROVE  Orderly'
<1> USE AccessTypeFacts
<1>1. \A r \in Rooms : r # x => levels'[r] = levels[r]
  BY DEF SetLevel
<1>2. \A r \in Rooms : Underway(r)' = Underway(r)
  BY DEF SetLevel, Underway
<1>3. UNCHANGED <<cached, requested, wanted, timer>> /\ disturbed' = disturbed \cup {x}
  BY DEF SetLevel
<1> QED
  BY <1>1, <1>2, <1>3, OrderlyBut

LEMMA OrderlyFetch ==
  ASSUME AccessTypes, Orderly, NEW x \in Rooms, Fetch(x)
  PROVE  Orderly'
<1> USE AccessTypeFacts
<1>1. \A r \in Rooms : Underway(r)' = Underway(r)
  BY DEF Fetch, Underway
<1>2. UNCHANGED <<levels, requested, wanted, timer, changing>> /\ disturbed \subseteq disturbed'
  BY DEF Fetch
<1>3. cached[x] = <<>> /\ cached'[x] = <<levels[x]>> /\ \A r \in Rooms : r # x => cached'[r] = cached[r]
  BY DEF Fetch
<1>4. cached'[x][1] = levels[x]
  BY <1>3
<1>5. OneChange(x) => OneChange(x)'
  BY <1>1, <1>2, <1>3, <1>4 DEF OneChange
<1>6. Collected(x) => Collected(x)'
  BY <1>1, <1>2 DEF Collected, WillBe
<1> QED
  BY <1>1, <1>2, <1>3, <1>5, <1>6, OrderlyBut

\* A change that starts where none is underway.
LEMMA OrderlyStart ==
  ASSUME AccessTypes, Orderly, NEW x \in Rooms, NEW demand \in Changes,
         changing' = changing \cup {[room |-> x, stage |-> "fetch", levels |-> demand]},
         disturbed' = IF \E c \in changing : c.room = x THEN disturbed \cup {x} ELSE disturbed,
         timer' = timer \ {x}, UNCHANGED <<levels, cached>>,
         \A r \in Rooms : r # x => requested'[r] = requested[r] /\ wanted'[r] = wanted[r],
         Underway(x) = {} /\ Collected(x) =>
           \A u \in Speakers :
             /\ requested'[x][u] \in {NoLevel, wanted'[x][u]}
             /\ demand[u] # NoLevel => demand[u] = wanted'[x][u]
             /\ demand[u] = NoLevel /\ wanted'[x][u] # NoLevel => levels[x][u] = wanted'[x][u]
  PROVE  Orderly'
<1> DEFINE d == [room |-> x, stage |-> "fetch", levels |-> demand]
<1>1. d.room = x /\ d.stage = "fetch" /\ d.levels = demand
  OBVIOUS
<1>2. changing' = changing \cup {d}
  OBVIOUS
<1> HIDE DEF d
<1>3. \A r \in Rooms : r # x => Underway(r)' = Underway(r)
  BY <1>1, <1>2 DEF Underway
<1>4. CASE Underway(x) = {}
  <2>1. Underway(x)' = {d}
    BY <1>1, <1>2, <1>4 DEF Underway
  <2>2. OneChange(x) => OneChange(x)'
    BY <1>1, <1>4, <2>1 DEF OneChange
  <2>3. Collected(x) => Collected(x)'
    <3>1. SUFFICES ASSUME Collected(x), NEW u \in Speakers
                   PROVE  /\ requested'[x][u] \in {NoLevel, wanted'[x][u]}
                          /\ wanted'[x][u] # NoLevel => WillBe(x, u, wanted[x][u])'
      BY DEF Collected
    <3> QED
      BY <1>1, <1>4, <2>1, <3>1 DEF WillBe
  <2> QED
    BY <1>3, <2>2, <2>3, OrderlyBut
<1>5. CASE Underway(x) # {}
  <2>1. disturbed' = disturbed \cup {x}
    BY <1>5 DEF Underway
  <2> QED
    BY <1>3, <2>1, OrderlyBut
<1> QED
  BY <1>4, <1>5

LEMMA OrderlyTimer ==
  ASSUME AccessTypes, Orderly, NEW x \in Rooms, GracePeriodEnds(x)
  PROVE  Orderly'
<1> USE AccessTypeFacts
<1>1. requested[x] \in Changes
  OBVIOUS
<1>2. UNCHANGED <<requested, wanted, levels, cached>>
  BY DEF GracePeriodEnds
<1>3. ASSUME Underway(x) = {}, Collected(x), NEW u \in Speakers
      PROVE  /\ requested'[x][u] \in {NoLevel, wanted'[x][u]}
             /\ requested[x][u] # NoLevel => requested[x][u] = wanted'[x][u]
             /\ requested[x][u] = NoLevel /\ wanted'[x][u] # NoLevel => levels[x][u] = wanted'[x][u]
  BY <1>2, <1>3 DEF Collected, WillBe
<1> QED
  BY <1>1, <1>2, <1>3, OrderlyStart DEF GracePeriodEnds

LEMMA OrderlyRemove ==
  ASSUME AccessTypes, Orderly, NEW x \in Rooms, NEW v \in Speakers, RemovePowerLevels(x, v)
  PROVE  Orderly'
<1> USE AccessTypeFacts
<1> DEFINE none == [Nobody EXCEPT ![v] = 0]
<1>1. none \in Changes /\ none[v] = 0 /\ \A u \in Speakers : u # v => none[u] = NoLevel
  BY ChangeOf
<1>2. /\ requested' = [requested EXCEPT ![x] = Nobody] /\ wanted' = [wanted EXCEPT ![x] = none]
      /\ timer' = timer \ {x} /\ UNCHANGED <<levels, cached>>
      /\ changing' = changing \cup {[room |-> x, stage |-> "fetch", levels |-> none]}
      /\ disturbed' = IF \E c \in changing : c.room = x THEN disturbed \cup {x} ELSE disturbed
  BY DEF RemovePowerLevels
<1> HIDE DEF none
<1>3. requested'[x] = Nobody /\ wanted'[x] = none
  BY <1>2
<1>4. \A r \in Rooms : r # x => requested'[r] = requested[r] /\ wanted'[r] = wanted[r]
  BY <1>2
<1>5. \A u \in Speakers : /\ requested'[x][u] \in {NoLevel, wanted'[x][u]}
                          /\ none[u] # NoLevel => none[u] = wanted'[x][u]
                          /\ none[u] = NoLevel /\ wanted'[x][u] # NoLevel => levels[x][u] = wanted'[x][u]
  BY <1>1, <1>3, ChangeOf
<1> QED
  BY <1>1, <1>2, <1>4, <1>5, OrderlyStart

LEMMA LevelIs ==
  ASSUME NEW all \in LevelsOf, NEW u \in Speakers
  PROVE  all[u] \in 0..3 /\ all[u] # NoLevel
<1>1. all[u] \in 0..2
  BY DEF LevelsOf
<1> QED
  BY <1>1 DEF NoLevel

LEMMA OrderlyChange ==
  ASSUME AccessTypes, Orderly, NEW c \in changing, ChangePowerLevels(c)
  PROVE  Orderly'
<1> USE AccessTypeFacts
<1> DEFINE x == c.room
           new == New(c)
           d == [room |-> x, stage |-> "send", levels |-> new]
<1>1. x \in Rooms /\ c.levels \in Changes
  BY DEF ChangeType
<1>2. c.stage = "fetch" /\ cached[x] # <<>>
  BY DEF ChangePowerLevels
<1>3. /\ cached' = [cached EXCEPT ![x] = <<new>>]
      /\ changing' = (changing \ {c}) \cup (IF <<new>> = cached[x] THEN {} ELSE {d})
  BY DEF ChangePowerLevels, New
<1>4. new \in LevelsOf
  BY <1>2, NewTypes
<1>5. /\ \A u \in Speakers : c.levels[u] # NoLevel => new[u] = c.levels[u]
      /\ \A u \in Speakers : c.levels[u] = NoLevel => new[u] = cached[x][1][u]
  BY DEF New
<1>6. d.room = x /\ d.stage = "send" /\ d.levels = new
  OBVIOUS
<1>7. UNCHANGED <<levels, requested, wanted, timer, disturbed>>
  BY DEF ChangePowerLevels
<1>8. c \in Underway(x)
  BY DEF Underway
<1> HIDE DEF x, new, d
<1>9. cached'[x] = <<new>> /\ cached'[x][1] = new /\ \A r \in Rooms : r # x => cached'[r] = cached[r]
  BY <1>1, <1>3
<1>10. \A r \in Rooms : r # x => Underway(r)' = Underway(r)
  BY <1>3, <1>6 DEF Underway, x
<1>11. ASSUME OneChange(x), Collected(x)
       PROVE  OneChange(x)' /\ Collected(x)'
  <2>1. Underway(x) = {c} /\ cached[x][1] = levels[x]
    BY <1>2, <1>8, <1>11 DEF OneChange
  <2>2. \A u \in Speakers : new[u] # NoLevel
    BY <1>4, LevelIs
  <2>3. \A u \in Speakers, level \in 0..3 : WillBe(x, u, level) => new[u] = level
    <3>1. SUFFICES ASSUME NEW u \in Speakers, NEW level \in 0..3, WillBe(x, u, level)
                   PROVE  new[u] = level
      OBVIOUS
    <3>2. /\ c.levels[u] # NoLevel => c.levels[u] = level
          /\ c.levels[u] = NoLevel => levels[x][u] = level
      BY <1>8, <3>1 DEF WillBe
    <3> QED
      BY <1>5, <2>1, <3>2
  <2>4. CASE <<new>> = cached[x]
    <3>1. Underway(x)' = {} /\ new = levels[x]
      BY <1>3, <2>1, <2>4 DEF Underway
    <3>2. OneChange(x)'
      BY <1>7, <1>9, <3>1 DEF OneChange
    <3>3. \A u \in Speakers, level \in 0..3 : WillBe(x, u, level) => WillBe(x, u, level)'
      BY <1>7, <2>3, <3>1 DEF WillBe
    <3>4. \A u \in Speakers : wanted[x][u] \in 0..3
      BY <1>1 DEF Changes
    <3>5. Collected(x)'
      BY <1>7, <1>11, <3>3, <3>4 DEF Collected
    <3> QED
      BY <3>2, <3>5
  <2>5. CASE <<new>> # cached[x]
    <3>1. Underway(x)' = {d}
      BY <1>3, <1>6, <2>1, <2>5 DEF Underway
    <3>2. OneChange(x)'
      BY <1>6, <1>7, <1>9, <3>1 DEF OneChange
    <3>3. \A u \in Speakers, level \in 0..3 : WillBe(x, u, level) => WillBe(x, u, level)'
      <4>1. SUFFICES ASSUME NEW u \in Speakers, NEW level \in 0..3, WillBe(x, u, level)
                     PROVE  WillBe(x, u, level)'
        OBVIOUS
      <4>2. new[u] = level /\ level # NoLevel
        BY <2>2, <2>3, <4>1
      <4>3. \A e \in Underway(x)' : e.levels[u] = level
        BY <1>6, <3>1, <4>2
      <4> QED
        BY <3>1, <4>2, <4>3 DEF WillBe
    <3>4. \A u \in Speakers : wanted[x][u] \in 0..3
      BY <1>1 DEF Changes
    <3>5. Collected(x)'
      BY <1>7, <1>11, <3>3, <3>4 DEF Collected
    <3> QED
      BY <3>2, <3>5
  <2> QED
    BY <2>4, <2>5
<1> QED
  BY <1>1, <1>7, <1>9, <1>10, <1>11, OrderlyBut

LEMMA OrderlySend ==
  ASSUME AccessTypes, Orderly, NEW c \in changing, SendPowerLevels(c)
  PROVE  Orderly'
<1> USE AccessTypeFacts
<1> DEFINE x == c.room
<1>1. x \in Rooms /\ c.stage = "send" /\ c.levels \in LevelsOf
  BY DEF ChangeType, SendPowerLevels
<1>2. changing' = changing \ {c} /\ UNCHANGED <<cached, requested, wanted, timer>>
  BY DEF SendPowerLevels
<1>3. c \in Underway(x)
  BY DEF Underway
<1>4. \/ levels' = [levels EXCEPT ![x] = c.levels] /\ disturbed' = disturbed
      \/ levels' = levels /\ disturbed' = disturbed \cup {x}
  BY DEF SendPowerLevels
<1>5. \A r \in Rooms : r # x => Underway(r)' = Underway(r)
  BY <1>2 DEF Underway
<1> HIDE DEF x
<1>6. CASE levels' = [levels EXCEPT ![x] = c.levels] /\ disturbed' = disturbed
  <2>1. levels'[x] = c.levels /\ \A r \in Rooms : r # x => levels'[r] = levels[r]
    BY <1>1, <1>6
  <2>2. ASSUME OneChange(x), Collected(x)
        PROVE  OneChange(x)' /\ Collected(x)'
    <3>1. Underway(x) = {c} /\ cached[x][1] = c.levels
      BY <1>1, <1>3, <2>2 DEF OneChange
    <3>2. Underway(x)' = {}
      BY <1>2, <3>1 DEF Underway
    <3>3. OneChange(x)'
      BY <1>2, <2>1, <3>1, <3>2 DEF OneChange
    <3>4. \A u \in Speakers : c.levels[u] # NoLevel
      BY <1>1, LevelIs
    <3>5. \A u \in Speakers, level \in 0..3 : WillBe(x, u, level) => WillBe(x, u, level)'
      BY <2>1, <3>1, <3>2, <3>4 DEF WillBe
    <3>6. \A u \in Speakers : wanted[x][u] \in 0..3
      BY <1>1 DEF Changes
    <3>7. Collected(x)'
      BY <1>2, <2>2, <3>5, <3>6 DEF Collected
    <3> QED
      BY <3>3, <3>7
  <2> QED
    BY <1>1, <1>2, <1>5, <1>6, <2>1, <2>2, OrderlyBut
<1>7. CASE levels' = levels /\ disturbed' = disturbed \cup {x}
  BY <1>1, <1>2, <1>5, <1>7, OrderlyBut
<1> QED
  BY <1>4, <1>6, <1>7

LEMMA OrderlyFails ==
  ASSUME AccessTypes, Orderly, NEW c \in changing, FetchFails(c)
  PROVE  Orderly'
<1>1. c.room \in Rooms
  BY AccessTypeFacts DEF ChangeType
<1>2. \A r \in Rooms : r # c.room => Underway(r)' = Underway(r)
  BY DEF Underway, FetchFails
<1>3. UNCHANGED <<levels, cached, requested, wanted, timer>> /\ disturbed' = disturbed \cup {c.room}
  BY DEF FetchFails
<1> QED
  BY <1>1, <1>2, <1>3, OrderlyBut

LEMMA OrderlyEcho ==
  ASSUME AccessTypes, Orderly, OnMatrixPowerlevelEvent
  PROVE  Orderly'
<1>1. Head(echoes) \in EchoType
  BY AccessTypeFacts, HeadTailProperties DEF OnMatrixPowerlevelEvent
<1>2. PICK x \in Rooms, told \in LevelsOf :
        /\ cached' = [cached EXCEPT ![x] = <<told>>]
        /\ disturbed' = IF told # levels[x] \/ \E c \in changing : c.room = x
                        THEN disturbed \cup {x} ELSE disturbed
  <2>1. Head(echoes).room \in Rooms /\ Head(echoes).levels \in LevelsOf
    BY <1>1 DEF EchoType
  <2> QED
    BY <2>1 DEF OnMatrixPowerlevelEvent
<1>3. UNCHANGED <<levels, requested, wanted, timer, changing>>
  BY DEF OnMatrixPowerlevelEvent
<1>4. \A r \in Rooms : Underway(r)' = Underway(r)
  BY <1>3 DEF Underway
<1>5. cached'[x][1] = told /\ \A r \in Rooms : r # x => cached'[r] = cached[r]
  <2>1. cached'[x] = <<told>>
    BY <1>2, AccessTypeFacts
  <2> QED
    BY <1>2, <2>1, AccessTypeFacts
<1>6. x \in disturbed' \/ (Underway(x) = {} /\ told = levels[x])
  BY <1>2 DEF Underway
<1>7. Underway(x) = {} /\ told = levels[x] => OneChange(x)'
  BY <1>3, <1>4, <1>5 DEF OneChange
<1>8. Collected(x) => Collected(x)'
  BY <1>3, <1>4 DEF Collected, WillBe
<1>9. disturbed \subseteq disturbed'
  BY <1>2
<1> QED
  BY <1>2, <1>3, <1>4, <1>5, <1>6, <1>7, <1>8, <1>9, OrderlyBut

LEMMA OrderlyKept ==
  ASSUME AccessTypes, Orderly, [AccessNext]_accessVars
  PROVE  Orderly'
<1>1. CASE UNCHANGED accessVars
  BY <1>1, OrderlyModes DEF accessVars
<1>2. ASSUME NEW u \in Speakers, NEW m \in {"o", "v"}, SetMode(u, m)
      PROVE  Orderly'
  BY <1>2, OrderlyModes DEF SetMode
<1>3. CASE OnMode
  BY <1>3, OrderlyModes DEF OnMode
<1> QED
  BY <1>1, <1>2, <1>3, OrderlyLines, OrderlyLevels, OrderlyFetch, OrderlyTimer, OrderlyRemove,
     OrderlyChange, OrderlySend, OrderlyFails, OrderlyEcho DEF AccessNext

LEMMA AccessStart ==
  ASSUME AccessInit
  PROVE  AccessInv
<1>1. \A r \in Rooms : Underway(r) = {}
  BY DEF AccessInit, Underway
<1>2. AccessTypes
  <2>1. AccessTypeOK
    BY RoomAccessAssumption, ChangeOf DEF AccessInit, AccessTypeOK, NoLevel
  <2> QED
    BY <2>1, EmptySeq, ChangeOf DEF AccessInit, AccessTypes, LevelsOf
<1>3. Orderly
  BY <1>1, ChangeOf DEF AccessInit, Orderly, OneChange, Collected
<1> QED
  BY <1>2, <1>3 DEF AccessInv

LEMMA AccessInvHolds == AccessSpec => []AccessInv
<1>1. AccessInv /\ [AccessNext]_accessVars => AccessInv'
  BY AccessTypesKept, OrderlyKept DEF AccessInv
<1> QED
  BY <1>1, AccessStart, PTL DEF AccessSpec

(***************************************************************************)
(* The data of the access syncer keep their form: what is collected, sent, *)
(* cached and echoed are power levels of the room's speakers.              *)
(***************************************************************************)
THEOREM AccessTyping == AccessSpec => []AccessTypeOK
<1>1. AccessInv => AccessTypeOK
  BY DEF AccessInv, AccessTypes
<1> QED
  BY <1>1, AccessInvHolds, PTL

(***************************************************************************)
(* Once no timer of a room runs and no request for it is out, whoever had  *)
(* his level changed on IRC has the level asked for last, however many     *)
(* modes, rooms and grace periods there are, whatever comes in between     *)
(* (RoomAccessSyncer.ts, setPowerLevel to the end of its timer), except in *)
(* a room LevelsKept calls disturbed.                                      *)
(***************************************************************************)
THEOREM LevelsKeptHolds == AccessSpec => []LevelsKept
<1>1. ASSUME AccessInv
      PROVE  LevelsKept
  <2>1. SUFFICES ASSUME NEW r \in Rooms \ (disturbed \cup timer), ~\E c \in changing : c.room = r,
                        NEW u \in Speakers, wanted[r][u] # NoLevel
                 PROVE  levels[r][u] = wanted[r][u]
    BY DEF LevelsKept
  <2>2. Collected(r) /\ Underway(r) = {}
    BY <1>1, <2>1 DEF AccessInv, Orderly, Underway
  <2> QED
    BY <2>1, <2>2 DEF Collected, WillBe
<1> QED
  BY <1>1, AccessInvHolds, PTL
------------------------------------------------------------------------------
\* PrivateRooms: who makes a room, and where it is remembered.
AskPcs == {"idle", "looking", "looked", "waits", "creating", "storing", "announcing", "found",
           "querying", "inviting", "sending", "ok", "error"}
AskType == [pc : AskPcs, room : 0..MaxRooms, tries : 1..MaxTries, priv : Inquiries \cup {NoAsk}]
Memberships == {"join", "invite", "leave"}
ObjType == [membership: Memberships, hears: BOOLEAN]
MemberEvents == [room : RoomIds, membership : Memberships]
Waits == {"idle", "looking", "looked", "waits"}
HasRoom == {"storing", "announcing", "found", "querying", "inviting", "sending"}

\* What an ask knows at each point.
AskFacts(a) ==
  /\ asks[a].pc \in HasRoom \/ outcome[a] = "made" => asks[a].room # 0
  /\ asks[a].pc \in Waits => outcome[a] = "none"
  /\ asks[a].pc = "waits" => asks[a].priv \in Inquiries

PrivateTypes ==
  /\ PrivateTypeOK /\ kind \in {"pm", "admin"}
  /\ asks \in [Inquiries -> AskType] /\ events \in Seq(MemberEvents)
  /\ \A a \in Inquiries : AskFacts(a)

\* The rooms the bridge made.  One ask makes a room at a time, the promise is its, and a
\* room that was made is remembered by the promise, or by the store.
Made == {i \in DOMAIN rooms : rooms[i] = "bridge"}
Making == {"creating", "storing", "announcing"}
Sole ==
  /\ \A a \in Inquiries : /\ outcome[a] # "failed"
                          /\ asks[a].pc \in Making => promise = a
                          /\ asks[a].pc = "creating" => Made = {}
                          /\ asks[a].pc = "announcing" => kind = "admin" /\ stored # 0
  /\ \A i, j \in Made : i = j
  /\ promise = NoAsk /\ Made # {} =>
       /\ stored # 0
       /\ kind = "pm" => \A a \in Inquiries : asks[a].pc = "looked" => asks[a].room # 0

PrivateInv == PrivateTypes /\ (excuse \/ Sole)
------------------------------------------------------------------------------
LEMMA PrivateTypeFacts ==
  ASSUME PrivateTypes
  PROVE  /\ stored \in 0..Len(rooms) /\ rooms \in Seq({"bridge", "user"}) /\ Len(rooms) \in 0..MaxRooms
         /\ promise \in Inquiries \cup {NoAsk} /\ kind \in {"pm", "admin"}
         /\ outcome \in [Inquiries -> {"none", "pending", "made", "failed"}]
         /\ objs \in [Inquiries -> ObjType] /\ tracked \in [RoomIds -> Inquiries \cup {NoAsk}]
         /\ member \in [RoomIds -> Memberships] /\ asks \in [Inquiries -> AskType]
         /\ events \in Seq(MemberEvents) /\ \A a \in Inquiries : AskFacts(a)
         /\ \A a \in Inquiries : /\ asks[a] \in AskType /\ asks[a].room \in 0..Len(rooms)
                                 /\ asks[a].pc \in AskPcs /\ asks[a].tries \in 1..MaxTries
                                 /\ asks[a].priv \in Inquiries \cup {NoAsk}
<1>1. Len(rooms) \in Nat
  BY LenProperties DEF PrivateTypes, PrivateTypeOK
<1>2. Len(rooms) \in 0..MaxRooms
  BY <1>1, PrivateRoomsAssumption DEF PrivateTypes, PrivateTypeOK
<1>3. asks \in [Inquiries -> AskType]
  BY DEF PrivateTypes
<1>4. \A a \in Inquiries : /\ asks[a] \in AskType
                           /\ asks[a].pc \in AskPcs /\ asks[a].tries \in 1..MaxTries
                           /\ asks[a].priv \in Inquiries \cup {NoAsk}
  BY <1>3 DEF AskType
<1> QED
  BY <1>2, <1>4 DEF PrivateTypes, PrivateTypeOK, ObjType, Memberships

LEMMA PrivateTypeParts ==
  ASSUME stored' \in 0..Len(rooms'), rooms' \in Seq({"bridge", "user"}), Len(rooms') <= MaxRooms,
         promise' \in Inquiries \cup {NoAsk}, kind' \in {"pm", "admin"},
         outcome' \in [Inquiries -> {"none", "pending", "made", "failed"}],
         objs' \in [Inquiries -> ObjType], tracked' \in [RoomIds -> Inquiries \cup {NoAsk}],
         member' \in [RoomIds -> Memberships], asks' \in [Inquiries -> AskType],
         events' \in Seq(MemberEvents),
         \A a \in Inquiries : asks'[a].room \in 0..Len(rooms') /\ AskFacts(a)'
  PROVE  PrivateTypes'
<1>1. \A a \in Inquiries : asks'[a].tries \in 1..MaxTries
  BY DEF AskType
<1> QED
  BY <1>1 DEF PrivateTypes, PrivateTypeOK, ObjType, Memberships

\* One ask goes on.
LEMMA AskAtFacts ==
  ASSUME PrivateTypes
  PROVE  \A pc \in AskPcs, room \in 0..Len(rooms), tries \in 1..MaxTries, priv \in Inquiries \cup {NoAsk} :
           LET x == AskAt(pc, room, tries, priv) IN
           x \in AskType /\ x.pc = pc /\ x.room = room /\ x.tries = tries /\ x.priv = priv
<1>1. \A room \in 0..Len(rooms) : room \in 0..MaxRooms
  BY PrivateTypeFacts, PrivateRoomsAssumption
<1> QED
  BY <1>1 DEF AskType, AskAt

\* An ask that goes on and takes nothing with it.
LEMMA JustGoes ==
  ASSUME PrivateTypes, NEW a \in Inquiries, NEW pc \in AskPcs, GoTo(a, pc)
  PROVE  /\ asks' \in [Inquiries -> AskType]
         /\ asks'[a].pc = pc /\ asks'[a].room = asks[a].room /\ asks'[a].priv = asks[a].priv
         /\ \A b \in Inquiries : b # a => asks'[b] = asks[b]
<1> DEFINE x == AskAt(pc, asks[a].room, asks[a].tries, asks[a].priv)
<1>1. asks' = [asks EXCEPT ![a] = x]
  BY DEF GoTo
<1>2. x \in AskType /\ x.pc = pc /\ x.room = asks[a].room /\ x.priv = asks[a].priv
  BY AskAtFacts, PrivateTypeFacts
<1> HIDE DEF x
<1> QED
  BY <1>1, <1>2, PrivateTypeFacts

\* The asks that stand still keep their facts.
LEMMA OthersKeep ==
  ASSUME PrivateTypes, NEW a \in Inquiries, \A b \in Inquiries : b # a => asks'[b] = asks[b],
         \A b \in Inquiries : b # a => outcome'[b] = outcome[b],
         Len(rooms') \in Nat, Len(rooms) <= Len(rooms'),
         asks'[a].room \in 0..Len(rooms'), AskFacts(a)'
  PROVE  \A b \in Inquiries : asks'[b].room \in 0..Len(rooms') /\ AskFacts(b)'
<1>1. SUFFICES ASSUME NEW b \in Inquiries, b # a
               PROVE  asks'[b].room \in 0..Len(rooms') /\ AskFacts(b)'
  OBVIOUS
<1>2. asks'[b] = asks[b] /\ outcome'[b] = outcome[b]
  BY <1>1
<1>3. AskFacts(b) /\ asks[b].room \in 0..Len(rooms)
  BY PrivateTypeFacts
<1> QED
  BY <1>2, <1>3, PrivateTypeFacts DEF AskFacts

\* Asking, and finding out.
LEMMA InquireTypes ==
  ASSUME PrivateTypes, NEW a \in Inquiries,
         Inquire(a) \/ LookedUp(a) \/ EnsureQueries(a) \/ SendAction(a)
  PROVE  PrivateTypes'
<1> USE PrivateTypeFacts
<1>1. UNCHANGED <<kind, stored, rooms, outcome, promise, tracking>>
  BY DEF Inquire, LookedUp, EnsureQueries, SendAction
<1>2. CASE Inquire(a)
  <2>1. GoTo(a, "looking") /\ asks[a].pc = "idle"
    BY <1>2 DEF Inquire, At
  <2>2. /\ asks' \in [Inquiries -> AskType] /\ asks'[a].pc = "looking" /\ asks'[a].room = asks[a].room
        /\ \A b \in Inquiries : b # a => asks'[b] = asks[b]
    BY <2>1, JustGoes DEF AskPcs
  <2>3. AskFacts(a)'
    BY <1>1, <2>1, <2>2 DEF AskFacts, Waits, HasRoom
  <2> QED
    BY <1>1, <2>2, <2>3, OthersKeep, PrivateTypeParts DEF tracking
<1>3. CASE LookedUp(a)
  <2>1. asks[a].pc = "looking"
    BY <1>3 DEF LookedUp, At
  <2>2. /\ asks' \in [Inquiries -> AskType] /\ asks'[a].pc \in {"looked", "error"}
        /\ asks'[a].room \in 0..Len(rooms) /\ \A b \in Inquiries : b # a => asks'[b] = asks[b]
    <3>1. CASE asks' = [asks EXCEPT ![a] = AskAt("looked", stored, asks[a].tries, asks[a].priv)]
      <4> DEFINE x == AskAt("looked", stored, asks[a].tries, asks[a].priv)
      <4>1. asks' = [asks EXCEPT ![a] = x]
        BY <3>1
      <4>2. x \in AskType /\ x.pc = "looked" /\ x.room = stored
        BY AskAtFacts DEF AskPcs
      <4> HIDE DEF x
      <4> QED
        BY <4>1, <4>2
    <3>2. CASE GoTo(a, "error")
      BY <3>2, JustGoes DEF AskPcs
    <3> QED
      BY <1>3, <3>1, <3>2 DEF LookedUp
  <2>3. AskFacts(a)'
    BY <1>1, <2>1, <2>2 DEF AskFacts, Waits, HasRoom
  <2> QED
    BY <1>1, <2>2, <2>3, OthersKeep, PrivateTypeParts DEF tracking
<1>4. ASSUME NEW pc \in {"querying", "ok", "error"}, GoTo(a, pc), asks[a].pc \in HasRoom
      PROVE  PrivateTypes'
  <2>1. /\ asks' \in [Inquiries -> AskType] /\ asks'[a].pc = pc /\ asks'[a].room = asks[a].room
        /\ \A b \in Inquiries : b # a => asks'[b] = asks[b]
    BY <1>4, JustGoes DEF AskPcs
  <2>2. AskFacts(a)'
    BY <1>1, <1>4, <2>1 DEF AskFacts, Waits, HasRoom
  <2> QED
    BY <1>1, <2>1, <2>2, OthersKeep, PrivateTypeParts DEF tracking
<1>5. CASE EnsureQueries(a)
  BY <1>4, <1>5 DEF EnsureQueries, At, HasRoom
<1>6. CASE SendAction(a)
  BY <1>4, <1>6 DEF SendAction, At, HasRoom
<1> QED
  BY <1>2, <1>3, <1>5, <1>6

LEMMA CreatesTypes ==
  ASSUME PrivateTypes, NEW a \in Inquiries, Creates(a)
  PROVE  /\ asks' \in [Inquiries -> AskType] /\ asks'[a].pc = "creating" /\ asks'[a].room = asks[a].room
         /\ \A b \in Inquiries : b # a => asks'[b] = asks[b]
         /\ outcome' \in [Inquiries -> {"none", "pending", "made", "failed"}]
         /\ outcome'[a] = "pending" /\ \A b \in Inquiries : b # a => outcome'[b] = outcome[b]
         /\ promise' = a /\ AskFacts(a)'
<1>1. GoTo(a, "creating") /\ promise' = a /\ outcome' = [outcome EXCEPT ![a] = "pending"]
  BY DEF Creates
<1>2. /\ asks' \in [Inquiries -> AskType] /\ asks'[a].pc = "creating" /\ asks'[a].room = asks[a].room
      /\ \A b \in Inquiries : b # a => asks'[b] = asks[b]
  BY <1>1, JustGoes DEF AskPcs
<1>3. /\ outcome' \in [Inquiries -> {"none", "pending", "made", "failed"}]
      /\ outcome'[a] = "pending" /\ \A b \in Inquiries : b # a => outcome'[b] = outcome[b]
  BY <1>1, PrivateTypeFacts
<1>4. AskFacts(a)'
  BY <1>2, <1>3 DEF AskFacts, Waits, HasRoom
<1> QED
  BY <1>1, <1>2, <1>3, <1>4

LEMMA FindsTypes ==
  ASSUME PrivateTypes, NEW a \in Inquiries, NEW r \in 0..Len(rooms), r # 0, Finds(a, r), outcome' = outcome
  PROVE  /\ asks' \in [Inquiries -> AskType] /\ asks'[a].pc = "found" /\ asks'[a].room = r
         /\ \A b \in Inquiries : b # a => asks'[b] = asks[b]
         /\ AskFacts(a)'
<1>1. /\ asks' \in [Inquiries -> AskType] /\ asks'[a].pc = "found" /\ asks'[a].room = r
      /\ \A b \in Inquiries : b # a => asks'[b] = asks[b]
  <2> DEFINE x == AskAt("found", r, asks[a].tries, asks[a].priv)
  <2>1. asks' = [asks EXCEPT ![a] = x]
    BY DEF Finds
  <2>2. x \in AskType /\ x.pc = "found" /\ x.room = r
    BY AskAtFacts, PrivateTypeFacts DEF AskPcs
  <2> HIDE DEF x
  <2> QED
    BY <2>1, <2>2, PrivateTypeFacts
<1>2. AskFacts(a)'
  BY <1>1 DEF AskFacts, Waits, HasRoom
<1> QED
  BY <1>1, <1>2

LEMMA ResumeTypes ==
  ASSUME PrivateTypes, NEW a \in Inquiries, Resume(a) \/ Waited(a)
  PROVE  PrivateTypes'
<1> USE PrivateTypeFacts
<1>1. UNCHANGED <<kind, stored, rooms, tracking>>
  BY DEF Resume, Waited
<1>2. CASE Creates(a)
  BY <1>1, <1>2, CreatesTypes, OthersKeep, PrivateTypeParts DEF tracking
<1>3. ASSUME NEW r \in 0..Len(rooms), r # 0, Finds(a, r), outcome' = outcome, promise' = promise
      PROVE  PrivateTypes'
  <2>1. /\ asks' \in [Inquiries -> AskType] /\ asks'[a].room = r
        /\ \A b \in Inquiries : b # a => asks'[b] = asks[b]
        /\ AskFacts(a)'
    BY <1>3, FindsTypes
  <2> QED
    BY <1>1, <1>3, <2>1, OthersKeep, PrivateTypeParts DEF tracking
<1>4. CASE Resume(a)
  <2>1. asks[a].pc = "looked"
    BY <1>4 DEF Resume, At
  <2>2. CASE asks[a].room # 0
    BY <1>3, <1>4, <2>2 DEF Resume
  <2>3. CASE /\ promise # NoAsk /\ UNCHANGED <<outcome, promise>>
             /\ asks' = [asks EXCEPT ![a] = AskAt("waits", asks[a].room, asks[a].tries, promise)]
    <3>1. /\ asks' \in [Inquiries -> AskType] /\ asks'[a].pc = "waits" /\ asks'[a].room = asks[a].room
          /\ asks'[a].priv = promise /\ \A b \in Inquiries : b # a => asks'[b] = asks[b]
      <4> DEFINE x == AskAt("waits", asks[a].room, asks[a].tries, promise)
      <4>1. asks' = [asks EXCEPT ![a] = x]
        BY <2>3
      <4>2. x \in AskType /\ x.pc = "waits" /\ x.room = asks[a].room /\ x.priv = promise
        BY AskAtFacts DEF AskPcs
      <4> HIDE DEF x
      <4> QED
        BY <4>1, <4>2
    <3>2. AskFacts(a)'
      BY <2>1, <2>3, <3>1 DEF AskFacts, Waits, HasRoom
    <3> QED
      BY <1>1, <2>3, <3>1, <3>2, OthersKeep, PrivateTypeParts DEF tracking
  <2> QED
    BY <1>2, <1>4, <2>2, <2>3 DEF Resume
<1>5. CASE Waited(a)
  <2>1. asks[a].pc = "waits" /\ asks[a].priv \in Inquiries
    BY <1>5 DEF Waited, At, AskFacts
  <2>2. CASE outcome[asks[a].priv] = "made" /\ Finds(a, asks[asks[a].priv].room) /\ UNCHANGED <<outcome, promise>>
    <3>1. asks[asks[a].priv].room # 0
      BY <2>1, <2>2 DEF AskFacts
    <3> QED
      BY <1>3, <2>1, <2>2, <3>1
  <2>3. CASE GoTo(a, "error") /\ UNCHANGED <<outcome, promise>>
    <3>1. /\ asks' \in [Inquiries -> AskType] /\ asks'[a].pc = "error" /\ asks'[a].room = asks[a].room
          /\ \A b \in Inquiries : b # a => asks'[b] = asks[b]
      BY <2>3, JustGoes DEF AskPcs
    <3>2. AskFacts(a)'
      BY <2>1, <2>3, <3>1 DEF AskFacts, Waits, HasRoom
    <3> QED
      BY <1>1, <2>3, <3>1, <3>2, OthersKeep, PrivateTypeParts DEF tracking
  <2> QED
    BY <1>2, <1>5, <2>2, <2>3 DEF Waited
<1> QED
  BY <1>4, <1>5

LEMMA AskFailsTypes ==
  ASSUME PrivateTypes, NEW a \in Inquiries, AskFails(a)
  PROVE  /\ asks' \in [Inquiries -> AskType] /\ asks'[a].room = asks[a].room
         /\ \A b \in Inquiries : b # a => asks'[b] = asks[b]
         /\ outcome' \in [Inquiries -> {"none", "pending", "made", "failed"}]
         /\ \A b \in Inquiries : b # a => outcome'[b] = outcome[b]
         /\ AskFacts(a)'
<1>1. GoTo(a, "error") /\ outcome' = [outcome EXCEPT ![a] = "failed"]
  BY DEF AskFails
<1>2. /\ asks' \in [Inquiries -> AskType] /\ asks'[a].pc = "error" /\ asks'[a].room = asks[a].room
      /\ \A b \in Inquiries : b # a => asks'[b] = asks[b]
  BY <1>1, JustGoes DEF AskPcs
<1>3. /\ outcome' \in [Inquiries -> {"none", "pending", "made", "failed"}]
      /\ outcome'[a] = "failed" /\ \A b \in Inquiries : b # a => outcome'[b] = outcome[b]
  BY <1>1, PrivateTypeFacts
<1>4. AskFacts(a)'
  BY <1>2, <1>3 DEF AskFacts, Waits, HasRoom
<1> QED
  BY <1>2, <1>3, <1>4

\* Making a room.
LEMMA CreateRoomTypes ==
  ASSUME PrivateTypes, NEW a \in Inquiries, CreateRoom(a)
  PROVE  PrivateTypes'
<1> USE PrivateTypeFacts
<1>1. asks[a].pc = "creating" /\ UNCHANGED <<kind, stored, promise, objs, tracked, events>>
  BY DEF CreateRoom, At
<1>2. CASE /\ Len(rooms) < MaxRooms /\ rooms' = Append(rooms, "bridge") /\ UNCHANGED outcome
           /\ asks' = [asks EXCEPT ![a] = AskAt("storing", Len(rooms) + 1, asks[a].tries, asks[a].priv)]
           /\ member' = [member EXCEPT ![Len(rooms) + 1] = IF kind = "admin" THEN "invite" ELSE "leave"]
  <2>1. rooms' \in Seq({"bridge", "user"}) /\ Len(rooms') = Len(rooms) + 1
    BY <1>2, AppendProperties
  <2>2. Len(rooms) + 1 \in 0..MaxRooms /\ Len(rooms) \in Nat /\ Len(rooms) + 1 # 0
    BY <1>2, PrivateRoomsAssumption
  <2> DEFINE x == AskAt("storing", Len(rooms) + 1, asks[a].tries, asks[a].priv)
  <2>3. x \in AskType /\ x.pc = "storing" /\ x.room = Len(rooms) + 1
    BY <2>2 DEF AskType, AskAt, AskPcs
  <2>4. asks' = [asks EXCEPT ![a] = x]
    BY <1>2
  <2> HIDE DEF x
  <2>5. asks' \in [Inquiries -> AskType] /\ asks'[a] = x /\ \A b \in Inquiries : b # a => asks'[b] = asks[b]
    BY <2>3, <2>4
  <2>6. AskFacts(a)'
    BY <1>2, <2>2, <2>3, <2>5 DEF AskFacts, Waits, HasRoom
  <2>7. member' \in [RoomIds -> Memberships]
    <3>1. (IF kind = "admin" THEN "invite" ELSE "leave") \in Memberships
      BY DEF Memberships
    <3> QED
      BY <1>2, <3>1
  <2>8. stored' \in 0..Len(rooms') /\ Len(rooms') <= MaxRooms /\ asks'[a].room \in 0..Len(rooms')
        /\ Len(rooms') \in Nat /\ Len(rooms) <= Len(rooms')
    BY <1>1, <2>1, <2>2, <2>3, <2>5
  <2>9. \A b \in Inquiries : asks'[b].room \in 0..Len(rooms') /\ AskFacts(b)'
    <3>1. /\ \A b \in Inquiries : b # a => asks'[b] = asks[b]
          /\ \A b \in Inquiries : b # a => outcome'[b] = outcome[b]
      BY <1>2, <2>5
    <3>2. /\ Len(rooms') \in Nat /\ Len(rooms) <= Len(rooms')
          /\ asks'[a].room \in 0..Len(rooms') /\ AskFacts(a)'
      BY <2>6, <2>8
    <3> HIDE PrivateTypeFacts
    <3> QED
      BY <3>1, <3>2, OthersKeep
  <2> QED
    BY <1>1, <1>2, <2>1, <2>5, <2>7, <2>8, <2>9, PrivateTypeParts
<1>3. CASE /\ asks[a].tries > 1 /\ UNCHANGED <<rooms, member, outcome>>
           /\ asks' = [asks EXCEPT ![a] = AskAt(asks[a].pc, asks[a].room, asks[a].tries - 1, asks[a].priv)]
  <2>1. asks[a].tries - 1 \in 1..MaxTries
    BY <1>3, PrivateRoomsAssumption
  <2>2. /\ asks' \in [Inquiries -> AskType] /\ asks'[a].pc = asks[a].pc /\ asks'[a].room = asks[a].room
        /\ asks'[a].priv = asks[a].priv /\ \A b \in Inquiries : b # a => asks'[b] = asks[b]
    <3> DEFINE x == AskAt(asks[a].pc, asks[a].room, asks[a].tries - 1, asks[a].priv)
    <3>1. asks' = [asks EXCEPT ![a] = x]
      BY <1>3
    <3>2. x \in AskType /\ x.pc = asks[a].pc /\ x.room = asks[a].room /\ x.priv = asks[a].priv
      BY <2>1, AskAtFacts
    <3> HIDE DEF x
    <3> QED
      BY <3>1, <3>2
  <2>3. AskFacts(a)'
    BY <1>3, <2>2 DEF AskFacts
  <2> QED
    BY <1>1, <1>3, <2>2, <2>3, OthersKeep, PrivateTypeParts
<1>4. CASE AskFails(a) /\ UNCHANGED <<rooms, member>>
  <2>1. \A b \in Inquiries : asks'[b].room \in 0..Len(rooms') /\ AskFacts(b)'
    BY <1>4, AskFailsTypes, OthersKeep
  <2> QED
    BY <1>1, <1>4, <2>1, AskFailsTypes, PrivateTypeParts
<1> QED
  BY <1>2, <1>3, <1>4 DEF CreateRoom

LEMMA StoreRoomTypes ==
  ASSUME PrivateTypes, NEW a \in Inquiries, StoreRoom(a) \/ Announce(a)
  PROVE  PrivateTypes'
<1> USE PrivateTypeFacts
<1>1. UNCHANGED <<kind, rooms, tracking>> /\ asks[a].pc \in {"storing", "announcing"}
  BY DEF StoreRoom, Announce, At
<1>2. stored' \in 0..Len(rooms') /\ promise' \in Inquiries \cup {NoAsk}
  BY <1>1 DEF StoreRoom, Announce
<1>3. CASE AskFails(a)
  <2>1. \A b \in Inquiries : asks'[b].room \in 0..Len(rooms') /\ AskFacts(b)'
    BY <1>1, <1>3, AskFailsTypes, OthersKeep
  <2> QED
    BY <1>1, <1>2, <1>3, <2>1, AskFailsTypes, PrivateTypeParts DEF tracking
<1>4. ASSUME NEW pc \in {"found", "announcing"}, GoTo(a, pc),
             outcome' = [outcome EXCEPT ![a] = "made"] \/ outcome' = outcome
      PROVE  PrivateTypes'
  <2>1. /\ asks' \in [Inquiries -> AskType] /\ asks'[a].pc = pc /\ asks'[a].room = asks[a].room
        /\ \A b \in Inquiries : b # a => asks'[b] = asks[b]
    BY <1>4, JustGoes DEF AskPcs
  <2>2. /\ outcome' \in [Inquiries -> {"none", "pending", "made", "failed"}]
        /\ \A b \in Inquiries : b # a => outcome'[b] = outcome[b]
    BY <1>4
  <2>3. asks[a].room # 0
    BY <1>1 DEF AskFacts, HasRoom
  <2>4. AskFacts(a)'
    BY <1>4, <2>1, <2>3 DEF AskFacts, Waits
  <2>5. \A b \in Inquiries : asks'[b].room \in 0..Len(rooms') /\ AskFacts(b)'
    <3>1. rooms' = rooms /\ asks'[a].room \in 0..Len(rooms) /\ Len(rooms) \in Nat
      BY <1>1, <2>1
    <3>2. Len(rooms') \in Nat /\ Len(rooms) <= Len(rooms') /\ asks'[a].room \in 0..Len(rooms')
      BY <3>1
    <3> HIDE PrivateTypeFacts
    <3> QED
      BY <2>1, <2>2, <2>4, <3>2, OthersKeep
  <2> QED
    BY <1>1, <1>2, <2>1, <2>2, <2>5, PrivateTypeParts DEF tracking
<1> QED
  BY <1>3, <1>4 DEF StoreRoom, Announce

\* The user's membership, and the invite.
LEMMA ObjTypes ==
  ASSUME PrivateTypes, NEW o, NEW m \in Memberships
  PROVE  /\ [objs EXCEPT ![o] = Obj(m, FALSE)] \in [Inquiries -> ObjType]
         /\ [objs EXCEPT ![o] = NewObj] \in [Inquiries -> ObjType]
         /\ [objs EXCEPT ![o] = Obj(m, objs[o].hears)] \in [Inquiries -> ObjType]
<1>1. NewObj \in ObjType /\ Obj(m, FALSE) \in ObjType
  BY DEF NewObj, Obj, ObjType, Memberships
<1>2. o \in Inquiries => Obj(m, objs[o].hears) \in ObjType
  BY PrivateTypeFacts DEF Obj, ObjType
<1> QED
  BY <1>1, <1>2, PrivateTypeFacts

LEMMA InvitesTypes ==
  ASSUME PrivateTypes, NEW a \in Inquiries, asks[a].pc \in HasRoom, NEW o \in Inquiries, Invites(a, o),
         outcome' = outcome
  PROVE  /\ asks' \in [Inquiries -> AskType] /\ asks'[a].pc \in {"sending", "inviting"}
         /\ asks'[a].room = asks[a].room /\ \A b \in Inquiries : b # a => asks'[b] = asks[b]
         /\ AskFacts(a)'
<1>1. PICK pc \in {"sending", "inviting"} :
        asks' = [asks EXCEPT ![a] = AskAt(pc, asks[a].room, asks[a].tries, o)]
  BY DEF Invites
<1> DEFINE x == AskAt(pc, asks[a].room, asks[a].tries, o)
<1>2. asks' = [asks EXCEPT ![a] = x]
  BY <1>1
<1>3. x \in AskType /\ x.pc = pc /\ x.room = asks[a].room
  BY AskAtFacts, PrivateTypeFacts DEF AskPcs
<1> HIDE DEF x
<1>4. /\ asks' \in [Inquiries -> AskType] /\ asks'[a].pc = pc
      /\ asks'[a].room = asks[a].room /\ \A b \in Inquiries : b # a => asks'[b] = asks[b]
  BY <1>2, <1>3, PrivateTypeFacts
<1>5. AskFacts(a)'
  BY <1>4, PrivateTypeFacts DEF AskFacts, Waits, HasRoom
<1> QED
  BY <1>4, <1>5

LEMMA MovesTypes ==
  ASSUME PrivateTypes, NEW r \in RoomIds, NEW m \in Memberships, Moves(r, m)
  PROVE  member' \in [RoomIds -> Memberships] /\ events' \in Seq(MemberEvents)
<1>1. [room |-> r, membership |-> m] \in MemberEvents
  BY DEF MemberEvents
<1> QED
  BY <1>1, PrivateTypeFacts, AppendProperties DEF Moves

LEMMA EnsureTypes ==
  ASSUME PrivateTypes, NEW a \in Inquiries, EnsureKnows(a) \/ Queried(a) \/ Invited(a)
  PROVE  PrivateTypes'
<1> USE PrivateTypeFacts
<1>1. UNCHANGED <<kind, stored, rooms, outcome, promise>> /\ asks[a].pc \in HasRoom
  BY DEF EnsureKnows, Queried, Invited, At, HasRoom
<1>2. asks[a].room \in RoomIds
  <2>1. asks[a].room # 0 /\ asks[a].room \in 0..Len(rooms) /\ Len(rooms) \in 0..MaxRooms
    BY <1>1 DEF AskFacts
  <2>2. MaxRooms \in Nat
    BY PrivateRoomsAssumption
  <2> HIDE PrivateTypeFacts
  <2> QED
    BY <2>1, <2>2 DEF RoomIds
<1>3. ASSUME NEW o \in Inquiries, Invites(a, o), tracked' \in [RoomIds -> Inquiries \cup {NoAsk}],
             objs' \in [Inquiries -> ObjType], UNCHANGED <<member, events>>
      PROVE  PrivateTypes'
  <2>1. \A b \in Inquiries : asks'[b].room \in 0..Len(rooms') /\ AskFacts(b)'
    BY <1>1, <1>3, InvitesTypes, OthersKeep
  <2> QED
    BY <1>1, <1>3, <2>1, InvitesTypes, PrivateTypeParts
<1>4. ASSUME GoTo(a, "sending"), tracked' = tracked, objs' \in [Inquiries -> ObjType],
             member' \in [RoomIds -> Memberships], events' \in Seq(MemberEvents)
      PROVE  PrivateTypes'
  <2>1. /\ asks' \in [Inquiries -> AskType] /\ asks'[a].pc = "sending" /\ asks'[a].room = asks[a].room
        /\ \A b \in Inquiries : b # a => asks'[b] = asks[b]
    BY <1>4, JustGoes DEF AskPcs
  <2>2. AskFacts(a)'
    BY <1>1, <2>1 DEF AskFacts, Waits, HasRoom
  <2>3. \A b \in Inquiries : asks'[b].room \in 0..Len(rooms') /\ AskFacts(b)'
    BY <1>1, <2>1, <2>2, OthersKeep
  <2> QED
    BY <1>1, <1>4, <2>1, <2>3, PrivateTypeParts
<1>5. CASE EnsureKnows(a)
  BY <1>2, <1>3, <1>5 DEF EnsureKnows
<1>6. CASE Queried(a)
  <2>1. CASE GoTo(a, "sending") /\ UNCHANGED <<objs, tracked>>
    BY <1>4, <1>6, <2>1 DEF Queried
  <2>2. CASE /\ \/ objs' = [objs EXCEPT ![a] = NewObj]
                \/ objs' = [objs EXCEPT ![a] = Obj(member[asks[a].room], FALSE)]
             /\ tracked' = [tracked EXCEPT ![asks[a].room] = a] /\ Invites(a, a)
    <3>1. objs' \in [Inquiries -> ObjType]
      <4>1. member[asks[a].room] \in Memberships
        BY <1>2
      <4>2. /\ [objs EXCEPT ![a] = NewObj] \in [Inquiries -> ObjType]
            /\ [objs EXCEPT ![a] = Obj(member[asks[a].room], FALSE)] \in [Inquiries -> ObjType]
        BY <4>1, ObjTypes
      <4> QED
        BY <2>2, <4>2
    <3>2. tracked' \in [RoomIds -> Inquiries \cup {NoAsk}]
      BY <2>2
    <3> QED
      BY <1>3, <1>6, <2>2, <3>1, <3>2 DEF Queried
  <2> QED
    BY <1>6, <2>1, <2>2 DEF Queried
<1>7. CASE Invited(a)
  <2>1. "invite" \in Memberships
    BY DEF Memberships
  <2>2. objs' \in [Inquiries -> ObjType]
    <3>1. [objs EXCEPT ![asks[a].priv] = Obj("invite", objs[asks[a].priv].hears)] \in [Inquiries -> ObjType]
      BY <2>1, ObjTypes
    <3> QED
      BY <1>7, <3>1 DEF Invited
  <2>3. member' \in [RoomIds -> Memberships] /\ events' \in Seq(MemberEvents)
    BY <1>2, <1>7, <2>1, MovesTypes DEF Invited
  <2> QED
    BY <1>4, <1>7, <2>2, <2>3 DEF Invited
<1> QED
  BY <1>5, <1>6, <1>7

LEMMA UserTypes ==
  ASSUME PrivateTypes,
         OnMatrixMemberEvent \/ (\E r \in RoomIds : UserMoves(r)) \/ InviteFromUser \/ InviteToPMRoom
  PROVE  PrivateTypes'
<1> USE PrivateTypeFacts
<1>1. UNCHANGED asked
  BY DEF OnMatrixMemberEvent, UserMoves, InviteFromUser, InviteToPMRoom
<1>2. \A b \in Inquiries : AskFacts(b)'
  BY <1>1 DEF asked, AskFacts
<1>3. UNCHANGED rooms => \A b \in Inquiries : asks'[b].room \in 0..Len(rooms')
  BY <1>1 DEF asked
<1>4. CASE OnMatrixMemberEvent
  <2>1. Head(events) \in MemberEvents /\ events' \in Seq(MemberEvents)
    BY <1>4, HeadTailProperties DEF OnMatrixMemberEvent
  <2>2. Head(events).membership \in Memberships
    BY <2>1 DEF MemberEvents
  <2>3. objs' \in [Inquiries -> ObjType]
    <3> DEFINE o == tracked[Head(events).room]
    <3>1. [objs EXCEPT ![o] = Obj(Head(events).membership, objs[o].hears)] \in [Inquiries -> ObjType]
      BY <2>2, ObjTypes
    <3> QED
      BY <1>4, <3>1 DEF OnMatrixMemberEvent
  <2> QED
    BY <1>1, <1>2, <1>3, <1>4, <2>1, <2>3, PrivateTypeParts DEF OnMatrixMemberEvent, asked
<1>5. CASE \E r \in RoomIds : UserMoves(r)
  <2>1. PICK r \in RoomIds, m \in Memberships :
          Moves(r, m) /\ UNCHANGED <<kind, stored, rooms, asked, objs, tracked>>
    BY <1>5 DEF UserMoves, Memberships
  <2>2. member' \in [RoomIds -> Memberships] /\ events' \in Seq(MemberEvents)
    BY <2>1, MovesTypes
  <2> QED
    BY <1>1, <1>2, <1>3, <2>1, <2>2, PrivateTypeParts DEF asked
<1>6. CASE InviteFromUser
  <2>1. rooms' = Append(rooms, "user") /\ Len(rooms) < MaxRooms /\ stored' = Len(rooms) + 1
        /\ member' = [member EXCEPT ![Len(rooms) + 1] = "join"]
        /\ UNCHANGED <<kind, asked, objs, tracked, events>>
    BY <1>6 DEF InviteFromUser
  <2>2. rooms' \in Seq({"bridge", "user"}) /\ Len(rooms') = Len(rooms) + 1
    BY <2>1, AppendProperties
  <2>3. Len(rooms') <= MaxRooms /\ stored' \in 0..Len(rooms')
    BY <2>1, <2>2, PrivateRoomsAssumption
  <2>4. \A b \in Inquiries : asks'[b].room \in 0..Len(rooms')
    BY <1>1, <2>2 DEF asked
  <2>5. member' \in [RoomIds -> Memberships]
    BY <2>1 DEF Memberships
  <2> QED
    BY <1>2, <2>1, <2>2, <2>3, <2>4, <2>5, PrivateTypeParts DEF asked
<1>7. CASE InviteToPMRoom
  BY <1>1, <1>2, <1>3, <1>7, PrivateTypeParts DEF InviteToPMRoom, asked
<1> QED
  BY <1>4, <1>5, <1>6, <1>7

LEMMA RestartTypes ==
  ASSUME PrivateTypes, Restart
  PROVE  /\ PrivateTypes'
         /\ \A a \in Inquiries : asks'[a].pc \in {"idle", "error"}
<1> USE PrivateTypeFacts
<1> DEFINE x(a) == AskAt("error", asks[a].room, asks[a].tries, asks[a].priv)
<1>1. \A a \in Inquiries : x(a) \in AskType /\ x(a).pc = "error" /\ x(a).room = asks[a].room
  <2>1. SUFFICES ASSUME NEW a \in Inquiries
                 PROVE  x(a) \in AskType /\ x(a).pc = "error" /\ x(a).room = asks[a].room
    OBVIOUS
  <2>2. asks[a].room \in 0..MaxRooms /\ "error" \in AskPcs
    BY PrivateRoomsAssumption DEF AskPcs
  <2> QED
    BY <2>2 DEF AskType, AskAt
<1>2. asks' = [a \in Inquiries |-> IF asks[a].pc = "idle" THEN asks[a] ELSE x(a)]
  BY DEF Restart
<1> HIDE DEF x
<1>3. asks' \in [Inquiries -> AskType]
  BY <1>1, <1>2
<1>4. \A a \in Inquiries : /\ asks'[a].room = asks[a].room
                           /\ \/ asks'[a].pc = "error"
                              \/ asks'[a].pc = "idle" /\ asks'[a] = asks[a]
  BY <1>1, <1>2
<1>5. \A a \in Inquiries : AskFacts(a)'
  BY <1>4 DEF Restart, AskFacts, Waits, HasRoom
<1>6. tracked' \in [RoomIds -> Inquiries \cup {NoAsk}] /\ events' \in Seq(MemberEvents)
  BY EmptySeq DEF Restart
<1> QED
  BY <1>3, <1>4, <1>5, <1>6, PrivateTypeParts DEF Restart

LEMMA PrivateTypesKept ==
  ASSUME PrivateTypes, [PrivateNext]_privateVars
  PROVE  PrivateTypes'
<1>1. CASE UNCHANGED privateVars
  <2>1. \A a \in Inquiries : asks'[a].room \in 0..Len(rooms') /\ AskFacts(a)'
    BY <1>1, PrivateTypeFacts DEF privateVars, asked, AskFacts
  <2> QED
    BY <1>1, <2>1, PrivateTypeFacts, PrivateTypeParts DEF privateVars, asked, tracking
<1> QED
  BY <1>1, InquireTypes, ResumeTypes, CreateRoomTypes, StoreRoomTypes, EnsureTypes, UserTypes, RestartTypes
     DEF PrivateNext
------------------------------------------------------------------------------
LEMMA RoomsUnchanged ==
  ASSUME rooms' = rooms
  PROVE  Made' = Made
  BY DEF Made

\* A room is added.
LEMMA MadeMore ==
  ASSUME PrivateTypes, NEW who \in {"bridge", "user"}, rooms' = Append(rooms, who)
  PROVE  Made' = IF who = "bridge" THEN Made \cup {Len(rooms) + 1} ELSE Made
<1> USE PrivateTypeFacts
<1>1. /\ Len(rooms) \in Nat /\ DOMAIN rooms = 1..Len(rooms) /\ DOMAIN rooms' = 1..(Len(rooms) + 1)
      /\ \A i \in 1..Len(rooms) : rooms'[i] = rooms[i]
      /\ rooms'[Len(rooms) + 1] = who
  <2>1. rooms \in Seq({"bridge", "user"})
    OBVIOUS
  <2> HIDE PrivateTypeFacts
  <2> QED
    BY <2>1, LenProperties, AppendProperties
<1> HIDE PrivateTypeFacts
<1>2. DOMAIN rooms' = DOMAIN rooms \cup {Len(rooms) + 1} /\ Len(rooms) + 1 \notin DOMAIN rooms
  BY <1>1
<1> QED
  BY <1>1, <1>2 DEF Made

\* What one ask's step leaves of the rest.
LEMMA SoleKept ==
  ASSUME Sole, NEW a \in Inquiries, \A b \in Inquiries : b # a => asks'[b] = asks[b],
         \A b \in Inquiries : b # a => outcome'[b] = outcome[b],
         UNCHANGED <<rooms, stored, kind, promise>>,
         outcome'[a] # "failed", asks'[a].pc \in Making => promise = a,
         asks'[a].pc = "creating" => Made = {},
         asks'[a].pc = "announcing" => kind = "admin" /\ stored # 0,
         asks'[a].pc = "looked" => asks'[a].room # 0 \/ kind = "admin" \/ stored = 0
  PROVE  Sole'
<1>1. Made' = Made
  BY RoomsUnchanged
<1>2. \A b \in Inquiries : /\ outcome'[b] # "failed"
                           /\ asks'[b].pc \in Making => promise' = b
                           /\ asks'[b].pc = "creating" => Made = {}
                           /\ asks'[b].pc = "announcing" => kind = "admin" /\ stored # 0
  BY DEF Sole
<1>3. promise' = NoAsk /\ Made # {} =>
        /\ stored # 0
        /\ kind = "pm" => \A b \in Inquiries : asks'[b].pc = "looked" => asks'[b].room # 0
  BY DEF Sole
<1> QED
  BY <1>1, <1>2, <1>3 DEF Sole

LEMMA InquireSole ==
  ASSUME PrivateTypes, Sole, NEW a \in Inquiries,
         Inquire(a) \/ LookedUp(a) \/ EnsureQueries(a) \/ EnsureKnows(a) \/ Queried(a) \/ Invited(a)
           \/ SendAction(a)
  PROVE  Sole'
<1>1. UNCHANGED <<kind, stored, rooms, outcome, promise>>
  BY DEF Inquire, LookedUp, EnsureQueries, EnsureKnows, Queried, Invited, SendAction, tracking
<1>2. PICK pc \in AskPcs \ (Making \cup {"waits"}), r \in 0..Len(rooms), tries \in 1..MaxTries,
           priv \in Inquiries \cup {NoAsk} :
        /\ asks' = [asks EXCEPT ![a] = AskAt(pc, r, tries, priv)]
        /\ pc = "looked" => r = stored
  <2>1. asks[a].room \in 0..Len(rooms) /\ asks[a].tries \in 1..MaxTries /\ asks[a].priv \in Inquiries \cup {NoAsk}
        /\ stored \in 0..Len(rooms)
    BY PrivateTypeFacts
  <2>2. CASE \E pc \in {"looking", "error", "querying", "ok", "sending"} : GoTo(a, pc)
    BY <2>1, <2>2 DEF GoTo, AskPcs, Making
  <2>3. CASE asks' = [asks EXCEPT ![a] = AskAt("looked", stored, asks[a].tries, asks[a].priv)]
    BY <2>1, <2>3 DEF AskPcs, Making
  <2>4. ASSUME NEW o \in Inquiries \cup {NoAsk}, Invites(a, o)
        PROVE  \E pc \in AskPcs \ (Making \cup {"waits"}), r \in 0..Len(rooms), tries \in 1..MaxTries,
                  priv \in Inquiries \cup {NoAsk} :
                 /\ asks' = [asks EXCEPT ![a] = AskAt(pc, r, tries, priv)]
                 /\ pc = "looked" => r = stored
    <3>1. PICK pc \in {"sending", "inviting"} :
            asks' = [asks EXCEPT ![a] = AskAt(pc, asks[a].room, asks[a].tries, o)]
      BY <2>4 DEF Invites
    <3>2. pc \in AskPcs \ (Making \cup {"waits"}) /\ pc # "looked"
      BY DEF AskPcs, Making
    <3> QED
      BY <2>1, <3>1, <3>2
  <2>5. CASE EnsureKnows(a)
    <3>1. asks[a].pc = "found"
      BY <2>5 DEF EnsureKnows, At
    <3>2. asks[a].room # 0 /\ asks[a].room \in 0..Len(rooms) /\ Len(rooms) \in 0..MaxRooms
      BY <3>1, PrivateTypeFacts DEF AskFacts, HasRoom
    <3>3. asks[a].room \in RoomIds
      BY <3>2, PrivateRoomsAssumption DEF RoomIds
    <3>4. tracked[asks[a].room] \in Inquiries \cup {NoAsk}
      BY <3>3, PrivateTypeFacts
    <3> QED
      BY <2>4, <2>5, <3>4 DEF EnsureKnows
  <2> QED
    <3>1. CASE Inquire(a) \/ EnsureQueries(a) \/ Invited(a) \/ SendAction(a)
      <4>1. \E pc \in {"looking", "error", "querying", "ok", "sending"} : GoTo(a, pc)
        BY <3>1 DEF Inquire, EnsureQueries, Invited, SendAction
      <4> QED
        BY <2>2, <4>1
    <3>2. CASE LookedUp(a)
      BY <2>2, <2>3, <3>2 DEF LookedUp
    <3>3. CASE Queried(a)
      <4>1. GoTo(a, "sending") \/ Invites(a, a)
        BY <3>3 DEF Queried
      <4> QED
        BY <2>2, <2>4, <4>1
    <3> QED
      BY <2>5, <3>1, <3>2, <3>3
<1> DEFINE x == AskAt(pc, r, tries, priv)
<1>3. x.pc = pc /\ x.room = r
  BY DEF AskAt
<1>4. asks' = [asks EXCEPT ![a] = x]
  BY <1>2
<1> HIDE DEF x
<1>5. asks'[a] = x /\ \A b \in Inquiries : b # a => asks'[b] = asks[b]
  BY <1>4, PrivateTypeFacts
<1>6. asks'[a].pc = pc /\ asks'[a].room = r /\ outcome'[a] # "failed"
  BY <1>1, <1>3, <1>5 DEF Sole
<1> QED
  BY <1>1, <1>2, <1>5, <1>6, SoleKept DEF Making

\* The promise there is keeps others from making a room.
LEMMA ResumeSole ==
  ASSUME PrivateTypes, Sole, NEW a \in Inquiries, Resume(a) \/ Waited(a), ~excuse'
  PROVE  Sole'
<1>1. UNCHANGED <<kind, stored, rooms>>
  BY DEF Resume, Waited
<1>2. CASE Resume(a) /\ asks[a].room = 0 /\ promise = NoAsk
  <2>1. Creates(a) /\ asks[a].pc = "looked" /\ (kind = "admin" => stored = 0)
    BY <1>2 DEF Resume, At
  <2>2. /\ asks'[a].pc = "creating" /\ \A b \in Inquiries : b # a => asks'[b] = asks[b]
        /\ outcome'[a] = "pending" /\ \A b \in Inquiries : b # a => outcome'[b] = outcome[b]
        /\ promise' = a
    BY <2>1, CreatesTypes
  <2>3. Made = {}
    BY <1>2, <2>1, PrivateTypeFacts DEF Sole
  <2>4. Made' = {}
    BY <1>1, <2>3, RoomsUnchanged
  <2>5. \A b \in Inquiries : b # a => asks[b].pc \notin Making
    BY <1>2, PrivateRoomsAssumption DEF Sole
  <2>6. \A b \in Inquiries : /\ outcome'[b] # "failed"
                             /\ asks'[b].pc \in Making => b = a
                             /\ asks'[b].pc # "announcing"
    BY <2>2, <2>5 DEF Sole, Making
  <2> QED
    BY <2>2, <2>4, <2>6 DEF Sole
<1>3. ASSUME NEW pc \in {"found", "waits", "error"}, asks'[a].pc = pc,
             \A b \in Inquiries : b # a => asks'[b] = asks[b], UNCHANGED <<outcome, promise>>
      PROVE  Sole'
  <2>1. outcome'[a] # "failed"
    BY <1>3 DEF Sole
  <2> QED
    BY <1>1, <1>3, <2>1, SoleKept DEF Making
<1>4. ASSUME NEW r, Finds(a, r), UNCHANGED <<outcome, promise>>
      PROVE  Sole'
  <2> DEFINE x == AskAt("found", r, asks[a].tries, asks[a].priv)
  <2>1. asks' = [asks EXCEPT ![a] = x] /\ x.pc = "found"
    BY <1>4 DEF Finds, AskAt
  <2> HIDE DEF x
  <2> QED
    BY <1>3, <1>4, <2>1, PrivateTypeFacts
<1>5. CASE Resume(a) /\ ~(asks[a].room = 0 /\ promise = NoAsk)
  <2>1. CASE asks[a].room # 0
    BY <1>4, <1>5, <2>1 DEF Resume
  <2>2. CASE asks[a].room = 0
    <3> DEFINE x == AskAt("waits", asks[a].room, asks[a].tries, promise)
    <3>1. asks' = [asks EXCEPT ![a] = x] /\ x.pc = "waits" /\ UNCHANGED <<outcome, promise>>
      BY <1>5, <2>2 DEF Resume, AskAt
    <3> HIDE DEF x
    <3> QED
      BY <1>3, <3>1, PrivateTypeFacts
  <2> QED
    BY <2>1, <2>2
<1>6. CASE Waited(a)
  <2>1. asks[a].priv \in Inquiries
    BY <1>6, PrivateTypeFacts DEF Waited, At, AskFacts
  <2>2. outcome[asks[a].priv] # "failed"
    BY <2>1 DEF Sole
  <2> QED
    BY <1>4, <1>6, <2>2 DEF Waited
<1> QED
  BY <1>2, <1>5, <1>6

LEMMA CreateSole ==
  ASSUME PrivateTypes, Sole, NEW a \in Inquiries, CreateRoom(a), ~excuse'
  PROVE  Sole'
<1>1. asks[a].pc = "creating" /\ UNCHANGED <<kind, stored, promise>>
  BY DEF CreateRoom, At
<1>2. promise = a /\ Made = {} /\ a # NoAsk
  BY <1>1, PrivateRoomsAssumption DEF Sole, Making
<1>3. ~AskFails(a)
  BY DEF AskFails
<1>4. CASE /\ rooms' = Append(rooms, "bridge") /\ UNCHANGED outcome
           /\ asks' = [asks EXCEPT ![a] = AskAt("storing", Len(rooms) + 1, asks[a].tries, asks[a].priv)]
  <2> DEFINE x == AskAt("storing", Len(rooms) + 1, asks[a].tries, asks[a].priv)
  <2>1. asks' = [asks EXCEPT ![a] = x] /\ x.pc = "storing"
    BY <1>4 DEF AskAt
  <2> HIDE DEF x
  <2>2. asks'[a].pc = "storing" /\ \A b \in Inquiries : b # a => asks'[b] = asks[b]
    BY <2>1, PrivateTypeFacts
  <2>3. Made' = {Len(rooms) + 1}
    BY <1>2, <1>4, MadeMore
  <2>4. \A b \in Inquiries : /\ outcome'[b] # "failed"
                             /\ asks'[b].pc \in Making => promise' = b
                             /\ asks'[b].pc # "creating"
                             /\ asks'[b].pc = "announcing" => kind' = "admin" /\ stored' # 0
    BY <1>1, <1>2, <1>4, <2>2 DEF Sole, Making
  <2> QED
    BY <1>1, <1>2, <2>3, <2>4 DEF Sole
<1>5. CASE /\ asks' = [asks EXCEPT ![a] = AskAt(asks[a].pc, asks[a].room, asks[a].tries - 1, asks[a].priv)]
           /\ UNCHANGED <<rooms, member, outcome>>
  <2> DEFINE x == AskAt(asks[a].pc, asks[a].room, asks[a].tries - 1, asks[a].priv)
  <2>1. asks' = [asks EXCEPT ![a] = x] /\ x.pc = "creating"
    BY <1>1, <1>5 DEF AskAt
  <2> HIDE DEF x
  <2>2. asks'[a].pc = "creating" /\ \A b \in Inquiries : b # a => asks'[b] = asks[b]
    BY <2>1, PrivateTypeFacts
  <2>3. outcome'[a] # "failed"
    BY <1>5 DEF Sole
  <2> QED
    BY <1>1, <1>2, <1>5, <2>2, <2>3, SoleKept
<1> QED
  BY <1>3, <1>4, <1>5 DEF CreateRoom

LEMMA StoreSole ==
  ASSUME PrivateTypes, Sole, NEW a \in Inquiries, StoreRoom(a) \/ Announce(a), ~excuse'
  PROVE  Sole'
<1>1. UNCHANGED <<kind, rooms>> /\ asks[a].pc \in {"storing", "announcing"}
  BY DEF StoreRoom, Announce, At
<1>2. promise = a /\ a # NoAsk /\ Made' = Made
  BY <1>1, PrivateRoomsAssumption, RoomsUnchanged DEF Sole, Making
<1>3. ~AskFails(a)
  BY DEF AskFails
<1>4. asks[a].room # 0
  BY <1>1, PrivateTypeFacts DEF AskFacts, HasRoom
<1>5. PICK pc \in {"found", "announcing"} :
        /\ GoTo(a, pc) /\ (pc = "announcing" => kind = "admin" /\ stored' # 0)
        /\ outcome' = [outcome EXCEPT ![a] = "made"] \/ outcome' = outcome
  BY <1>3, <1>4, PrivateTypeFacts DEF StoreRoom, Announce
<1>6. asks'[a].pc = pc /\ \A b \in Inquiries : b # a => asks'[b] = asks[b]
  BY <1>5, JustGoes DEF AskPcs
<1>7. \A b \in Inquiries : b # a => asks[b].pc \notin Making
  BY <1>2 DEF Sole
<1>8. \A b \in Inquiries : outcome'[b] # "failed"
  BY <1>5, PrivateTypeFacts DEF Sole
<1>9. promise' \in {promise, NoAsk} /\ (promise' = NoAsk => asks[a].pc = "announcing" /\ pc = "found" /\ stored' = stored)
  <2>1. CASE StoreRoom(a)
    BY <1>2, <2>1 DEF StoreRoom
  <2>2. CASE Announce(a)
    <3>1. asks[a].pc = "announcing" /\ GoTo(a, "found") /\ promise' = NoAsk /\ stored' = stored
      BY <1>3, <2>2 DEF Announce, At
    <3>2. asks'[a].pc = "found"
      BY <3>1, JustGoes DEF AskPcs
    <3> QED
      BY <1>6, <3>1, <3>2
  <2> QED
    BY <2>1, <2>2
<1>10. \A b \in Inquiries : /\ asks'[b].pc \in Making => b = a /\ pc = "announcing"
                            /\ asks'[b].pc # "creating"
  BY <1>6, <1>7 DEF Making
<1>11. CASE promise' = promise
  <2>1. \A b \in Inquiries : /\ asks'[b].pc \in Making => promise' = b
                             /\ asks'[b].pc = "announcing" => kind' = "admin" /\ stored' # 0
    BY <1>1, <1>2, <1>5, <1>10, <1>11 DEF Making
  <2> QED
    BY <1>2, <1>8, <1>10, <1>11, <2>1 DEF Sole
<1>12. CASE promise' = NoAsk
  <2>1. kind' = "admin" /\ stored' # 0
    BY <1>1, <1>9, <1>12 DEF Sole
  <2>2. \A b \in Inquiries : asks'[b].pc \notin Making
    BY <1>9, <1>10, <1>12
  <2> QED
    BY <1>2, <1>8, <2>1, <2>2 DEF Sole, Making
<1> QED
  BY <1>9, <1>11, <1>12

LEMMA UserSole ==
  ASSUME PrivateTypes, Sole, ~excuse',
         OnMatrixMemberEvent \/ (\E r \in RoomIds : UserMoves(r)) \/ InviteFromUser \/ InviteToPMRoom
  PROVE  Sole'
<1>1. UNCHANGED <<kind, asked>>
  BY DEF OnMatrixMemberEvent, UserMoves, InviteFromUser, InviteToPMRoom
<1>2. CASE UNCHANGED <<rooms, stored>>
  BY <1>1, <1>2, RoomsUnchanged DEF Sole, asked
<1>3. CASE InviteFromUser
  <2>1. Made' = Made
    BY <1>3, MadeMore DEF InviteFromUser
  <2>2. stored' # 0
    <3>1. Len(rooms) \in 0..MaxRooms /\ stored' = Len(rooms) + 1
      BY <1>3, PrivateTypeFacts DEF InviteFromUser
    <3> QED
      BY <3>1, PrivateRoomsAssumption
  <2> QED
    BY <1>1, <2>1, <2>2 DEF Sole, asked
<1>4. CASE InviteToPMRoom
  <2>1. Made' = Made /\ kind = "pm" /\ promise # NoAsk
    BY <1>4, RoomsUnchanged DEF InviteToPMRoom
  <2> QED
    BY <1>1, <2>1 DEF Sole, asked
<1> QED
  BY <1>2, <1>3, <1>4 DEF OnMatrixMemberEvent, UserMoves

LEMMA RestartSole ==
  ASSUME PrivateTypes, Sole, ~excuse', Restart
  PROVE  Sole'
<1>1. Made' = Made /\ UNCHANGED <<kind, stored, outcome, rooms>> /\ (stored # 0 \/ rooms = <<>>)
  BY RoomsUnchanged DEF Restart
<1>2. rooms = <<>> => Made = {}
  BY DEF Made
<1>3. \A a \in Inquiries : asks'[a].pc \notin Making /\ asks'[a].pc # "looked"
  BY RestartTypes DEF Making
<1> QED
  BY <1>1, <1>2, <1>3 DEF Sole, Making

LEMMA SoleHolds ==
  ASSUME PrivateTypes, excuse \/ Sole, [PrivateNext]_privateVars
  PROVE  (excuse \/ Sole)'
<1>1. excuse => excuse'
  BY DEF PrivateNext, privateVars, Inquire, LookedUp, Resume, Waited, CreateRoom, StoreRoom, Announce,
         EnsureQueries, EnsureKnows, Queried, Invited, SendAction, AskFails, OnMatrixMemberEvent,
         InviteFromUser, InviteToPMRoom, Restart, UserMoves
<1>2. CASE UNCHANGED privateVars
  BY <1>2 DEF privateVars, asked, Sole, Made
<1> QED
  BY <1>1, <1>2, InquireSole, ResumeSole, CreateSole, StoreSole, UserSole, RestartSole DEF PrivateNext

LEMMA PrivateStart ==
  ASSUME PrivateInit
  PROVE  PrivateInv
<1>1. NewAsk \in AskType /\ NewAsk.pc = "idle" /\ NewAsk.room = 0
  BY PrivateRoomsAssumption DEF NewAsk, AskAt, AskType, AskPcs
<1>2. NewObj \in ObjType
  BY DEF NewObj, Obj, ObjType, Memberships
<1>3. asks \in [Inquiries -> AskType] /\ \A a \in Inquiries : asks[a].pc = "idle" /\ asks[a].room = 0
  BY <1>1 DEF PrivateInit
<1>4. \A a \in Inquiries : AskFacts(a) /\ asks[a].tries \in 1..MaxTries
  BY <1>3 DEF PrivateInit, AskFacts, Waits, HasRoom, AskType
<1>5. rooms = <<>> /\ rooms \in Seq({"bridge", "user"}) /\ Len(rooms) = 0 /\ Made = {}
  BY EmptySeq DEF PrivateInit, Made
<1>6. PrivateTypeOK
  BY <1>2, <1>3, <1>4, <1>5, PrivateRoomsAssumption
     DEF PrivateInit, PrivateTypeOK, ObjType, Memberships
<1>7. PrivateTypes
  BY <1>3, <1>4, <1>6, EmptySeq DEF PrivateTypes, PrivateInit
<1>8. Sole
  BY <1>3, <1>5 DEF Sole, PrivateInit, Making
<1> QED
  BY <1>7, <1>8 DEF PrivateInv

LEMMA PrivateInvHolds == PrivateSpec => []PrivateInv
<1>1. PrivateInv /\ [PrivateNext]_privateVars => PrivateInv'
  BY PrivateTypesKept, SoleHolds DEF PrivateInv
<1> QED
  BY <1>1, PrivateStart, PTL DEF PrivateSpec

(***************************************************************************)
(* The data of the private rooms keep their form, and a room that is known *)
(* is one of the rooms that exist.                                         *)
(***************************************************************************)
THEOREM PrivateTyping == PrivateSpec => []PrivateTypeOK
<1>1. PrivateInv => PrivateTypeOK
  BY DEF PrivateInv, PrivateTypes
<1> QED
  BY <1>1, PrivateInvHolds, PTL

(***************************************************************************)
(* However many messages arrive at once, are retried or are interrupted by *)
(* the user's moves, the bridge makes one private room for a pair, and one *)
(* admin room (IrcHandler.ts, createPmRoom and getOrCreateAdminRoom): the  *)
(* shared promise and the store hand over to each other without a gap, up  *)
(* to the cases RoomsDoNotMultiply excuses.                                *)
(***************************************************************************)
THEOREM RoomsDoNotMultiplyHolds == PrivateSpec => []RoomsDoNotMultiply
<1>1. ASSUME PrivateInv
      PROVE  RoomsDoNotMultiply
  <2>1. SUFFICES ASSUME Sole
                 PROVE  Cardinality(Made) <= 1
    BY <1>1 DEF PrivateInv, RoomsDoNotMultiply, Made
  <2>2. CASE Made = {}
    BY <2>2, FS_EmptySet
  <2>3. CASE Made # {}
    <3>1. \E i \in Made : Made = {i}
      BY <2>1, <2>3 DEF Sole
    <3> QED
      BY <3>1, FS_Singleton
  <2> QED
    BY <2>2, <2>3
<1> QED
  BY <1>1, PrivateInvHolds, PTL
------------------------------------------------------------------------------
(* ChannelModes: the last line about a channel's secrecy that is not read  *)
(* says what the channel is, and what is done about the last one read goes *)
(* through one handler, which leaves the directory as the data store has it. *)

Pcs == {"idle", "visibility", "solving", "solved", "directory", "record", "store", "lock", "moderate", "moderating"}
ChanLineType == [chan : Chans, mode : Modes \cup {"is"}, on : BOOLEAN, is : SUBSET Modes]
HandlerType == [pc : Pcs, chan : Chans \cup {"none"}, mode : Modes, on : BOOLEAN,
                want : {"public", "private"}]
ModesForm ==
  /\ lines \in Seq(ChanLineType) /\ handlers \in [Handlers -> HandlerType]
  /\ \A h \in Handlers : handlers[h].pc \in Visibility => handlers[h].mode = "s" /\ handlers[h].chan \in Chans
  /\ failed \in BOOLEAN /\ crossed \in BOOLEAN

\* A line about the secrecy of c, and what it says; the last of them in s says v; there is none.
Tells(l, c) == l.chan = c /\ l.mode \in {"s", "is"}
Says(l) == IF l.mode = "is" THEN "s" \in l.is ELSE l.on
Latest(s, c, v) == \A i \in DOMAIN s :
  Tells(s[i], c) /\ (\A j \in DOMAIN s : j > i => ~Tells(s[j], c)) => Says(s[i]) = v
Silent(s, c) == \A i \in DOMAIN s : ~Tells(s[i], c)

Alone == \A g, h \in Handlers : handlers[g].pc \in Visibility /\ handlers[h].pc \in Visibility => g = h
ModesTold == \A c \in Chans :
  /\ Latest(lines, c, "s" \in flags[c])
  /\ Silent(lines, c) =>
       /\ \A h \in Handlers : handlers[h].pc = "visibility" /\ handlers[h].chan = c =>
            handlers[h].on = ("s" \in flags[c])
       /\ \/ \E h \in Handlers : handlers[h].pc = "visibility" /\ handlers[h].chan = c
          \/ secret[c] = "unknown" \/ (secret[c] = "yes") = ("s" \in flags[c])

\* What the directory should say of the room for channel c, which told something.
Right(c, v) == secret[c] # "unknown" /\ v = Visible(secret[c] = "yes")
AtRest == directory = recorded /\ ((\A c \in Chans : secret[c] = "unknown") \/ \E c \in Chans : Right(c, directory))
OnTheWay(h) ==
  LET x == handlers[h] IN
  /\ x.pc \in {"solving", "solved"} => secret[x.chan] # "unknown" /\ directory = recorded
  /\ x.pc = "solved" => x.want = recorded
  /\ x.pc \in {"directory", "record"} => Right(x.chan, x.want)
  /\ x.pc = "record" => directory = x.want
Solving == {"solving", "solved", "directory", "record"}
Published ==
  /\ (\A h \in Handlers : handlers[h].pc \notin Solving) => AtRest
  /\ \A h \in Handlers : OnTheWay(h)

ModesInv == ModesTypeOK /\ ModesForm /\ (~failed /\ ~crossed => Alone /\ ModesTold /\ Published)
------------------------------------------------------------------------------
(* Lines.                                                                  *)

LEMMA TellsAppended ==
  ASSUME NEW s \in Seq(ChanLineType), NEW l \in ChanLineType, NEW c, NEW v,
         IF Tells(l, c) THEN Says(l) = v ELSE Latest(s, c, v)
  PROVE  /\ Append(s, l) \in Seq(ChanLineType) /\ Latest(Append(s, l), c, v)
         /\ Silent(Append(s, l), c) => Silent(s, c) /\ ~Tells(l, c)
<1>. DEFINE t == Append(s, l)
            n == Len(s)
<1>1. /\ t \in Seq(ChanLineType) /\ n \in Nat /\ DOMAIN s = 1..n /\ DOMAIN t = 1..(n + 1)
      /\ t[n + 1] = l /\ \A i \in 1..n : t[i] = s[i]
  OBVIOUS
<1>. HIDE DEF t, n
<1>2. ASSUME NEW i \in DOMAIN t, Tells(t[i], c), \A j \in DOMAIN t : j > i => ~Tells(t[j], c)
      PROVE  Says(t[i]) = v
  <2>1. CASE i = n + 1
    BY <1>1, <1>2, <2>1
  <2>2. CASE i # n + 1
    <3>1. i \in 1..n /\ n + 1 > i /\ n + 1 \in DOMAIN t
      BY <1>1, <2>2
    <3>2. ~Tells(l, c)
      BY <1>1, <1>2, <3>1
    <3>3. \A j \in DOMAIN s : j > i => ~Tells(s[j], c)
      BY <1>1, <1>2
    <3>. QED  BY <1>1, <1>2, <3>1, <3>2, <3>3 DEF Latest
  <2>. QED  BY <2>1, <2>2
<1>3. Silent(t, c) => Silent(s, c) /\ ~Tells(l, c)
  <2>1. n + 1 \in DOMAIN t /\ \A i \in DOMAIN s : i \in DOMAIN t /\ t[i] = s[i]
    BY <1>1
  <2>. QED  BY <1>1, <2>1 DEF Silent
<1>. QED  BY <1>1, <1>2, <1>3 DEF Latest, t

LEMMA TellsRead ==
  ASSUME NEW s \in Seq(ChanLineType), s # <<>>, NEW c, NEW v, Latest(s, c, v)
  PROVE  /\ Head(s) \in ChanLineType /\ Tail(s) \in Seq(ChanLineType) /\ Latest(Tail(s), c, v)
         /\ Silent(Tail(s), c) => IF Tells(Head(s), c) THEN Says(Head(s)) = v ELSE Silent(s, c)
<1>. DEFINE t == Tail(s)
            n == Len(s)
<1>1. /\ t \in Seq(ChanLineType) /\ n \in Nat /\ n > 0 /\ DOMAIN s = 1..n /\ DOMAIN t = 1..(n - 1)
      /\ Head(s) = s[1] /\ s[1] \in ChanLineType /\ \A i \in DOMAIN t : t[i] = s[i + 1]
  OBVIOUS
<1>. HIDE DEF t, n
<1>2. \A j \in DOMAIN s : j = 1 \/ (j - 1 \in DOMAIN t /\ s[j] = t[j - 1])
  <2>. SUFFICES ASSUME NEW j \in DOMAIN s, j # 1 PROVE j - 1 \in DOMAIN t /\ s[j] = t[j - 1]
    OBVIOUS
  <2>1. j - 1 \in DOMAIN t /\ (j - 1) + 1 = j
    BY <1>1
  <2>. QED  BY <1>1, <2>1
<1>3. ASSUME NEW i \in DOMAIN t, Tells(t[i], c), \A j \in DOMAIN t : j > i => ~Tells(t[j], c)
      PROVE  Says(t[i]) = v
  <2>1. i + 1 \in DOMAIN s /\ i \in Nat /\ t[i] = s[i + 1]
    BY <1>1
  <2>2. ASSUME NEW j \in DOMAIN s, j > i + 1 PROVE ~Tells(s[j], c)
    <3>1. j # 1 /\ j - 1 > i
      BY <1>1, <2>1, <2>2
    <3>. QED  BY <1>2, <1>3, <3>1
  <2>. QED  BY <1>3, <2>1, <2>2 DEF Latest
<1>4. ASSUME Silent(t, c) PROVE IF Tells(Head(s), c) THEN Says(Head(s)) = v ELSE Silent(s, c)
  <2>1. 1 \in DOMAIN s /\ \A j \in DOMAIN s : j > 1 => ~Tells(s[j], c)
    BY <1>1, <1>2, <1>4 DEF Silent
  <2>2. \A j \in DOMAIN s : j = 1 \/ ~Tells(s[j], c)
    BY <1>2, <1>4 DEF Silent
  <2>. QED  BY <1>1, <2>1, <2>2 DEF Latest, Silent
<1>. QED  BY <1>1, <1>3, <1>4 DEF Latest, t

\* Lines put before those that are left.
LEMMA TellsPut ==
  ASSUME NEW p \in Seq(ChanLineType), NEW t \in Seq(ChanLineType), NEW c, NEW v, Latest(t, c, v),
         Silent(t, c) => \A i \in DOMAIN p : Tells(p[i], c) => Says(p[i]) = v
  PROVE  /\ p \o t \in Seq(ChanLineType) /\ Latest(p \o t, c, v)
         /\ Silent(p \o t, c) => Silent(p, c) /\ Silent(t, c)
<1>. DEFINE s == p \o t
            m == Len(p)
            n == Len(t)
<1>1. /\ s \in Seq(ChanLineType) /\ m \in Nat /\ n \in Nat /\ DOMAIN p = 1..m /\ DOMAIN t = 1..n
      /\ DOMAIN s = 1..(m + n)
      /\ \A i \in 1..m : s[i] = p[i]
      /\ \A i \in 1..n : s[m + i] = t[i]
  OBVIOUS
<1>. HIDE DEF s, m, n
<1>2. ASSUME NEW i \in DOMAIN t PROVE m + i \in DOMAIN s /\ s[m + i] = t[i]
  <2>1. m + i \in DOMAIN s
    BY <1>1
  <2>. QED  BY <1>1, <2>1
<1>3. \A i \in DOMAIN p : i \in DOMAIN s /\ s[i] = p[i]
  BY <1>1
<1>4. ASSUME NEW i \in DOMAIN s, Tells(s[i], c), \A j \in DOMAIN s : j > i => ~Tells(s[j], c)
      PROVE  Says(s[i]) = v
  <2>1. CASE i \in DOMAIN p
    <3>1. \A j \in DOMAIN t : m + j > i
      BY <1>1, <2>1
    <3>2. Silent(t, c)
      BY <1>2, <1>4, <3>1 DEF Silent
    <3>. QED  BY <1>3, <1>4, <2>1, <3>2
  <2>2. CASE i \notin DOMAIN p
    <3>. DEFINE k == i - m
    <3>1. k \in DOMAIN t /\ m + k = i
      BY <1>1, <2>2
    <3>2. s[i] = t[k]
      BY <1>2, <3>1
    <3>3. ASSUME NEW j \in DOMAIN t, j > k PROVE ~Tells(t[j], c)
      <4>1. m + j > i
        BY <1>1, <3>1, <3>3
      <4>. QED  BY <1>2, <1>4, <4>1
    <3>. QED  BY <1>4, <3>1, <3>2, <3>3 DEF Latest
  <2>. QED  BY <2>1, <2>2
<1>5. Silent(s, c) => Silent(p, c) /\ Silent(t, c)
  BY <1>2, <1>3 DEF Silent
<1>. QED  BY <1>1, <1>4, <1>5 DEF Latest, s

\* A change for each mode of a set.
Announces(p, c, set, on) ==
  /\ p \in Seq(ChanLineType)
  /\ \A i \in DOMAIN p : p[i].chan = c /\ p[i].mode \in set /\ Says(p[i]) = on
  /\ \A m \in set : \E i \in DOMAIN p : p[i].chan = c /\ p[i].mode = m

LEMMA ModeChangesOf ==
  ASSUME NEW set \in SUBSET Modes, NEW c \in Chans, NEW on \in BOOLEAN
  PROVE  Announces(ModeChanges(c, set, on), c, set, on)
<1>. DEFINE f == SetToSeq(set)
            n == Cardinality(set)
            p == ModeChanges(c, set, on)
<1>1. IsFiniteSet(Modes)
  <2>1. /\ IsFiniteSet({"s"}) /\ IsFiniteSet({"k"}) /\ IsFiniteSet({"i"}) /\ IsFiniteSet({"m"})
    BY FS_Singleton
  <2>2. IsFiniteSet({"s"} \cup {"k"}) /\ IsFiniteSet({"i"} \cup {"m"})
    BY <2>1, FS_Union
  <2>3. IsFiniteSet(({"s"} \cup {"k"}) \cup ({"i"} \cup {"m"}))
    BY <2>2, FS_Union
  <2>4. Modes = ({"s"} \cup {"k"}) \cup ({"i"} \cup {"m"})
    BY DEF Modes
  <2>. QED  BY <2>3, <2>4
<1>2. IsFiniteSet(set)
  BY <1>1, FS_Subset
<1>3. n \in Nat /\ ExistsBijection(1..n, set)
  BY <1>2, FS_CardinalityType
<1>4. f \in [1..n -> set] /\ IsInjective(f)
  <2>1. \E b \in [1..n -> set] : IsInjective(b)
    BY <1>3 DEF ExistsBijection, Bijection, Injection
  <2>. QED  BY <2>1 DEF SetToSeq
<1>. HIDE DEF f
<1>5. ASSUME NEW m \in set PROVE \E i \in 1..n : f[i] = m
  <2>. DEFINE image == {f[i] : i \in 1..n}
  <2>1. image \in SUBSET set
    BY <1>4
  <2>2. f \in Bijection(1..n, image)
    BY <1>4 DEF Bijection, Injection, Surjection, IsInjective
  <2>3. IsFiniteSet(1..n) /\ Cardinality(1..n) = n
    BY <1>3, FS_Interval
  <2>4. Cardinality(image) = n
    BY <2>2, <2>3, FS_Bijection DEF ExistsBijection
  <2>5. image = set
    BY <1>2, <2>1, <2>4, FS_Subset
  <2>. QED  BY <2>5
<1>6. DOMAIN f = 1..n /\ \A i \in 1..n : f[i] \in set
  BY <1>4
<1>7. /\ p = [i \in 1..n |-> [chan |-> c, mode |-> f[i], on |-> on, is |-> {}]]
  BY <1>6 DEF ModeChanges, f
<1>8. ASSUME NEW i \in 1..n
      PROVE  LET l == [chan |-> c, mode |-> f[i], on |-> on, is |-> {}]
             IN  l \in ChanLineType /\ l.chan = c /\ l.mode = f[i] /\ Says(l) = on
  BY <1>6 DEF ChanLineType, Says, Modes
<1>. HIDE DEF p, n
<1>9. /\ p \in Seq(ChanLineType) /\ DOMAIN p = 1..n
      /\ \A i \in 1..n : p[i].chan = c /\ p[i].mode = f[i] /\ Says(p[i]) = on
  BY <1>3, <1>7, <1>8
<1>. QED  BY <1>5, <1>6, <1>9 DEF p, Announces
------------------------------------------------------------------------------
LEMMA FirstStep ==
  /\ First["s"] = "visibility"
  /\ \A m \in Modes : m # "s" => First[m] \in {"store", "moderate"}
BY DEF First, Modes

LEMMA HandlerStep ==
  ASSUME NEW x \in HandlerType
  PROVE  /\ \A pc \in Pcs : [x EXCEPT !.pc = pc] \in HandlerType
         /\ \A v \in {"public", "private"} : [x EXCEPT !.want = v] \in HandlerType
BY DEF HandlerType

\* A handler goes on to pc, or is done.
LEMMA StepsTo ==
  ASSUME ModesForm, NEW h \in Handlers, NEW pc \in Pcs,
         handlers' = [handlers EXCEPT ![h].pc = pc] \/ (pc = "idle" /\ Ends(h))
  PROVE  /\ handlers' \in [Handlers -> HandlerType] /\ handlers'[h].pc = pc
         /\ \A g \in Handlers : g # h => handlers'[g] = handlers[g]
         /\ pc # "idle" => handlers'[h] = [handlers[h] EXCEPT !.pc = pc]
<1>1. handlers \in [Handlers -> HandlerType]
  BY DEF ModesForm
<1>2. CASE handlers' = [handlers EXCEPT ![h].pc = pc]
  <2>1. [handlers[h] EXCEPT !.pc = pc] \in HandlerType /\ [handlers[h] EXCEPT !.pc = pc].pc = pc
    BY <1>1, HandlerStep DEF HandlerType
  <2>2. handlers' = [handlers EXCEPT ![h] = [handlers[h] EXCEPT !.pc = pc]]
    BY <1>2
  <2>. QED  BY <1>1, <2>1, <2>2
<1>3. CASE pc = "idle" /\ Ends(h)
  <2>1. Idle \in HandlerType /\ Idle.pc = "idle"
    BY DEF Idle, HandlerType, Pcs, Modes
  <2>. QED  BY <1>1, <1>3, <2>1 DEF Ends
<1>. QED  BY <1>2, <1>3

\* What a step leaves as it is.
LEMMA AloneKept ==
  ASSUME Alone, \A g \in Handlers : handlers'[g].pc \in Visibility => handlers[g].pc \in Visibility
  PROVE  Alone'
BY DEF Alone

LEMMA ToldKept ==
  ASSUME ModesTold, UNCHANGED <<lines, flags, secret>>,
         \A g \in Handlers :
           /\ handlers'[g].pc = "visibility" <=> handlers[g].pc = "visibility"
           /\ handlers[g].pc = "visibility" => handlers'[g] = handlers[g]
  PROVE  ModesTold'
BY DEF ModesTold, Latest, Silent, Tells, Says

LEMMA PublishedKept ==
  ASSUME Published, UNCHANGED <<secret, directory, recorded>>,
         \A g \in Handlers :
           /\ handlers'[g].pc \in Solving <=> handlers[g].pc \in Solving
           /\ handlers[g].pc \in Solving => handlers'[g] = handlers[g]
  PROVE  Published'
<1>1. ASSUME NEW g \in Handlers PROVE OnTheWay(g)'
  BY <1>1 DEF Published, OnTheWay, Right, Solving
<1>2. AtRest => AtRest'
  BY DEF AtRest, Right
<1>. QED  BY <1>1, <1>2 DEF Published

\* A handler that has nothing to do with secrecy any more.
LEMMA ElsewhereShown ==
  ASSUME ModesForm, NEW h \in Handlers, NEW pc \in Pcs,
         handlers' = [handlers EXCEPT ![h].pc = pc] \/ (pc = "idle" /\ Ends(h)),
         handlers[h].pc \notin Visibility, pc \notin Visibility,
         Alone, ModesTold, Published, UNCHANGED <<lines, flags, secret, directory, recorded>>
  PROVE  Alone' /\ ModesTold' /\ Published'
<1>1. handlers'[h].pc = pc /\ \A g \in Handlers : g # h => handlers'[g] = handlers[g]
  BY StepsTo
<1>2. \A g \in Handlers : handlers'[g] = handlers[g]
        \/ (handlers'[g].pc \notin Visibility /\ handlers[g].pc \notin Visibility)
  BY <1>1
<1>3. "visibility" \in Visibility /\ Solving \subseteq Visibility
  BY DEF Visibility, Solving
<1>4. Alone'
  BY <1>2, AloneKept
<1>5. ModesTold'
  BY <1>2, <1>3, ToldKept
<1>6. Published'
  BY <1>2, <1>3, PublishedKept
<1>. QED  BY <1>4, <1>5, <1>6
------------------------------------------------------------------------------
(* What is said of modes, and read.                                        *)

\* A line is sent; the handlers stay.
LEMMA LineSent ==
  ASSUME ModesForm, Alone, ModesTold, Published, UNCHANGED <<handlers, secret, directory, recorded>>,
         NEW l \in ChanLineType, lines' = Append(lines, l),
         \A c \in Chans : IF Tells(l, c) THEN Says(l) = ("s" \in flags'[c])
                          ELSE ("s" \in flags'[c]) = ("s" \in flags[c])
  PROVE  Alone' /\ ModesTold' /\ Published'
<1>1. Alone' /\ Published'
  BY AloneKept, PublishedKept
<1>2. lines \in Seq(ChanLineType)
  BY DEF ModesForm
<1>3. ASSUME NEW c \in Chans
      PROVE  /\ Latest(lines', c, "s" \in flags'[c])
             /\ Silent(lines', c) => Silent(lines, c) /\ ("s" \in flags'[c]) = ("s" \in flags[c])
  <2>1. IF Tells(l, c) THEN Says(l) = ("s" \in flags'[c]) ELSE Latest(lines, c, "s" \in flags'[c])
    BY DEF ModesTold
  <2>2. /\ Latest(Append(lines, l), c, "s" \in flags'[c])
        /\ Silent(Append(lines, l), c) => Silent(lines, c) /\ ~Tells(l, c)
    BY <1>2, <2>1, TellsAppended
  <2>. QED  BY <2>2
<1>4. ModesTold'
  BY <1>3 DEF ModesTold
<1>. QED  BY <1>1, <1>4
LEMMA SetStep ==
  ASSUME ModesTypeOK, ModesForm, ~failed', Alone, ModesTold, Published,
         NEW c \in Chans, NEW mode \in Modes, SetChannelMode(c, mode)
  PROVE  Alone' /\ ModesTold' /\ Published'
<1>. DEFINE on == mode \notin flags[c]
            l == [chan |-> c, mode |-> mode, on |-> on, is |-> {}]
<1>1. /\ lines' = Append(lines, l) /\ UNCHANGED <<handlers, secret, directory, recorded>>
      /\ flags' = [flags EXCEPT ![c] = IF on THEN @ \cup {mode} ELSE @ \ {mode}]
  BY DEF SetChannelMode
<1>2. flags \in [Chans -> SUBSET Modes]
  BY DEF ModesTypeOK
<1>3. l \in ChanLineType /\ l.chan = c /\ l.mode = mode /\ l.on = on /\ mode # "is"
  BY DEF ChanLineType, Modes
<1>4. /\ \A d \in Chans : d # c => flags'[d] = flags[d]
      /\ ("s" \in flags'[c]) = IF mode = "s" THEN on ELSE "s" \in flags[c]
  BY <1>1, <1>2
<1>. HIDE DEF l, on
<1>5. \A d \in Chans : IF Tells(l, d) THEN Says(l) = ("s" \in flags'[d])
                       ELSE ("s" \in flags'[d]) = ("s" \in flags[d])
  BY <1>3, <1>4 DEF Tells, Says
<1>. QED  BY <1>1, <1>3, <1>5, LineSent

LEMMA AskStep ==
  ASSUME ModesTypeOK, ModesForm, Alone, ModesTold, Published, NEW c \in Chans, AskModes(c)
  PROVE  Alone' /\ ModesTold' /\ Published'
<1>. DEFINE l == [chan |-> c, mode |-> "is", on |-> TRUE, is |-> flags[c]]
<1>1. lines' = Append(lines, l) /\ UNCHANGED <<flags, handlers, secret, directory, recorded>>
  BY DEF AskModes
<1>2. l \in ChanLineType /\ l.chan = c /\ l.mode = "is" /\ l.is = flags[c]
  BY DEF ChanLineType, ModesTypeOK
<1>. HIDE DEF l
<1>3. \A d \in Chans : IF Tells(l, d) THEN Says(l) = ("s" \in flags'[d])
                       ELSE ("s" \in flags'[d]) = ("s" \in flags[d])
  BY <1>1, <1>2 DEF Tells, Says
<1>. QED  BY <1>1, <1>2, <1>3, LineSent

\* What onModeIs makes of a list says the same of secrecy.
LEMMA OnModeIsLines ==
  ASSUME ModesTypeOK, ModesForm, OnModeIs
  PROVE  /\ lines' \in Seq(ChanLineType)
         /\ \A c : \A v \in BOOLEAN : Latest(lines, c, v) =>
              Latest(lines', c, v) /\ (Silent(lines', c) => Silent(lines, c))
<1>. DEFINE l == Head(lines)
            off == IF "s" \notin l.is THEN {"s"} ELSE modes \ l.is
            p == ModeChanges(l.chan, l.is, TRUE)
            q == ModeChanges(l.chan, off, FALSE)
            t == Tail(lines)
<1>1. lines \in Seq(ChanLineType) /\ lines # <<>> /\ l.mode = "is" /\ lines' = p \o q \o t
  BY DEF ModesForm, OnModeIs
<1>2. l \in ChanLineType /\ t \in Seq(ChanLineType)
  BY <1>1
<1>3. l.is \in SUBSET Modes /\ l.chan \in Chans /\ off \in SUBSET Modes
  BY <1>2 DEF ChanLineType, ModesTypeOK, Modes
<1>4. /\ p \in Seq(ChanLineType)
      /\ \A i \in DOMAIN p : p[i].chan = l.chan /\ p[i].mode \in l.is /\ Says(p[i]) = TRUE
      /\ \A m \in l.is : \E i \in DOMAIN p : p[i].chan = l.chan /\ p[i].mode = m
  <2>1. Announces(p, l.chan, l.is, TRUE)
    BY <1>3, ModeChangesOf
  <2>. HIDE DEF p
  <2>. QED  BY <2>1 DEF Announces
<1>5. /\ q \in Seq(ChanLineType)
      /\ \A i \in DOMAIN q : q[i].chan = l.chan /\ q[i].mode \in off /\ Says(q[i]) = FALSE
      /\ \A m \in off : \E i \in DOMAIN q : q[i].chan = l.chan /\ q[i].mode = m
  <2>1. Announces(q, l.chan, off, FALSE)
    BY <1>3, ModeChangesOf
  <2>. HIDE DEF q
  <2>. QED  BY <2>1 DEF Announces
<1>6. "s" \in off <=> "s" \notin l.is
  OBVIOUS
<1>7. p \o q \in Seq(ChanLineType) /\ q \o t \in Seq(ChanLineType) /\ p \o q \o t = p \o (q \o t)
  <2>. HIDE DEF p, q, t
  <2>. QED  BY <1>2, <1>4, <1>5
<1>. HIDE DEF p, q, t, l, off
<1>8. /\ \A c : \A i \in DOMAIN p : Tells(p[i], c) => c = l.chan /\ "s" \in l.is
      /\ \A c : \A i \in DOMAIN q : Tells(q[i], c) => c = l.chan /\ "s" \notin l.is
  <2>1. "is" \notin l.is /\ "is" \notin off
    BY <1>3 DEF Modes
  <2>. QED  BY <1>4, <1>5, <1>6, <2>1 DEF Tells
<1>9. \A c : Silent(p, c) /\ Silent(q, c) => c # l.chan
  <2>1. CASE "s" \in l.is
    <3>1. PICK i \in DOMAIN p : p[i].chan = l.chan /\ p[i].mode = "s"
      BY <1>4, <2>1
    <3>. QED  BY <3>1 DEF Silent, Tells
  <2>2. CASE "s" \notin l.is
    <3>1. PICK i \in DOMAIN q : q[i].chan = l.chan /\ q[i].mode = "s"
      BY <1>5, <1>6, <2>2
    <3>. QED  BY <3>1 DEF Silent, Tells
  <2>. QED  BY <2>1, <2>2
<1>10. ASSUME NEW c, NEW v \in BOOLEAN, Latest(lines, c, v)
       PROVE  /\ lines' \in Seq(ChanLineType) /\ Latest(lines', c, v)
              /\ Silent(lines', c) => Silent(lines, c)
  <2>1. /\ Latest(t, c, v)
        /\ Silent(t, c) => IF Tells(l, c) THEN Says(l) = v ELSE Silent(lines, c)
    BY <1>1, <1>10, TellsRead DEF l, t
  <2>2. Tells(l, c) <=> c = l.chan
    BY <1>1 DEF Tells
  <2>3. Silent(t, c) /\ c = l.chan => v = ("s" \in l.is)
    BY <1>1, <2>1, <2>2 DEF Says
  <2>4. Silent(t, c) => \A i \in DOMAIN q : Tells(q[i], c) => Says(q[i]) = v
    <3>1. ASSUME Silent(t, c), c = l.chan, "s" \notin l.is PROVE v = FALSE
      <4>1. v = ("s" \in l.is)
        BY <2>3, <3>1
      <4>2. ~v
        BY <3>1, <4>1
      <4>. QED  BY <4>2
    <3>. QED  BY <1>5, <1>8, <3>1
  <2>5. Latest(q \o t, c, v) /\ (Silent(q \o t, c) => Silent(q, c) /\ Silent(t, c))
    BY <1>2, <1>5, <2>1, <2>4, TellsPut
  <2>6. Silent(q \o t, c) => \A i \in DOMAIN p : Tells(p[i], c) => Says(p[i]) = v
    <3>1. Silent(t, c) /\ c = l.chan /\ "s" \in l.is => v = TRUE
      BY <2>3
    <3>. QED  BY <1>4, <1>8, <2>5, <3>1
  <2>7. /\ p \o (q \o t) \in Seq(ChanLineType) /\ Latest(p \o (q \o t), c, v)
        /\ Silent(p \o (q \o t), c) => Silent(p, c) /\ Silent(q \o t, c)
    BY <1>4, <1>7, <2>5, <2>6, TellsPut
  <2>8. Silent(lines', c) => Silent(lines, c)
    BY <1>1, <1>7, <1>9, <2>1, <2>2, <2>5, <2>7
  <2>. QED  BY <1>1, <1>7, <2>7, <2>8
<1>11. lines' \in Seq(ChanLineType)
  BY <1>1, <1>2, <1>4, <1>5, <1>7
<1>. QED  BY <1>10, <1>11

LEMMA OnModeIsStep ==
  ASSUME ModesTypeOK, ModesForm, Alone, ModesTold, Published, OnModeIs
  PROVE  Alone' /\ ModesTold' /\ Published'
<1>1. UNCHANGED <<flags, handlers, secret, directory, recorded>>
  BY DEF OnModeIs
<1>2. Alone' /\ Published'
  BY <1>1, AloneKept, PublishedKept
<1>3. ASSUME NEW c \in Chans
      PROVE  Latest(lines', c, "s" \in flags[c]) /\ (Silent(lines', c) => Silent(lines, c))
  <2>. DEFINE v == "s" \in flags[c]
  <2>1. v \in BOOLEAN /\ Latest(lines, c, v)
    BY DEF ModesTold
  <2>. HIDE DEF v
  <2>2. Latest(lines', c, v) /\ (Silent(lines', c) => Silent(lines, c))
    BY <2>1, OnModeIsLines
  <2>. QED  BY <2>2 DEF v
<1>4. ModesTold'
  BY <1>1, <1>3 DEF ModesTold
<1>. QED  BY <1>2, <1>4

\* A handler takes a change of a mode.
LEMMA TakeStep ==
  ASSUME ModesTypeOK, ModesForm, ~crossed', Alone, ModesTold, Published, NEW h \in Handlers, OnChannelMode(h)
  PROVE  Alone' /\ ModesTold' /\ Published'
<1>. DEFINE l == Head(lines)
            x == [pc |-> First[l.mode], chan |-> l.chan, mode |-> l.mode, on |-> l.on, want |-> recorded]
<1>1. /\ lines # <<>> /\ l.mode # "is" /\ lines' = Tail(lines) /\ handlers[h] = Idle
      /\ handlers' = [handlers EXCEPT ![h] = x] /\ UNCHANGED <<flags, secret, directory, recorded>>
      /\ l.mode = "s" => \A g \in Handlers : handlers[g].pc \notin Visibility
  BY DEF OnChannelMode
<1>2. lines \in Seq(ChanLineType) /\ handlers \in [Handlers -> HandlerType]
  BY DEF ModesForm
<1>3. l \in ChanLineType
  BY <1>1, <1>2
<1>4. /\ x.chan = l.chan /\ x.on = l.on /\ l.mode \in Modes
      /\ x.pc = "visibility" <=> l.mode = "s"
      /\ x.pc # "visibility" => x.pc \notin Visibility
      /\ x.pc \notin Solving
  BY <1>1, <1>3, FirstStep DEF ChanLineType, Modes, Visibility, Solving
<1>5. ASSUME NEW c \in Chans
      PROVE  /\ Latest(Tail(lines), c, "s" \in flags[c])
             /\ Silent(Tail(lines), c) => IF Tells(l, c) THEN Says(l) = ("s" \in flags[c]) ELSE Silent(lines, c)
  <2>1. Latest(lines, c, "s" \in flags[c])
    BY DEF ModesTold
  <2>. QED  BY <1>1, <1>2, <2>1, TellsRead
<1>6. \A c \in Chans : Tells(l, c) <=> l.chan = c /\ l.mode = "s"
  BY <1>1 DEF Tells
<1>7. l.mode = "s" => Says(l) = l.on
  BY <1>1 DEF Says
<1>. HIDE DEF x, l
<1>8. handlers'[h] = x /\ \A g \in Handlers : g # h => handlers'[g] = handlers[g]
  BY <1>1, <1>2
<1>9. handlers[h].pc = "idle" /\ "idle" \notin Visibility /\ "idle" \notin Solving /\ "visibility" \in Visibility
  BY <1>1 DEF Idle, Visibility, Solving
<1>10. Alone'
  BY <1>1, <1>4, <1>8, <1>9 DEF Alone
<1>11. Published'
  <2>1. \A g \in Handlers : /\ handlers'[g].pc \in Solving <=> handlers[g].pc \in Solving
                            /\ handlers[g].pc \in Solving => handlers'[g] = handlers[g]
    BY <1>4, <1>8, <1>9
  <2>. QED  BY <1>1, <2>1, PublishedKept
<1>12. ASSUME NEW c \in Chans, Silent(Tail(lines), c)
       PROVE  /\ \A g \in Handlers : handlers'[g].pc = "visibility" /\ handlers'[g].chan = c =>
                   handlers'[g].on = ("s" \in flags[c])
              /\ \/ \E g \in Handlers : handlers'[g].pc = "visibility" /\ handlers'[g].chan = c
                 \/ secret[c] = "unknown" \/ (secret[c] = "yes") = ("s" \in flags[c])
  <2>1. CASE Tells(l, c)
    <3>1. /\ x.pc = "visibility" /\ x.chan = c /\ x.on = ("s" \in flags[c])
      BY <1>4, <1>5, <1>6, <1>7, <1>12, <2>1
    <3>2. \A g \in Handlers : handlers'[g].pc = "visibility" => g = h
      BY <1>8, <1>9, <1>10, <3>1 DEF Alone
    <3>. QED  BY <1>8, <3>1, <3>2
  <2>2. CASE ~Tells(l, c)
    <3>1. Silent(lines, c)
      BY <1>5, <1>12, <2>2
    <3>2. /\ \A g \in Handlers : handlers[g].pc = "visibility" /\ handlers[g].chan = c =>
               handlers[g].on = ("s" \in flags[c])
          /\ \/ \E g \in Handlers : handlers[g].pc = "visibility" /\ handlers[g].chan = c
             \/ secret[c] = "unknown" \/ (secret[c] = "yes") = ("s" \in flags[c])
      BY <3>1 DEF ModesTold
    <3>3. ~(x.pc = "visibility" /\ x.chan = c)
      BY <1>4, <1>6, <2>2
    <3>4. \A g \in Handlers : handlers'[g].pc = "visibility" /\ handlers'[g].chan = c => handlers'[g] = handlers[g]
      BY <1>8, <3>3
    <3>5. \A g \in Handlers : handlers[g].pc = "visibility" => handlers'[g] = handlers[g]
      BY <1>8, <1>9
    <3>. QED  BY <3>2, <3>4, <3>5
  <2>. QED  BY <2>1, <2>2
<1>13. ModesTold'
  BY <1>1, <1>5, <1>12 DEF ModesTold
<1>. QED  BY <1>10, <1>11, <1>13

\* What is known of a channel is changed.
LEMMA UpdateStep ==
  ASSUME ModesTypeOK, ModesForm, Alone, ModesTold, Published, NEW h \in Handlers, UpdateVisibilityMap(h)
  PROVE  Alone' /\ ModesTold' /\ Published'
<1>. DEFINE s == IF handlers[h].on THEN "yes" ELSE "no"
            c == handlers[h].chan
            pc == IF secret[c] = s THEN "store" ELSE "solving"
<1>1. /\ handlers[h].pc = "visibility" /\ secret' = [secret EXCEPT ![c] = s]
      /\ handlers' = [handlers EXCEPT ![h].pc = pc] /\ UNCHANGED <<flags, lines, directory, recorded>>
  BY DEF UpdateVisibilityMap, Steps
<1>2. pc \in Pcs /\ pc \in {"store", "solving"} /\ "solving" \in Solving /\ "store" \notin Solving
  BY DEF Pcs, Solving
<1>3. "visibility" \in Visibility /\ Solving \subseteq Visibility /\ "visibility" \notin Solving
  BY DEF Visibility, Solving
<1>4. c \in Chans /\ secret \in [Chans -> {"unknown", "yes", "no"}] /\ handlers[h].on \in BOOLEAN
  BY <1>1, <1>3 DEF ModesForm, ModesTypeOK, HandlerType
<1>5. /\ handlers'[h].pc = pc /\ handlers'[h] = [handlers[h] EXCEPT !.pc = pc]
      /\ \A g \in Handlers : g # h => handlers'[g] = handlers[g]
  BY <1>1, <1>2, StepsTo
<1>6. handlers'[h].chan = c
  BY <1>4, <1>5 DEF ModesForm, HandlerType
<1>7. /\ secret'[c] = s /\ s # "unknown" /\ (s = "yes") = handlers[h].on
      /\ \A d \in Chans : d # c => secret'[d] = secret[d]
      /\ pc = "store" => secret' = secret
  BY <1>1, <1>4
<1>. HIDE DEF s, c, pc
<1>8. \A g \in Handlers : g # h => handlers[g].pc \notin Visibility
  BY <1>1, <1>3 DEF Alone
<1>9. Alone'
  BY <1>1, <1>3, <1>5, AloneKept
<1>10. ASSUME NEW d \in Chans, Silent(lines, d)
       PROVE  secret'[d] = "unknown" \/ (secret'[d] = "yes") = ("s" \in flags[d])
  <2>1. CASE d = c
    <3>1. handlers[h].on = ("s" \in flags[d])
      BY <1>1, <1>10, <2>1 DEF ModesTold, c
    <3>. QED  BY <1>7, <2>1, <3>1
  <2>2. CASE d # c
    <3>1. ~ \E g \in Handlers : handlers[g].pc = "visibility" /\ handlers[g].chan = d
      BY <1>3, <1>8, <2>2 DEF c
    <3>2. secret[d] = "unknown" \/ (secret[d] = "yes") = ("s" \in flags[d])
      BY <1>10, <3>1 DEF ModesTold
    <3>. QED  BY <1>7, <2>2, <3>2
  <2>. QED  BY <2>1, <2>2
<1>11. ASSUME NEW g \in Handlers PROVE handlers'[g].pc # "visibility"
  <2>1. CASE g = h
    BY <1>2, <1>5, <2>1
  <2>2. CASE g # h
    <3>1. handlers[g].pc \notin Visibility /\ handlers'[g] = handlers[g]
      BY <1>5, <1>8, <2>2
    <3>. QED  BY <1>3, <3>1
  <2>. QED  BY <2>1, <2>2
<1>12. ModesTold'
  BY <1>1, <1>10, <1>11 DEF ModesTold, Latest, Silent, Tells, Says
<1>13. AtRest
  BY <1>1, <1>3, <1>8 DEF Published
<1>14. ASSUME NEW g \in Handlers PROVE OnTheWay(g)'
  <2>1. CASE g = h
    BY <1>1, <1>2, <1>5, <1>6, <1>7, <1>13, <2>1 DEF OnTheWay, AtRest
  <2>2. CASE g # h
    BY <1>3, <1>5, <1>8, <2>2 DEF OnTheWay, Solving
  <2>. QED  BY <2>1, <2>2
<1>15. (\A g \in Handlers : handlers'[g].pc \notin Solving) => AtRest'
  BY <1>1, <1>2, <1>5, <1>7, <1>13 DEF AtRest, Right
<1>. QED  BY <1>9, <1>12, <1>14, <1>15 DEF Published

\* The handler that has the directory to see to goes on, or is done with it.
LEMMA SolvingStep ==
  ASSUME ModesTypeOK, ModesForm, Alone, ModesTold, Published, UNCHANGED <<lines, flags, secret>>,
         NEW h \in Handlers, handlers[h].pc \in Solving,
         NEW x, handlers' = [handlers EXCEPT ![h] = x], x.pc \in (Solving \cup {"store"}) \ {"visibility"},
         IF x.pc = "store" THEN AtRest' ELSE OnTheWay(h)'
  PROVE  Alone' /\ ModesTold' /\ Published'
<1>1. "visibility" \notin Solving /\ "store" \notin Solving /\ Solving \subseteq Visibility
  BY DEF Visibility, Solving
<1>2. handlers'[h] = x /\ \A g \in Handlers : g # h => handlers'[g] = handlers[g]
  BY DEF ModesForm
<1>3. \A g \in Handlers : g # h => handlers[g].pc \notin Visibility
  BY <1>1 DEF Alone
<1>4. Alone'
  BY <1>1, <1>2, AloneKept
<1>5. ModesTold'
  <2>1. \A g \in Handlers : /\ handlers'[g].pc = "visibility" <=> handlers[g].pc = "visibility"
                            /\ handlers[g].pc = "visibility" => handlers'[g] = handlers[g]
    BY <1>1, <1>2
  <2>. QED  BY <2>1, ToldKept
<1>6. ASSUME NEW g \in Handlers PROVE OnTheWay(g)'
  <2>1. CASE g = h /\ x.pc # "store"
    BY <2>1
  <2>2. CASE g = h /\ x.pc = "store"
    BY <1>2, <2>2 DEF OnTheWay
  <2>3. CASE g # h
    BY <1>1, <1>2, <1>3, <2>3 DEF OnTheWay, Solving
  <2>. QED  BY <2>1, <2>2, <2>3
<1>7. (\A g \in Handlers : handlers'[g].pc \notin Solving) => AtRest'
  BY <1>2
<1>. QED  BY <1>4, <1>5, <1>6, <1>7 DEF Published

LEMMA DirectoryStep ==
  ASSUME ModesTypeOK, ModesForm, ~failed', Alone, ModesTold, Published, NEW h \in Handlers,
         RoomsVisibility(h) \/ SolveVisibility(h) \/ SetDirectoryVisibility(h) \/ SetRoomVisibility(h)
  PROVE  Alone' /\ ModesTold' /\ Published'
<1>. DEFINE y == handlers[h]
            c == y.chan
<1>1. handlers \in [Handlers -> HandlerType] /\ y \in HandlerType
  BY DEF ModesForm
<1>2. \A pc : LET x == [y EXCEPT !.pc = pc] IN
        handlers' = [handlers EXCEPT ![h].pc = pc] => handlers' = [handlers EXCEPT ![h] = x]
  BY <1>1
<1>3. \A pc : LET x == [y EXCEPT !.pc = pc] IN x.pc = pc /\ x.chan = c /\ x.want = y.want
  BY <1>1 DEF HandlerType
<1>4. \A pc, v : LET x == [y EXCEPT !.pc = pc, !.want = v] IN x.pc = pc /\ x.chan = c /\ x.want = v
  BY <1>1 DEF HandlerType
<1>5. \A x : handlers' = [handlers EXCEPT ![h] = x] => handlers'[h] = x
  BY <1>1
<1>6. OnTheWay(h)
  BY DEF Published
<1>. HIDE DEF c
<1>7. CASE RoomsVisibility(h)
  <2>. DEFINE x == [y EXCEPT !.pc = "solved", !.want = recorded]
  <2>1. /\ y.pc = "solving" /\ handlers' = [handlers EXCEPT ![h] = x]
        /\ UNCHANGED <<lines, flags, secret, directory, recorded>>
    BY <1>1, <1>7 DEF RoomsVisibility
  <2>2. x.pc = "solved" /\ x.chan = c /\ x.want = recorded
    BY <1>4
  <2>. HIDE DEF x
  <2>3. handlers'[h] = x
    BY <1>5, <2>1
  <2>4. OnTheWay(h)'
    BY <1>6, <2>1, <2>2, <2>3 DEF OnTheWay, c
  <2>5. y.pc \in Solving /\ x.pc \in (Solving \cup {"store"}) \ {"visibility"} /\ x.pc # "store"
    BY <2>1, <2>2 DEF Solving
  <2>. QED  BY <2>1, <2>4, <2>5, SolvingStep
<1>8. CASE SolveVisibility(h)
  <2>. DEFINE correct == Visible(secret[c] = "yes")
              pc == IF y.want = correct THEN "store" ELSE "directory"
              x == [y EXCEPT !.pc = pc, !.want = correct]
  <2>1. /\ y.pc = "solved" /\ handlers' = [handlers EXCEPT ![h] = x]
        /\ UNCHANGED <<lines, flags, secret, directory, recorded>>
    BY <1>1, <1>8 DEF SolveVisibility, c
  <2>2. x.pc = pc /\ x.chan = c /\ x.want = correct
    BY <1>4
  <2>3. Right(c, correct) /\ directory = recorded /\ y.want = recorded
    BY <1>6, <2>1 DEF OnTheWay, Right, c
  <2>4. c \in Chans
    BY <2>1 DEF ModesForm, Visibility, c
  <2>. HIDE DEF x, correct
  <2>5. handlers'[h] = x
    BY <1>5, <2>1
  <2>6. CASE y.want = correct
    <3>1. x.pc = "store" /\ AtRest'
      BY <2>1, <2>2, <2>3, <2>4, <2>6 DEF AtRest, Right
    <3>2. y.pc \in Solving /\ x.pc \in (Solving \cup {"store"}) \ {"visibility"}
      BY <2>1, <3>1 DEF Solving
    <3>. QED  BY <2>1, <3>1, <3>2, SolvingStep
  <2>7. CASE y.want # correct
    <3>1. x.pc = "directory"
      BY <2>2, <2>7
    <3>2. OnTheWay(h)'
      BY <2>1, <2>2, <2>3, <2>5, <3>1 DEF OnTheWay, Right
    <3>3. y.pc \in Solving /\ x.pc \in (Solving \cup {"store"}) \ {"visibility"} /\ x.pc # "store"
      BY <2>1, <3>1 DEF Solving
    <3>. QED  BY <2>1, <3>2, <3>3, SolvingStep
  <2>. QED  BY <2>6, <2>7
<1>9. CASE SetDirectoryVisibility(h)
  <2>. DEFINE x == [y EXCEPT !.pc = "record"]
  <2>1. /\ y.pc = "directory" /\ handlers' = [handlers EXCEPT ![h] = x] /\ directory' = y.want
        /\ UNCHANGED <<lines, flags, secret, recorded>>
    BY <1>2, <1>9 DEF SetDirectoryVisibility, Steps
  <2>2. x.pc = "record" /\ x.chan = c /\ x.want = y.want
    BY <1>3
  <2>. HIDE DEF x
  <2>3. handlers'[h] = x
    BY <1>5, <2>1
  <2>4. OnTheWay(h)'
    BY <1>6, <2>1, <2>2, <2>3 DEF OnTheWay, Right, c
  <2>5. y.pc \in Solving /\ x.pc \in (Solving \cup {"store"}) \ {"visibility"} /\ x.pc # "store"
    BY <2>1, <2>2 DEF Solving
  <2>. QED  BY <2>1, <2>4, <2>5, SolvingStep
<1>10. CASE SetRoomVisibility(h)
  <2>. DEFINE x == [y EXCEPT !.pc = "store"]
  <2>1. /\ y.pc = "record" /\ handlers' = [handlers EXCEPT ![h] = x] /\ recorded' = y.want
        /\ UNCHANGED <<lines, flags, secret, directory>>
    BY <1>2, <1>10 DEF SetRoomVisibility, Steps
  <2>2. x.pc = "store"
    BY <1>3
  <2>3. c \in Chans
    BY <2>1 DEF ModesForm, Visibility, c
  <2>. HIDE DEF x
  <2>4. AtRest'
    BY <1>6, <2>1, <2>3 DEF OnTheWay, AtRest, Right, c
  <2>5. y.pc \in Solving /\ x.pc \in (Solving \cup {"store"}) \ {"visibility"}
    BY <2>1, <2>2 DEF Solving
  <2>. QED  BY <2>1, <2>2, <2>4, <2>5, SolvingStep
<1>. QED  BY <1>7, <1>8, <1>9, <1>10

\* What follows is no matter of secrecy.
LEMMA ElseStep ==
  ASSUME ModesForm, Alone, ModesTold, Published, NEW h \in Handlers,
         \/ SetModeForRoom(h) \/ SetMatrixRoomAsInviteOnly(h) \/ OnModeratedChannelToggle(h) \/ Moderates(h)
  PROVE  Alone' /\ ModesTold' /\ Published'
<1>1. /\ {"store", "lock", "moderate", "moderating", "idle"} \subseteq Pcs
      /\ \A pc \in {"store", "lock", "moderate", "moderating", "idle"} : pc \notin Visibility
  BY DEF Pcs, Visibility
<1>2. /\ handlers[h].pc \in {"store", "lock", "moderate", "moderating"}
      /\ UNCHANGED <<lines, flags, secret, directory, recorded>>
      /\ Ends(h) \/ Steps(h, "lock") \/ Steps(h, "moderating")
  BY DEF SetModeForRoom, SetMatrixRoomAsInviteOnly, OnModeratedChannelToggle, Moderates
<1>3. CASE Ends(h)
  BY <1>1, <1>2, <1>3, ElsewhereShown
<1>4. CASE Steps(h, "lock")
  BY <1>1, <1>2, <1>4, ElsewhereShown DEF Steps
<1>5. CASE Steps(h, "moderating")
  BY <1>1, <1>2, <1>5, ElsewhereShown DEF Steps
<1>. QED  BY <1>2, <1>3, <1>4, <1>5
------------------------------------------------------------------------------
(* Types, the first states, and every step.                                *)

\* One handler becomes x.
LEMMA OneHandler ==
  ASSUME ModesForm, NEW h \in Handlers, NEW x \in HandlerType, handlers' = [handlers EXCEPT ![h] = x],
         x.pc \in Visibility => x.mode = "s" /\ x.chan \in Chans,
         lines' \in Seq(ChanLineType), failed' \in BOOLEAN, crossed' \in BOOLEAN
  PROVE  ModesForm'
BY DEF ModesForm

LEMMA ModesWants ==
  ASSUME ModesForm'
  PROVE  \A h \in Handlers : handlers'[h].mode \in Modes /\ handlers'[h].want \in {"public", "private"}
BY DEF ModesForm, HandlerType

LEMMA LinesTyping ==
  ASSUME ModesTypeOK, ModesForm,
         OnModeIs \/ \E c \in Chans : AskModes(c) \/ \E mode \in Modes : SetChannelMode(c, mode)
  PROVE  ModesTypeOK' /\ ModesForm'
<1>1. lines \in Seq(ChanLineType) /\ flags \in [Chans -> SUBSET Modes] /\ failed \in BOOLEAN
  BY DEF ModesForm, ModesTypeOK
<1>2. CASE OnModeIs
  <2>1. lines' \in Seq(ChanLineType)
    BY <1>2, OnModeIsLines
  <2>2. UNCHANGED <<flags, sent, handlers, secret, directory, recorded, modes, joinRule, moderated, failed, crossed>>
    BY <1>2 DEF OnModeIs
  <2>. QED  BY <2>1, <2>2 DEF ModesTypeOK, ModesForm
<1>3. ASSUME NEW c \in Chans, AskModes(c) PROVE ModesTypeOK' /\ ModesForm'
  <2>1. [chan |-> c, mode |-> "is", on |-> TRUE, is |-> flags[c]] \in ChanLineType
    BY <1>1 DEF ChanLineType
  <2>2. lines' \in Seq(ChanLineType)
    BY <1>1, <1>3, <2>1 DEF AskModes
  <2>3. ModesTypeOK'
    BY <1>3, ChannelModesAssumption DEF AskModes, ModesTypeOK
  <2>. QED  BY <1>3, <2>2, <2>3 DEF AskModes, ModesForm
<1>4. ASSUME NEW c \in Chans, NEW mode \in Modes, SetChannelMode(c, mode) PROVE ModesTypeOK' /\ ModesForm'
  <2>. DEFINE on == mode \notin flags[c]
              l == [chan |-> c, mode |-> mode, on |-> on, is |-> {}]
  <2>1. l \in ChanLineType
    BY DEF ChanLineType
  <2>2. (lines' = Append(lines, l) /\ failed' = failed) \/ (lines' = lines /\ failed' = TRUE)
    BY <1>4 DEF SetChannelMode
  <2>5. lines' \in Seq(ChanLineType) /\ failed' \in BOOLEAN
    <3>. HIDE DEF l
    <3>1. lines' \in Seq(ChanLineType)
      BY <1>1, <2>1, <2>2
    <3>2. failed' \in BOOLEAN
      BY <1>1, <2>2
    <3>. QED  BY <3>1, <3>2
  <2>3. flags' \in [Chans -> SUBSET Modes]
    BY <1>1, <1>4 DEF SetChannelMode
  <2>4. ModesTypeOK'
    BY <1>4, <2>3, ChannelModesAssumption DEF SetChannelMode, ModesTypeOK
  <2>. QED  BY <1>4, <2>5, <2>4 DEF SetChannelMode, ModesForm
<1>. QED  BY <1>2, <1>3, <1>4

LEMMA HandlersTyping ==
  ASSUME ModesTypeOK, ModesForm, NEW h \in Handlers,
         \/ OnChannelMode(h) \/ UpdateVisibilityMap(h) \/ RoomsVisibility(h) \/ SolveVisibility(h)
         \/ SetDirectoryVisibility(h) \/ SetRoomVisibility(h) \/ SetModeForRoom(h)
         \/ SetMatrixRoomAsInviteOnly(h) \/ OnModeratedChannelToggle(h) \/ Moderates(h)
  PROVE  ModesTypeOK' /\ ModesForm'
<1>. DEFINE y == handlers[h]
            l == Head(lines)
<1>1. /\ handlers \in [Handlers -> HandlerType] /\ y \in HandlerType /\ lines \in Seq(ChanLineType)
      /\ failed \in BOOLEAN /\ crossed \in BOOLEAN
      /\ y.pc \in Visibility => y.mode = "s" /\ y.chan \in Chans
  BY DEF ModesForm
<1>2. recorded \in {"public", "private"} /\ \A b : Visible(b) \in {"public", "private"}
  BY DEF ModesTypeOK, Visible
<1>3. Idle \in HandlerType /\ Idle.pc \notin Visibility
  BY DEF Idle, HandlerType, Pcs, Modes, Visibility
<1>4. ASSUME NEW pc \in Pcs, pc \in Visibility => y.pc \in Visibility
      PROVE  LET x == [y EXCEPT !.pc = pc] IN
               x \in HandlerType /\ (x.pc \in Visibility => x.mode = "s" /\ x.chan \in Chans)
  BY <1>1, <1>4 DEF HandlerType
<1>5. ASSUME NEW pc \in Pcs, pc \in Visibility => y.pc \in Visibility, NEW v \in {"public", "private"}
      PROVE  LET x == [y EXCEPT !.pc = pc, !.want = v] IN
               x \in HandlerType /\ (x.pc \in Visibility => x.mode = "s" /\ x.chan \in Chans)
  BY <1>1, <1>5 DEF HandlerType
<1>6. /\ {"visibility", "solving", "solved", "directory", "record", "store", "lock", "moderating"} \subseteq Pcs
      /\ {"visibility", "solving", "solved", "directory", "record"} = Visibility
      /\ {"store", "lock", "moderating"} \cap Visibility = {}
  BY DEF Pcs, Visibility
<1>7. ModesForm'
  <2>0. lines' \in Seq(ChanLineType) /\ failed' \in BOOLEAN /\ crossed' \in BOOLEAN
    <3>1. lines' = lines \/ (lines # <<>> /\ lines' = Tail(lines))
      BY DEF OnChannelMode, UpdateVisibilityMap, RoomsVisibility, SolveVisibility, SetDirectoryVisibility,
         SetRoomVisibility, SetModeForRoom, SetMatrixRoomAsInviteOnly, OnModeratedChannelToggle, Moderates
    <3>2. failed' = failed \/ failed' = TRUE
      BY DEF OnChannelMode, UpdateVisibilityMap, RoomsVisibility, SolveVisibility, SetDirectoryVisibility,
         SetRoomVisibility, SetModeForRoom, SetMatrixRoomAsInviteOnly, OnModeratedChannelToggle, Moderates
    <3>3. crossed' = crossed \/ crossed' \in BOOLEAN
      BY DEF OnChannelMode, UpdateVisibilityMap, RoomsVisibility, SolveVisibility, SetDirectoryVisibility,
         SetRoomVisibility, SetModeForRoom, SetMatrixRoomAsInviteOnly, OnModeratedChannelToggle, Moderates
    <3>4. lines' \in Seq(ChanLineType)
      BY <1>1, <3>1
    <3>5. failed' \in BOOLEAN
      BY <1>1, <3>2
    <3>6. crossed' \in BOOLEAN
      BY <1>1, <3>3
    <3>. QED  BY <3>4, <3>5, <3>6
  <2>1. ASSUME NEW pc \in Pcs, pc \in Visibility => y.pc \in Visibility, Steps(h, pc) PROVE ModesForm'
    <3>. DEFINE x == [y EXCEPT !.pc = pc]
    <3>1. x \in HandlerType /\ (x.pc \in Visibility => x.mode = "s" /\ x.chan \in Chans)
      BY <1>4, <2>1
    <3>2. handlers' = [handlers EXCEPT ![h] = x]
      BY <2>1 DEF Steps
    <3>. HIDE DEF x
    <3>. QED  BY <2>0, <3>1, <3>2, OneHandler
  <2>2. CASE Ends(h)
    BY <1>3, <2>0, <2>2, OneHandler DEF Ends
  <2>3. CASE OnChannelMode(h)
    <3>. DEFINE x == [pc |-> First[l.mode], chan |-> l.chan, mode |-> l.mode, on |-> l.on, want |-> recorded]
    <3>1. lines # <<>> /\ l.mode # "is" /\ handlers' = [handlers EXCEPT ![h] = x]
      BY <2>3 DEF OnChannelMode
    <3>2. l \in ChanLineType
      BY <1>1, <3>1
    <3>3. l.mode \in Modes /\ l.chan \in Chans /\ l.on \in BOOLEAN
      BY <3>1, <3>2 DEF ChanLineType
    <3>4. First[l.mode] \in Pcs /\ (First[l.mode] \in Visibility => l.mode = "s")
      BY <3>3, FirstStep DEF Pcs, Visibility
    <3>5. x \in HandlerType
      BY <1>2, <3>3, <3>4 DEF HandlerType
    <3>6. x.pc \in Visibility => x.mode = "s" /\ x.chan \in Chans
      BY <3>3, <3>4
    <3>. HIDE DEF x, l
    <3>. QED  BY <2>0, <3>1, <3>5, <3>6, OneHandler
  <2>4. CASE UpdateVisibilityMap(h)
    <3>1. y.pc \in Visibility /\ (Steps(h, "store") \/ Steps(h, "solving"))
      BY <1>6, <2>4 DEF UpdateVisibilityMap
    <3>. QED  BY <1>6, <2>1, <3>1
  <2>5. CASE RoomsVisibility(h)
    <3>. DEFINE x == [y EXCEPT !.pc = "solved", !.want = recorded]
    <3>1. y.pc \in Visibility /\ handlers' = [handlers EXCEPT ![h] = x]
      BY <1>1, <1>6, <2>5 DEF RoomsVisibility
    <3>2. x \in HandlerType /\ (x.pc \in Visibility => x.mode = "s" /\ x.chan \in Chans)
      BY <1>2, <1>5, <1>6, <3>1
    <3>. HIDE DEF x
    <3>. QED  BY <2>0, <3>1, <3>2, OneHandler
  <2>6. CASE SolveVisibility(h)
    <3>. DEFINE correct == Visible(secret[y.chan] = "yes")
                pc == IF y.want = correct THEN "store" ELSE "directory"
                x == [y EXCEPT !.pc = pc, !.want = correct]
    <3>1. y.pc \in Visibility /\ handlers' = [handlers EXCEPT ![h] = x]
      BY <1>1, <1>6, <2>6 DEF SolveVisibility
    <3>2. pc \in Pcs /\ correct \in {"public", "private"}
      BY <1>2, <1>6
    <3>. HIDE DEF pc, correct
    <3>3. x \in HandlerType /\ (x.pc \in Visibility => x.mode = "s" /\ x.chan \in Chans)
      BY <1>5, <3>1, <3>2
    <3>. HIDE DEF x
    <3>. QED  BY <2>0, <3>1, <3>3, OneHandler
  <2>7. CASE SetDirectoryVisibility(h)
    <3>1. y.pc \in Visibility /\ (Steps(h, "store") \/ Steps(h, "record"))
      BY <1>6, <2>7 DEF SetDirectoryVisibility
    <3>. QED  BY <1>6, <2>1, <3>1
  <2>8. CASE SetRoomVisibility(h) \/ SetModeForRoom(h) \/ SetMatrixRoomAsInviteOnly(h)
             \/ OnModeratedChannelToggle(h) \/ Moderates(h)
    <3>1. Ends(h) \/ Steps(h, "store") \/ Steps(h, "lock") \/ Steps(h, "moderating")
      BY <2>8 DEF SetRoomVisibility, SetModeForRoom, SetMatrixRoomAsInviteOnly, OnModeratedChannelToggle, Moderates
    <3>. QED  BY <1>6, <2>1, <2>2, <3>1
  <2>. QED  BY <2>3, <2>4, <2>5, <2>6, <2>7, <2>8
<1>8. ModesTypeOK'
  <2>1. flags' = flags /\ sent' = sent
    BY DEF OnChannelMode, UpdateVisibilityMap, RoomsVisibility, SolveVisibility, SetDirectoryVisibility,
       SetRoomVisibility, SetModeForRoom, SetMatrixRoomAsInviteOnly, OnModeratedChannelToggle, Moderates
  <2>2. secret' \in [Chans -> {"unknown", "yes", "no"}]
    BY DEF ModesTypeOK, OnChannelMode, UpdateVisibilityMap, RoomsVisibility, SolveVisibility,
       SetDirectoryVisibility, SetRoomVisibility, SetModeForRoom, SetMatrixRoomAsInviteOnly,
       OnModeratedChannelToggle, Moderates
  <2>3. y.want \in {"public", "private"} /\ y.mode \in Modes /\ y.on \in BOOLEAN
    BY <1>1 DEF HandlerType
  <2>4. directory' \in {"public", "private"} /\ recorded' \in {"public", "private"}
    BY <2>3 DEF ModesTypeOK, OnChannelMode, UpdateVisibilityMap, RoomsVisibility, SolveVisibility,
       SetDirectoryVisibility, SetRoomVisibility, SetModeForRoom, SetMatrixRoomAsInviteOnly,
       OnModeratedChannelToggle, Moderates
  <2>5. modes' \subseteq Modes /\ joinRule' \in {"public", "invite"}
    BY <2>3, ChannelModesAssumption DEF Recorded, ModesTypeOK, OnChannelMode, UpdateVisibilityMap,
       RoomsVisibility, SolveVisibility, SetDirectoryVisibility, SetRoomVisibility, SetModeForRoom,
       SetMatrixRoomAsInviteOnly, OnModeratedChannelToggle, Moderates
  <2>6. moderated' \in [room: BOOLEAN, cached: BOOLEAN]
    BY <2>3 DEF ModesTypeOK, OnChannelMode, UpdateVisibilityMap, RoomsVisibility, SolveVisibility,
       SetDirectoryVisibility, SetRoomVisibility, SetModeForRoom, SetMatrixRoomAsInviteOnly,
       OnModeratedChannelToggle, Moderates
  <2>. QED  BY <1>7, <2>1, <2>2, <2>4, <2>5, <2>6, ModesWants DEF ModesTypeOK
<1>. QED  BY <1>7, <1>8

LEMMA ModesStart == ModesInit => ModesInv
<1>. SUFFICES ASSUME ModesInit PROVE ModesInv
  OBVIOUS
<1>1. Idle \in HandlerType /\ Idle.pc = "idle" /\ "idle" \notin Visibility /\ "idle" \notin Solving
  BY DEF Idle, HandlerType, Pcs, Modes, Visibility, Solving
<1>2. ModesForm
  <2>1. lines = <<>> /\ handlers = [h \in Handlers |-> Idle] /\ failed = FALSE /\ crossed = FALSE
    BY DEF ModesInit
  <2>2. handlers \in [Handlers -> HandlerType] /\ \A h \in Handlers : handlers[h].pc \notin Visibility
    BY <1>1, <2>1
  <2>3. lines \in Seq(ChanLineType)
    BY <2>1
  <2>. QED  BY <2>1, <2>2, <2>3 DEF ModesForm
<1>3. ModesTypeOK
  BY <1>1, ChannelModesAssumption DEF ModesInit, ModesTypeOK, HandlerType
<1>4. \A h \in Handlers : handlers[h].pc = "idle"
  BY <1>1 DEF ModesInit
<1>5. Alone
  BY <1>1, <1>4 DEF Alone
<1>6. ModesTold
  BY <1>4 DEF ModesTold, Latest, ModesInit
<1>7. Published
  BY <1>4 DEF Published, AtRest, OnTheWay, ModesInit
<1>. QED  BY <1>2, <1>3, <1>5, <1>6, <1>7 DEF ModesInv

\* What went wrong, or was handled at once, stays known.
LEMMA HistoryGrows == ModesNext => (failed => failed') /\ (crossed => crossed')
<1>1. ModesNext => failed' = failed \/ failed' = TRUE
  BY DEF ModesNext, AskModes, SetChannelMode, OnModeIs, OnChannelMode, UpdateVisibilityMap, RoomsVisibility,
     SolveVisibility, SetDirectoryVisibility, SetRoomVisibility, SetModeForRoom, SetMatrixRoomAsInviteOnly,
     OnModeratedChannelToggle, Moderates
<1>2. ASSUME NEW h \in Handlers, OnChannelMode(h) PROVE crossed => crossed'
  BY <1>2 DEF OnChannelMode
<1>3. ModesNext /\ ~(\E h \in Handlers : OnChannelMode(h)) => crossed' = crossed
  BY DEF ModesNext, AskModes, SetChannelMode, OnModeIs, UpdateVisibilityMap, RoomsVisibility, SolveVisibility,
     SetDirectoryVisibility, SetRoomVisibility, SetModeForRoom, SetMatrixRoomAsInviteOnly,
     OnModeratedChannelToggle, Moderates
<1>. QED  BY <1>1, <1>2, <1>3

LEMMA ModesStays == ModesInv /\ [ModesNext]_modeVars => ModesInv'
<1>. SUFFICES ASSUME ModesInv, [ModesNext]_modeVars PROVE ModesInv'
  OBVIOUS
<1>. USE DEF ModesInv
<1>1. CASE UNCHANGED modeVars
  BY <1>1 DEF modeVars, ModesTypeOK, ModesForm, Alone, ModesTold, Latest, Silent, Tells, Says, Published, AtRest,
     OnTheWay, Right
<1>2. CASE ModesNext
  <2>1. ModesTypeOK' /\ ModesForm'
    BY <1>2, LinesTyping, HandlersTyping DEF ModesNext
  <2>2. ASSUME ~failed', ~crossed' PROVE Alone' /\ ModesTold' /\ Published'
    <3>1. ~failed /\ ~crossed
      BY <1>2, <2>2, HistoryGrows
    <3>2. Alone /\ ModesTold /\ Published
      BY <3>1
    <3>3. CASE \E c \in Chans : AskModes(c) \/ \E mode \in Modes : SetChannelMode(c, mode)
      BY <2>2, <3>2, <3>3, AskStep, SetStep
    <3>4. CASE OnModeIs
      BY <3>2, <3>4, OnModeIsStep
    <3>5. ASSUME NEW h \in Handlers, OnChannelMode(h) \/ UpdateVisibilityMap(h) PROVE Alone' /\ ModesTold' /\ Published'
      BY <2>2, <3>2, <3>5, TakeStep, UpdateStep
    <3>6. ASSUME NEW h \in Handlers,
                 RoomsVisibility(h) \/ SolveVisibility(h) \/ SetDirectoryVisibility(h) \/ SetRoomVisibility(h)
          PROVE  Alone' /\ ModesTold' /\ Published'
      BY <2>2, <3>2, <3>6, DirectoryStep
    <3>7. ASSUME NEW h \in Handlers,
                 \/ SetModeForRoom(h) \/ SetMatrixRoomAsInviteOnly(h) \/ OnModeratedChannelToggle(h) \/ Moderates(h)
          PROVE  Alone' /\ ModesTold' /\ Published'
      BY <3>2, <3>7, ElseStep
    <3>. QED  BY <1>2, <3>3, <3>4, <3>5, <3>6, <3>7 DEF ModesNext
  <2>. QED  BY <2>1, <2>2
<1>. QED  BY <1>1, <1>2

LEMMA AlwaysModes == ModesSpec => []ModesInv
BY ModesStart, ModesStays, PTL DEF ModesSpec

\* What each variable of the channel modes holds, whatever is changed, asked and answered.
THEOREM ModesTypeCorrect == ModesSpec => []ModesTypeOK
<1>1. ModesInv => ModesTypeOK
  BY DEF ModesInv
<1>. QED  BY <1>1, AlwaysModes, PTL

\* PublicitySyncer: once every change of secrecy has been handled, one at a time and with no
\* failure, and the channels agree, the room is in the directory exactly when they are not secret.
THEOREM ModesPublicityFollows == ModesSpec => []PublicityFollows
<1>1. ModesInv => PublicityFollows
  <2>. SUFFICES ASSUME ModesInv, NEW s \in BOOLEAN, Quiet, ~failed, ~crossed,
                       \A c \in Chans : secret[c] # "unknown" /\ ("s" \in flags[c]) = s
                PROVE  directory = Visible(s)
    BY DEF PublicityFollows
  <2>1. \A h \in Handlers : handlers[h].pc = "idle"
    BY DEF Quiet, Idle
  <2>2. "idle" \notin Solving
    BY DEF Solving
  <2>3. AtRest
    BY <2>1, <2>2 DEF ModesInv, Published
  <2>4. PICK c \in Chans : Right(c, directory)
    BY <2>3, ChannelModesAssumption DEF AtRest
  <2>5. lines = <<>>
    BY DEF Quiet
  <2>6. Silent(lines, c)
    BY <2>5 DEF Silent
  <2>7. (secret[c] = "yes") = ("s" \in flags[c])
    BY <2>1, <2>6 DEF ModesInv, ModesTold
  <2>. QED  BY <2>4, <2>7 DEF Right, Visible
<1>. QED  BY <1>1, AlwaysModes, PTL
==============================================================================
