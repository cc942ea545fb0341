-------------------------- MODULE BridgeLive_proofs --------------------------
(***************************************************************************)
(* The parts of the bridge in which something must happen in the end, for  *)
(* any number of requests, users, calls, channels, messages and clients:   *)
(* that a channel that was left stays left (Channels), that the bot is in  *)
(* a channel as long as a room is linked to it (Provisioning), that the    *)
(* ghosts of a room are the users of its channel (MemberLists), that a     *)
(* message waits only for a client that connects (Relay); and that each of *)
(* them keeps what it guarantees when the parts take their steps in turn.  *)
(***************************************************************************)
EXTENDS MCBridgeLive, SequenceTheorems, FiniteSetTheorems, TLAPS

------------------------------------------------------------------------------
(***************************************************************************)
(* Channels                                                                *)
(***************************************************************************)
CallType == [op : Ops \cup {"none"}, chan : Chans \cup {NoChan}, pc : Pcs]
JoinType == [stage : Stages, n : 0..MaxAttempts]
Lines == {"JOIN", "PART"}

\* A call has its channel from the start.
InChans == \A k \in Calls : calls[k].pc # "idle" => calls[k].chan \in Chans
CTypes == ChannelsTypeOK /\ InChans
------------------------------------------------------------------------------
(* Moving calls.                                                           *)

LEMMA FirstPcs ==
  ASSUME NEW op \in Ops
  PROVE  First[op] \in Pcs \ {"nick", "parting", "part", "left"}
<1>1. op \in {"join", "send", "topic", "ops", "leave", "nick"}
  BY ChannelsAssumption
<1>2. CASE op = "join" BY <1>2 DEF First, Pcs
<1>3. CASE op = "send" BY <1>3 DEF First, Pcs
<1>4. CASE op = "topic" BY <1>4 DEF First, Pcs
<1>5. CASE op = "ops" BY <1>5 DEF First, Pcs
<1>6. CASE op = "leave" BY <1>6 DEF First, Pcs
<1>7. CASE op = "nick" BY <1>7 DEF First, Pcs
<1> QED BY <1>1, <1>2, <1>3, <1>4, <1>5, <1>6, <1>7

LEMMA GoesType ==
  ASSUME CTypes, NEW k \in Calls, NEW pc \in Pcs, Goes(k, pc), calls[k].pc # "idle"
  PROVE  /\ calls' \in [Calls -> CallType]
         /\ \A j \in Calls : calls'[j].chan = calls[j].chan /\ calls'[j].op = calls[j].op
         /\ \A j \in Calls : calls'[j].pc = IF j = k THEN pc ELSE calls[j].pc
         /\ InChans'
  BY DEF CTypes, ChannelsTypeOK, Goes, CallType, InChans

LEMMA AllType ==
  ASSUME CTypes, NEW ks \in SUBSET Calls, NEW pc \in Pcs, calls' = All(ks, pc),
         \A k \in ks : calls[k].pc # "idle"
  PROVE  /\ calls' \in [Calls -> CallType]
         /\ \A j \in Calls : calls'[j].chan = calls[j].chan /\ calls'[j].op = calls[j].op
         /\ \A j \in Calls : calls'[j].pc = IF j \in ks THEN pc ELSE calls[j].pc
         /\ InChans'
  BY DEF CTypes, ChannelsTypeOK, All, CallType, InChans
------------------------------------------------------------------------------
(* The types.                                                              *)

LEMMA SentType ==
  ASSUME ChannelsTypeOK, NEW c \in Chans, NEW what \in Lines, Send(c, what)
  PROVE  asked' \in [Chans -> Seq(Lines)]
  BY DEF ChannelsTypeOK, Send, Lines

LEMMA AnsweredType ==
  ASSUME ChannelsTypeOK, NEW c \in Chans, asked[c] # <<>>, Answered(c)
  PROVE  asked' \in [Chans -> Seq(Lines)]
  BY DEF ChannelsTypeOK, Answered, Lines

LEMMA StageType ==
  ASSUME ChannelsTypeOK, NEW c \in Chans, NEW s \in Stages,
         joining' = [joining EXCEPT ![c].stage = s]
  PROVE  /\ joining' \in [Chans -> JoinType]
         /\ \A d \in Chans : /\ joining'[d].stage = IF d = c THEN s ELSE joining[d].stage
                             /\ d # c => joining'[d] = joining[d]
  BY DEF ChannelsTypeOK, JoinType

LEMMA NoJoinType == NoJoin \in JoinType
  BY ChannelsAssumption DEF NoJoin, JoinType, Stages

LEMMA JoiningType ==
  ASSUME ChannelsTypeOK, NEW c \in Chans
  PROVE  \/ Joining(c) \in JoinType /\ Joining(c).stage # "none"
         \/ Joining(c) = joining[c]
<1> DEFINE r(s) == [stage |-> s, n |-> 1]
<1>1. \A s \in Stages : r(s) \in JoinType /\ r(s).stage = s
  BY ChannelsAssumption DEF JoinType
<1>2. joining[c] \in JoinType
  BY DEF ChannelsTypeOK, JoinType
<1> HIDE DEF r
<1>3. /\ r("connect") \in JoinType /\ r("connect").stage = "connect"
      /\ r("failed") \in JoinType /\ r("failed").stage = "failed"
      /\ r("joined") \in JoinType /\ r("joined").stage = "joined"
      /\ r("asked") \in JoinType /\ r("asked").stage = "asked"
  BY <1>1 DEF Stages
<1>4. CASE joining[c] # NoJoin
  BY <1>4 DEF Joining
<1>5. CASE joining[c] = NoJoin
  <2>1. Joining(c) \in {r("connect"), r("failed"), r("joined"), r("asked")}
    BY <1>5 DEF Joining, r
  <2> QED BY <2>1, <1>3
<1> QED BY <1>4, <1>5

\* What the calls of a step keep, if it keeps the rest.
LEMMA TypeParts ==
  ASSUME ChannelsTypeOK,
         status' \in {"connecting", "connected", "dead", "killed"},
         deferred' \in BOOLEAN, up' \in BOOLEAN,
         chans' \subseteq Chans, chanList' \subseteq Chans, cached' \subseteq Chans,
         joining' \in [Chans -> JoinType], asked' \in [Chans -> Seq(Lines)],
         calls' \in [Calls -> CallType],
         listening' \in [nick : SUBSET Calls, error : SUBSET Calls], pending' \subseteq Calls,
         past' \in [joined : SUBSET Calls, left : SUBSET Chans]
  PROVE  ChannelsTypeOK'
  BY DEF ChannelsTypeOK, CallType, JoinType, Lines

\* Steps of a method that move nothing but the call.
CallMoves(k) == JoinEnds(k) \/ SendMessage(k) \/ SetTopic(k) \/ GetOperators(k) \/ Whois(k)

LEMMA MovesOnly ==
  ASSUME CTypes, NEW k \in Calls, CallMoves(k)
  PROVE  /\ \E pc \in Pcs \ {"nick", "parting", "part", "left"} : Goes(k, pc)
         /\ calls[k].pc \notin {"idle", "nick"}
         /\ UNCHANGED <<net, joining, nicks, cached, past>>
<1> DEFINE Rest == Pcs \ {"nick", "parting", "part", "left"}
<1>0. {"ok", "error", "joining", "names", "leaving", "whoissed"} \subseteq Rest
  BY DEF Pcs
<1>1. CASE JoinEnds(k) BY <1>0, <1>1 DEF JoinEnds
<1>2. CASE SendMessage(k) BY <1>0, <1>2 DEF SendMessage
<1>3. CASE SetTopic(k) BY <1>0, <1>3 DEF SetTopic
<1>4. CASE GetOperators(k) BY <1>0, <1>4 DEF GetOperators
<1>5. CASE Whois(k) BY <1>0, <1>5 DEF Whois
<1> QED BY <1>1, <1>2, <1>3, <1>4, <1>5 DEF CallMoves

LEMMA TypeFacts ==
  ASSUME ChannelsTypeOK
  PROVE  /\ status \in {"connecting", "connected", "dead", "killed"}
         /\ deferred \in BOOLEAN /\ up \in BOOLEAN
         /\ chans \subseteq Chans /\ chanList \subseteq Chans /\ cached \subseteq Chans
         /\ joining \in [Chans -> JoinType] /\ asked \in [Chans -> Seq(Lines)]
         /\ calls \in [Calls -> CallType]
         /\ listening \in [nick : SUBSET Calls, error : SUBSET Calls] /\ pending \subseteq Calls
         /\ past \in [joined : SUBSET Calls, left : SUBSET Chans]
  BY DEF ChannelsTypeOK, CallType, JoinType, Lines

LEMMA CallTypes ==
  ASSUME CTypes, NEW k \in Calls, NEW op \in Ops, NEW c \in Chans, Call(k, op, c)
  PROVE  /\ calls' \in [Calls -> CallType] /\ InChans' /\ calls'[k].pc \notin {"nick", "parting", "part", "left"}
         /\ calls[k].pc = "idle" /\ \A j \in Calls \ {k} : calls'[j] = calls[j]
         /\ CTypes'
<1> DEFINE x == [op |-> op, chan |-> c, pc |-> First[op]]
<1>1. First[op] \in Pcs /\ First[op] \notin {"nick", "parting", "part", "left"}
  BY FirstPcs
<1>2. x \in CallType /\ x.chan \in Chans /\ x.pc \notin {"nick", "parting", "part", "left"}
  BY <1>1 DEF CallType
<1>3. calls' = [calls EXCEPT ![k] = x] /\ calls[k] = NoCall
  BY DEF Call
<1> HIDE DEF x
<1>4. /\ calls' \in [Calls -> CallType] /\ InChans' /\ calls'[k].pc \notin {"nick", "parting", "part", "left"}
      /\ calls[k].pc = "idle" /\ \A j \in Calls \ {k} : calls'[j] = calls[j]
  BY <1>2, <1>3, TypeFacts DEF CTypes, InChans, NoCall
<1>5. past' \in [joined : SUBSET Calls, left : SUBSET Chans] /\ UNCHANGED <<net, joining, nicks, cached>>
  BY TypeFacts DEF Call, CTypes
<1>6. ChannelsTypeOK'
  BY <1>4, <1>5, TypeFacts, TypeParts DEF CTypes, net, nicks
<1> QED BY <1>4, <1>6 DEF CTypes

\* A join ends, or is asked for again.
LEMMA JoinTypes ==
  ASSUME CTypes, NEW c \in Chans, JoinGoesOn(c) \/ JoinTimeout(c)
  PROVE  CTypes'
<1>0. "JOIN" \in Lines /\ {"asked", "joined", "failed"} \subseteq Stages
  BY DEF Lines, Stages
<1>1. asked' \in [Chans -> Seq(Lines)]
  BY <1>0, SentType, TypeFacts DEF JoinGoesOn, JoinTimeout, CTypes
<1>2. joining' \in [Chans -> JoinType]
  <2>1. CASE \E s \in Stages : joining' = [joining EXCEPT ![c].stage = s]
    BY <2>1, StageType DEF CTypes
  <2>2. CASE /\ joining[c].n < MaxAttempts /\ joining' = [joining EXCEPT ![c].n = @ + 1]
    <3>1. joining[c].n + 1 \in 0..MaxAttempts
      BY <2>2, TypeFacts, ChannelsAssumption DEF CTypes, JoinType
    <3> QED BY <2>2, <3>1, TypeFacts DEF CTypes, JoinType
  <2> QED BY <1>0, <2>1, <2>2 DEF JoinGoesOn, JoinTimeout, TimesOut
<1>3. chanList' \subseteq Chans /\ UNCHANGED <<status, deferred, up, chans, calls, nicks, cached, past>>
  BY TypeFacts DEF JoinGoesOn, JoinTimeout, CTypes
<1>4. ChannelsTypeOK'
  BY <1>1, <1>2, <1>3, TypeFacts, TypeParts DEF CTypes, nicks
<1> QED BY <1>3, <1>4 DEF CTypes, InChans

LEMMA JoinChannelTypes ==
  ASSUME CTypes, NEW k \in Calls, JoinChannel(k)
  PROVE  CTypes'
<1> DEFINE c == calls[k].chan
<1>1. c \in Chans /\ calls[k].pc = "joining" /\ Goes(k, "join") /\ "join" \in Pcs /\ "JOIN" \in Lines
  BY DEF JoinChannel, CTypes, InChans, Pcs, Lines
<1>2. joining' \in [Chans -> JoinType]
  BY <1>1, JoiningType, TypeFacts DEF JoinChannel, CTypes
<1>3. asked' \in [Chans -> Seq(Lines)]
  BY <1>1, SentType, TypeFacts DEF JoinChannel, CTypes
<1>4. calls' \in [Calls -> CallType] /\ InChans'
  BY <1>1, GoesType
<1>5. /\ past' \in [joined : SUBSET Calls, left : SUBSET Chans]
      /\ UNCHANGED <<status, deferred, up, chans, chanList, nicks, cached>>
  BY TypeFacts DEF JoinChannel, CTypes, At
<1>6. ChannelsTypeOK'
  BY <1>2, <1>3, <1>4, <1>5, TypeFacts, TypeParts DEF CTypes, nicks
<1> QED BY <1>4, <1>6 DEF CTypes

LEMMA SettledTypes ==
  ASSUME CTypes, NEW c \in Chans, Settled(c)
  PROVE  /\ CTypes'
         /\ \A k \in Calls : /\ calls'[k].chan = calls[k].chan /\ calls'[k].op = calls[k].op
                            /\ \/ calls[k].chan = c /\ calls[k].pc = "join" /\ calls'[k].pc \in {"joined", "failed"}
                               \/ calls[k].chan = c /\ calls[k].pc = "waits" /\ calls'[k].pc = "parting"
                               \/ calls'[k] = calls[k]
<1> DEFINE s == joining[c].stage
           new(k) == CASE k \in At(c, {"join"}) -> [calls[k] EXCEPT !.pc = s]
                       [] k \in At(c, {"waits"}) -> [calls[k] EXCEPT !.pc = "parting"]
                       [] OTHER -> calls[k]
<1>1. s \in {"joined", "failed"} /\ {"joined", "failed", "parting"} \subseteq Pcs
  BY DEF Settled, Pcs
<1>2. calls' = [k \in Calls |-> new(k)]
  BY DEF Settled
<1>3. ASSUME NEW k \in Calls
      PROVE  /\ new(k) \in CallType /\ new(k).chan = calls[k].chan /\ new(k).op = calls[k].op
             /\ \/ calls[k].chan = c /\ calls[k].pc = "join" /\ new(k).pc \in {"joined", "failed"}
                \/ calls[k].chan = c /\ calls[k].pc = "waits" /\ new(k).pc = "parting"
                \/ new(k) = calls[k]
  <2>0. calls[k] \in CallType
    BY TypeFacts DEF CTypes
  <2>1. CASE k \in At(c, {"join"})
    BY <2>0, <2>1, <1>1 DEF At, CallType
  <2>2. CASE k \in At(c, {"waits"})
    BY <2>0, <2>2, <1>1 DEF At, CallType
  <2>3. CASE k \notin At(c, {"join"}) /\ k \notin At(c, {"waits"})
    BY <2>0, <2>3
  <2> QED BY <2>1, <2>2, <2>3
<1> HIDE DEF new, s
<1>4. \A k \in Calls : calls'[k] = new(k)
  BY <1>2
<1>5. calls' \in [Calls -> CallType] /\ InChans'
  BY <1>2, <1>3, <1>4 DEF CTypes, InChans
<1>6. joining' \in [Chans -> JoinType] /\ UNCHANGED <<net, nicks, cached, past>>
  BY NoJoinType, TypeFacts DEF Settled, CTypes
<1>7. ChannelsTypeOK'
  BY <1>5, <1>6, TypeFacts, TypeParts DEF CTypes, net, nicks
<1> QED BY <1>3, <1>4, <1>5, <1>7 DEF CTypes

LEMMA MovesTypes ==
  ASSUME CTypes, NEW k \in Calls, CallMoves(k)
  PROVE  CTypes'
<1>1. calls' \in [Calls -> CallType] /\ InChans'
  BY MovesOnly, GoesType
<1>2. UNCHANGED <<net, joining, nicks, cached, past>>
  BY MovesOnly
<1>3. ChannelsTypeOK'
  BY <1>1, <1>2, TypeFacts, TypeParts DEF CTypes, net, nicks
<1> QED BY <1>1, <1>3 DEF CTypes

LEMMA ExcusedType ==
  ASSUME ChannelsTypeOK, NEW c, NEW ks \in SUBSET Calls
  PROVE  /\ Excused(c, ks) \in [joined : SUBSET Calls, left : SUBSET Chans]
         /\ Excused(c, ks).left = past.left /\ past.joined \subseteq Excused(c, ks).joined
         /\ Contains(asked[c], "JOIN") => ks \subseteq Excused(c, ks).joined
  BY TypeFacts DEF Excused

LEMMA PartIfTypes ==
  ASSUME CTypes, NEW k \in Calls, PartIf(k), calls[k].pc # "idle"
  PROVE  /\ \E pc \in {"left", "part", "error"} : Goes(k, pc)
         /\ calls' \in [Calls -> CallType] /\ InChans' /\ asked' \in [Chans -> Seq(Lines)]
<1>0. {"left", "part", "error"} \subseteq Pcs /\ "PART" \in Lines /\ calls[k].chan \in Chans
  BY DEF Pcs, Lines, CTypes, InChans
<1>1. \E pc \in {"left", "part", "error"} : Goes(k, pc)
  BY DEF PartIf
<1>2. asked' \in [Chans -> Seq(Lines)]
  BY <1>0, SentType, TypeFacts DEF PartIf, CTypes
<1> QED BY <1>0, <1>1, <1>2, GoesType

LEMMA LeaveTypes ==
  ASSUME CTypes, NEW k \in Calls, LeaveChannel(k)
  PROVE  /\ CTypes'
         /\ \E pc \in {"left", "waits", "part", "error"} : Goes(k, pc)
<1>0. {"left", "waits", "part", "error"} \subseteq Pcs /\ calls[k].pc # "idle"
  BY DEF Pcs, LeaveChannel
<1>1. /\ \E pc \in {"left", "waits", "part", "error"} : Goes(k, pc)
      /\ asked' \in [Chans -> Seq(Lines)]
  BY <1>0, PartIfTypes, TypeFacts DEF LeaveChannel, CTypes
<1>2. calls' \in [Calls -> CallType] /\ InChans'
  BY <1>0, <1>1, GoesType
<1>3. past' \in [joined : SUBSET Calls, left : SUBSET Chans]
  BY ExcusedType, TypeFacts DEF LeaveChannel, CTypes
<1>4. ChannelsTypeOK'
  BY <1>1, <1>2, <1>3, TypeFacts, TypeParts DEF LeaveChannel, CTypes, nicks
<1> QED BY <1>1, <1>2, <1>4 DEF CTypes

LEMMA LeaveEndsTypes ==
  ASSUME CTypes, NEW k \in Calls, LeaveEnds(k)
  PROVE  CTypes' /\ \E pc \in {"ok", "error"} : Goes(k, pc)
<1>0. {"ok", "error"} \subseteq Pcs /\ calls[k].pc # "idle" /\ calls[k].chan \in Chans
  BY DEF Pcs, LeaveEnds, CTypes, InChans
<1>1. (\E pc \in {"ok", "error"} : Goes(k, pc)) /\ cached' \subseteq Chans
  BY <1>0, TypeFacts DEF LeaveEnds, CTypes
<1>2. calls' \in [Calls -> CallType] /\ InChans'
  BY <1>0, <1>1, GoesType
<1>3. past' \in [joined : SUBSET Calls, left : SUBSET Chans] /\ UNCHANGED <<net, joining, nicks>>
  BY <1>0, TypeFacts DEF LeaveEnds, CTypes
<1>4. ChannelsTypeOK'
  BY <1>1, <1>2, <1>3, TypeFacts, TypeParts DEF CTypes, net, nicks
<1> QED BY <1>1, <1>2, <1>4 DEF CTypes

\* Steps of the network, and the expiry of the cache.
NetworkSteps(c) == Joined(c) \/ Refused(c) \/ Kicked(c) \/ CacheExpires(c)
Client == Connect \/ KillClient \/ ConnectionDrops

LEMMA NetworkTypes ==
  ASSUME CTypes, NEW c \in Chans, NetworkSteps(c)
  PROVE  CTypes'
<1>0. {"joined", "failed"} \subseteq Stages
  BY DEF Stages
<1>1. asked' \in [Chans -> Seq(Lines)]
  BY AnsweredType, TypeFacts DEF NetworkSteps, Joined, Refused, Kicked, CacheExpires, CTypes, net
<1>2. joining' \in [Chans -> JoinType]
  BY <1>0, StageType, TypeFacts DEF NetworkSteps, Joined, Refused, Kicked, CacheExpires, CTypes, Hear
<1>3. chans' \subseteq Chans /\ chanList' \subseteq Chans /\ cached' \subseteq Chans
  BY TypeFacts DEF NetworkSteps, Joined, Refused, Kicked, CacheExpires, CTypes, net
<1>4. UNCHANGED <<status, deferred, up, calls, nicks, past>>
  BY DEF NetworkSteps, Joined, Refused, Kicked, CacheExpires, net
<1>5. ChannelsTypeOK'
  BY <1>1, <1>2, <1>3, <1>4, TypeFacts, TypeParts DEF CTypes, nicks
<1> QED BY <1>4, <1>5 DEF CTypes, InChans

LEMMA ClientTypes ==
  ASSUME CTypes, Client
  PROVE  CTypes'
<1>1. status' \in {"connecting", "connected", "dead", "killed"} /\ deferred' \in BOOLEAN /\ up' \in BOOLEAN
  BY TypeFacts DEF Client, Connect, KillClient, ConnectionDrops, CTypes
<1>2. asked' \in [Chans -> Seq(Lines)]
  BY TypeFacts, EmptySeq DEF Client, Connect, KillClient, ConnectionDrops, CTypes
<1>3. UNCHANGED <<chans, chanList, joining, calls, nicks, cached, past>>
  BY DEF Client, Connect, KillClient, ConnectionDrops
<1>4. ChannelsTypeOK'
  BY <1>1, <1>2, <1>3, TypeFacts, TypeParts DEF CTypes, nicks
<1> QED BY <1>3, <1>4 DEF CTypes, InChans

\* The PART is answered: all who wait for it go on, if the client was in the channel.
LEMMA PartedTypes ==
  ASSUME CTypes, NEW c \in Chans, Parted(c)
  PROVE  /\ CTypes'
         /\ \A k \in Calls : /\ calls'[k].chan = calls[k].chan /\ calls'[k].op = calls[k].op
                             /\ \/ k \in At(c, {"part"}) /\ calls'[k].pc = "left" /\ c \notin chanList'
                                \/ calls'[k] = calls[k]
<1> DEFINE ks == At(c, {"part"})
<1>0. ks \in SUBSET Calls /\ "left" \in Pcs /\ \A k \in ks : calls[k].pc # "idle"
  BY DEF At, Pcs
<1>1. /\ calls' \in [Calls -> CallType] /\ InChans'
      /\ \A k \in Calls : /\ calls'[k].chan = calls[k].chan /\ calls'[k].op = calls[k].op
                          /\ \/ k \in ks /\ calls'[k].pc = "left" /\ c \notin chanList'
                             \/ calls'[k] = calls[k]
  <2>1. CASE c \in chans
    <3>1. calls' = All(ks, "left") /\ c \notin chanList'
      BY <2>1 DEF Parted, All
    <3>2. \A k \in Calls \ ks : calls'[k] = calls[k]
      BY <3>1 DEF All
    <3> QED BY <1>0, <3>1, <3>2, AllType
  <2>2. CASE c \notin chans
    <3>1. UNCHANGED calls
      BY <2>2 DEF Parted
    <3> QED BY <3>1, TypeFacts DEF CTypes, InChans
  <2> QED BY <2>1, <2>2
<1>2. asked' \in [Chans -> Seq(Lines)] /\ past' \in [joined : SUBSET Calls, left : SUBSET Chans]
  BY <1>0, AnsweredType, ExcusedType DEF Parted, CTypes
<1>3. chans' \subseteq Chans /\ chanList' \subseteq Chans /\ UNCHANGED <<status, deferred, up, joining, nicks, cached>>
  BY TypeFacts DEF Parted, CTypes
<1>4. ChannelsTypeOK'
  BY <1>1, <1>2, <1>3, TypeFacts, TypeParts DEF CTypes, nicks
<1> QED BY <1>1, <1>4 DEF CTypes
------------------------------------------------------------------------------
(* Changes of nick.                                                        *)
NickStep(k) == SendNick(k) \/ NickTimeout(k)
NickWord == NickEvent \/ ErrorEvent

LEMMA NickStepKeeps ==
  ASSUME CTypes, NickTidy, NEW k \in Calls, NickStep(k)
  PROVE  /\ CTypes' /\ NickTidy' /\ \E pc \in {"error", "nick"} : Goes(k, pc)
         /\ UNCHANGED <<net, joining, cached, past>>
<1>0. {"error", "nick"} \subseteq Pcs /\ calls[k].pc # "idle"
  BY DEF Pcs, NickStep, SendNick, NickTimeout
<1>1. PICK pc \in {"error", "nick"} : Goes(k, pc)
  BY DEF NickStep, SendNick, NickTimeout
<1>2. /\ calls' \in [Calls -> CallType] /\ InChans'
      /\ \A j \in Calls : calls'[j].pc = IF j = k THEN pc ELSE calls[j].pc
  BY <1>0, <1>1, GoesType
<1>3. /\ UNCHANGED <<net, joining, cached, past>>
      /\ listening' \in [nick : SUBSET Calls, error : SUBSET Calls] /\ pending' \subseteq Calls
  BY TypeFacts DEF NickStep, SendNick, NickTimeout, CTypes, nicks
<1>4. ChannelsTypeOK'
  BY <1>2, <1>3, TypeFacts, TypeParts DEF CTypes, net
<1>5. NickTidy'
  <2>1. CASE calls[k].pc = "whoissed" /\ calls'[k].pc = "error" /\ UNCHANGED nicks
    BY <1>2, <2>1 DEF NickTidy, nicks
  <2>2. CASE /\ calls'[k].pc = "nick"
             /\ listening' = [nick |-> listening.nick \cup {k}, error |-> listening.error \cup {k}]
             /\ pending' = pending \cup {k}
    BY <1>2, <2>2 DEF NickTidy
  <2>3. CASE /\ calls'[k].pc = "error"
             /\ listening' = [nick |-> listening.nick \ {k}, error |-> listening.error \ {k}]
             /\ pending' = pending \ {k}
    BY <1>2, <2>3 DEF NickTidy
  <2>4. \A q \in Pcs : Goes(k, q) => calls'[k].pc = q
    BY TypeFacts DEF CTypes, Goes, CallType
  <2> QED BY <1>0, <2>1, <2>2, <2>3, <2>4 DEF NickStep, SendNick, NickTimeout
<1> QED BY <1>1, <1>2, <1>3, <1>4, <1>5 DEF CTypes

LEMMA NickWordKeeps ==
  ASSUME CTypes, NickTidy, NickWord
  PROVE  /\ CTypes' /\ NickTidy' /\ UNCHANGED <<net, joining, cached, past>>
         /\ \A k \in Calls : /\ calls'[k].chan = calls[k].chan
                             /\ calls'[k].pc \in {"ok", "error"} \/ calls'[k].pc = calls[k].pc
<1>0. /\ {"ok", "error"} \subseteq Pcs /\ listening.nick \in SUBSET Calls /\ listening.error \in SUBSET Calls
      /\ \A k \in listening.nick : calls[k].pc # "idle"
      /\ \A k \in listening.error : calls[k].pc # "idle"
  BY TypeFacts DEF Pcs, CTypes, NickTidy
<1>1. UNCHANGED <<net, joining, cached, past>> /\ pending' \subseteq Calls
  BY TypeFacts DEF NickWord, NickEvent, ErrorEvent, CTypes
<1>2. /\ calls' \in [Calls -> CallType] /\ InChans' /\ NickTidy'
      /\ listening' \in [nick : SUBSET Calls, error : SUBSET Calls]
      /\ \A k \in Calls : /\ calls'[k].chan = calls[k].chan
                          /\ calls'[k].pc \in {"ok", "error"} \/ calls'[k].pc = calls[k].pc
  <2>1. CASE NickEvent
    <3>1. /\ calls' \in [Calls -> CallType] /\ InChans'
          /\ \A k \in Calls : /\ calls'[k].chan = calls[k].chan
                              /\ calls'[k].pc = IF k \in listening.nick THEN "ok" ELSE calls[k].pc
      BY <1>0, <2>1, AllType DEF NickEvent
    <3>2. /\ listening' = [nick |-> {}, error |-> listening.error \ listening.nick]
          /\ pending' = pending \ listening.nick
      BY <2>1 DEF NickEvent
    <3>3. NickTidy'
      BY <3>1, <3>2 DEF NickTidy
    <3> QED BY <1>0, <3>1, <3>2, <3>3
  <2>2. CASE ErrorEvent /\ calls' = All(listening.error, "error")
    <3>1. /\ calls' \in [Calls -> CallType] /\ InChans'
          /\ \A k \in Calls : /\ calls'[k].chan = calls[k].chan
                              /\ calls'[k].pc = IF k \in listening.error THEN "error" ELSE calls[k].pc
      BY <1>0, <2>2, AllType
    <3>2. /\ \/ listening' = [nick |-> listening.nick \ listening.error, error |-> {}]
             \/ listening' = [listening EXCEPT !.error = {}] /\ UNCHANGED calls
          /\ pending' = pending \ listening.error
      BY <2>2 DEF ErrorEvent
    <3>3. CASE listening' = [nick |-> listening.nick \ listening.error, error |-> {}]
      <4>1. NickTidy'
        BY <3>1, <3>2, <3>3 DEF NickTidy
      <4> QED BY <1>0, <3>1, <3>3, <4>1
    <3>4. CASE listening' = [listening EXCEPT !.error = {}] /\ UNCHANGED calls
      <4>1. listening' = [nick |-> listening.nick, error |-> {}]
        BY <3>4, TypeFacts DEF CTypes
      <4>2. NickTidy'
        BY <3>2, <3>4, <4>1 DEF NickTidy
      <4> QED BY <1>0, <3>1, <4>1, <4>2
    <3> QED BY <3>2, <3>3, <3>4
  <2>3. CASE ErrorEvent /\ listening' = [listening EXCEPT !.error = {}] /\ UNCHANGED calls
    <3>1. listening' = [nick |-> listening.nick, error |-> {}] /\ pending' = pending \ listening.error
      BY <2>3, TypeFacts DEF CTypes, ErrorEvent
    <3>2. NickTidy'
      BY <2>3, <3>1 DEF NickTidy
    <3> QED BY <1>0, <2>3, <3>1, <3>2, TypeFacts DEF CTypes, InChans
  <2> QED BY <2>1, <2>2, <2>3 DEF NickWord, ErrorEvent
<1>3. ChannelsTypeOK'
  BY <1>1, <1>2, TypeFacts, TypeParts DEF CTypes, net
<1> QED BY <1>1, <1>2, <1>3 DEF CTypes
------------------------------------------------------------------------------
(* A nick is announced while it changes.                                   *)
Late == {"parting", "part", "left"}

LEMMA SameNicks ==
  ASSUME NickTidy, UNCHANGED nicks,
         \A k \in Calls : calls'[k].pc = "nick" <=> calls[k].pc = "nick"
  PROVE  NickTidy'
  BY DEF NickTidy, nicks

LEMMA GoesPc ==
  ASSUME CTypes, NEW k \in Calls, NEW pc \in Pcs, Goes(k, pc)
  PROVE  /\ calls'[k].pc = pc /\ \A j \in Calls \ {k} : calls'[j] = calls[j]
         /\ \A j \in Calls : calls'[j].chan = calls[j].chan
  BY TypeFacts DEF CTypes, Goes, CallType

LEMMA NicksKept ==
  ASSUME CTypes, NickTidy,
         \/ \E k \in Calls : \/ \E op \in Ops, c \in Chans : Call(k, op, c)
                             \/ JoinChannel(k) \/ CallMoves(k) \/ LeaveChannel(k) \/ LeaveEnds(k)
         \/ Client
         \/ \E c \in Chans : JoinGoesOn(c) \/ JoinTimeout(c) \/ Settled(c) \/ NetworkSteps(c) \/ Parted(c)
  PROVE  NickTidy'
<1>1. ASSUME NEW k \in Calls, \E op \in Ops, c \in Chans : Call(k, op, c)
      PROVE  NickTidy'
  BY <1>1, CallTypes, SameNicks DEF Call
<1>2. ASSUME NEW k \in Calls, NEW pc \in Pcs \ {"nick"}, Goes(k, pc), calls[k].pc # "nick", UNCHANGED nicks
      PROVE  NickTidy'
  BY <1>2, GoesPc, SameNicks
<1>3. {"join", "left", "waits", "part", "error", "ok"} \subseteq Pcs \ {"nick"}
  BY DEF Pcs
<1>4. ASSUME NEW k \in Calls, JoinChannel(k) PROVE NickTidy'
  BY <1>2, <1>3, <1>4 DEF JoinChannel
<1>5. ASSUME NEW k \in Calls, CallMoves(k) PROVE NickTidy'
  BY <1>2, <1>5, MovesOnly
<1>6. ASSUME NEW k \in Calls, LeaveChannel(k) PROVE NickTidy'
  <2>1. calls[k].pc # "nick" /\ UNCHANGED nicks
    BY <1>6 DEF LeaveChannel
  <2> QED BY <1>2, <1>3, <1>6, <2>1, LeaveTypes
<1>7. ASSUME NEW k \in Calls, LeaveEnds(k) PROVE NickTidy'
  <2>1. calls[k].pc # "nick" /\ UNCHANGED nicks
    BY <1>7 DEF LeaveEnds
  <2> QED BY <1>2, <1>3, <1>7, <2>1, LeaveEndsTypes
<1>8. ASSUME Client PROVE NickTidy'
  BY <1>8, SameNicks DEF Client, Connect, KillClient, ConnectionDrops
<1>9. ASSUME NEW c \in Chans, JoinGoesOn(c) \/ JoinTimeout(c) \/ NetworkSteps(c) PROVE NickTidy'
  BY <1>9, SameNicks DEF JoinGoesOn, JoinTimeout, NetworkSteps, Joined, Refused, Kicked, CacheExpires
<1>10. ASSUME NEW c \in Chans, Settled(c) PROVE NickTidy'
  <2>1. UNCHANGED nicks /\ \A k \in Calls : calls'[k].pc = "nick" <=> calls[k].pc = "nick"
    BY <1>10, SettledTypes DEF Settled
  <2> QED BY <2>1, SameNicks
<1>11. ASSUME NEW c \in Chans, Parted(c) PROVE NickTidy'
  <2>1. UNCHANGED nicks /\ \A k \in Calls : calls'[k].pc = "nick" <=> calls[k].pc = "nick"
    BY <1>11, PartedTypes DEF Parted, At
  <2> QED BY <2>1, SameNicks
<1> QED BY <1>1, <1>4, <1>5, <1>6, <1>7, <1>8, <1>9, <1>10, <1>11

\* Every step is one of these.
LEMMA Steps ==
  ASSUME ChannelsNext
  PROVE  \/ \E k \in Calls : \/ \E op \in Ops, c \in Chans : Call(k, op, c)
                             \/ JoinChannel(k) \/ CallMoves(k) \/ LeaveChannel(k) \/ LeaveEnds(k) \/ NickStep(k)
         \/ Client \/ NickWord
         \/ \E c \in Chans : JoinGoesOn(c) \/ JoinTimeout(c) \/ Settled(c) \/ NetworkSteps(c) \/ Parted(c)
  BY DEF ChannelsNext, Runs, Answers, CallMoves, Client, NetworkSteps, NickStep, NickWord

LEMMA TypesInit ==
  ASSUME ChannelsInit
  PROVE  CTypes /\ NickTidy
<1>1. NoCall \in CallType /\ NoCall.pc = "idle" /\ \A k \in Calls : calls[k] = NoCall
  BY DEF NoCall, CallType, Pcs, ChannelsInit
<1>2. <<>> \in Seq({"JOIN", "PART"})
  BY EmptySeq
<1>3. ChannelsTypeOK
  BY <1>1, <1>2, NoJoinType DEF ChannelsInit, ChannelsTypeOK, CallType, JoinType
<1>4. NickTidy
  BY <1>1 DEF ChannelsInit, NickTidy
<1> QED BY <1>1, <1>3, <1>4 DEF CTypes, InChans

LEMMA TypesStep ==
  ASSUME CTypes, NickTidy, [ChannelsNext]_channelsVars
  PROVE  CTypes' /\ NickTidy'
<1>1. CASE UNCHANGED channelsVars
  BY <1>1 DEF channelsVars, net, nicks, CTypes, ChannelsTypeOK, InChans, NickTidy
<1>2. CASE ChannelsNext
  BY <1>2, Steps, CallTypes, JoinChannelTypes, MovesTypes, LeaveTypes, LeaveEndsTypes, NickStepKeeps,
     NickWordKeeps, ClientTypes, JoinTypes, SettledTypes, NetworkTypes, PartedTypes, NicksKept
<1> QED BY <1>1, <1>2

(***************************************************************************)
(* The state is of its types in every state the client reaches.            *)
(***************************************************************************)
THEOREM ChannelsTypeCorrect == ChannelsSpec => []ChannelsTypeOK
<1>1. ChannelsInit => CTypes /\ NickTidy
  BY TypesInit
<1>2. CTypes /\ NickTidy /\ [ChannelsNext]_channelsVars => (CTypes /\ NickTidy)'
  BY TypesStep
<1>3. CTypes /\ NickTidy => ChannelsTypeOK
  BY DEF CTypes
<1> QED BY <1>1, <1>2, <1>3, PTL DEF ChannelsSpec

(***************************************************************************)
(* A nick is announced as pending, and its change listened for, exactly as *)
(* long as the change is under way.                                        *)
(***************************************************************************)
THEOREM ChannelsNickTidy == ChannelsSpec => []NickTidy
<1>1. ChannelsInit => CTypes /\ NickTidy
  BY TypesInit
<1>2. CTypes /\ NickTidy /\ [ChannelsNext]_channelsVars => (CTypes /\ NickTidy)'
  BY TypesStep
<1> QED BY <1>1, <1>2, PTL DEF ChannelsSpec
------------------------------------------------------------------------------
(* A channel that was left stays left.                                     *)
Live == status \in {"connecting", "connected"}
NoAsk(c) == ~Contains(asked[c], "JOIN")

\* Before the client is connected the server has been asked nothing.
Fresh ==
  status = "connecting" =>
    /\ deferred /\ ~up /\ chanList = {}
    /\ \A c \in Chans : joining[c].stage \in {"none", "connect"} /\ NoAsk(c)
NoneIsNoJoin == \A c \in Chans : joining[c].stage = "none" => joining[c] = NoJoin

\* What holds of a channel between the end of the wait for the join under way and
\* the next request to join.
LeaverAlone ==
  \A k \in Calls \ past.joined :
    /\ calls[k].pc \in Late => joining[calls[k].chan] = NoJoin
    /\ calls[k].pc \in {"part", "left"} => NoAsk(calls[k].chan)
    /\ calls[k].pc = "left" => calls[k].chan \notin chanList
LeftAlone == \A c \in past.left : c \notin chanList /\ joining[c] = NoJoin /\ NoAsk(c)
LInv == Fresh /\ NoneIsNoJoin /\ (Live => LeaverAlone /\ LeftAlone)

LEMMA LeftFollows ==
  ASSUME CTypes, LInv
  PROVE  LeftMeansLeft
  BY DEF LInv, LeftMeansLeft, LeftAlone, Live

\* Lines are added at the end and answered from the front.
LEMMA AskTail ==
  ASSUME NEW s \in Seq(Lines), s # <<>>, Contains(Tail(s), "JOIN")
  PROVE  Contains(s, "JOIN")
<1>1. PICK i \in 1..Len(Tail(s)) : Tail(s)[i] = "JOIN"
  BY DEF Contains
<1>2. i + 1 \in 1..Len(s) /\ s[i + 1] = "JOIN"
  BY <1>1
<1> QED BY <1>2 DEF Contains

LEMMA AskPart ==
  ASSUME NEW s \in Seq(Lines), Contains(Append(s, "PART"), "JOIN")
  PROVE  Contains(s, "JOIN")
<1>1. PICK i \in 1..Len(Append(s, "PART")) : Append(s, "PART")[i] = "JOIN"
  BY DEF Contains
<1>2. i \in 1..Len(s) /\ s[i] = "JOIN"
  BY <1>1 DEF Lines
<1> QED BY <1>2 DEF Contains

LEMMA AskHead ==
  ASSUME NEW s \in Seq(Lines), s # <<>>, Head(s) = "JOIN"
  PROVE  Contains(s, "JOIN")
  BY DEF Contains

\* Steps that move calls only.
LEMMA CallsMove ==
  ASSUME LInv, UNCHANGED <<net, joining>>, past'.left = past.left,
         \A k \in Calls : calls'[k].pc \in Late /\ k \notin past'.joined =>
                            k \notin past.joined /\ calls'[k].chan = calls[k].chan /\ calls'[k].pc = calls[k].pc
  PROVE  LInv'
  BY DEF LInv, Fresh, NoneIsNoJoin, Live, LeaverAlone, LeftAlone, NoAsk, Late, net

LEMMA LeftInit ==
  ASSUME ChannelsInit
  PROVE  LInv
<1>1. \A k \in Calls : calls[k].pc = "idle"
  BY DEF ChannelsInit, NoCall
<1>2. \A c \in Chans : NoAsk(c)
  BY DEF ChannelsInit, NoAsk, Contains
<1>3. \A c \in Chans : joining[c] = NoJoin /\ joining[c].stage = "none"
  BY DEF ChannelsInit, NoJoin
<1> QED BY <1>1, <1>2, <1>3 DEF ChannelsInit, LInv, Fresh, NoneIsNoJoin, LeaverAlone, LeftAlone, Late

LEMMA CallLeft ==
  ASSUME CTypes, LInv, NEW k \in Calls, NEW op \in Ops, NEW c \in Chans, Call(k, op, c)
  PROVE  LInv'
<1>1. /\ calls'[k].pc \notin Late /\ \A j \in Calls \ {k} : calls'[j] = calls[j]
      /\ past'.left = past.left /\ past'.joined = past.joined \ {k} /\ UNCHANGED <<net, joining>>
  BY CallTypes, TypeFacts DEF Call, CTypes, Late
<1> QED BY <1>1, CallsMove

\* A call that goes elsewhere than to the steps of leaving.
LEMMA GoesLeft ==
  ASSUME CTypes, LInv, NEW k \in Calls, NEW pc \in Pcs \ Late, Goes(k, pc), UNCHANGED <<net, joining, past>>
  PROVE  LInv'
<1>1. \A j \in Calls : calls'[j].pc \in Late => calls'[j] = calls[j]
  BY GoesPc
<1> QED BY <1>1, CallsMove

LEMMA MovesLeft ==
  ASSUME CTypes, NickTidy, LInv, (\E k \in Calls : CallMoves(k) \/ NickStep(k)) \/ NickWord
  PROVE  LInv'
<1>0. {"error", "nick"} \subseteq Pcs \ Late /\ Pcs \ {"nick", "parting", "part", "left"} \subseteq Pcs \ Late
  BY DEF Pcs, Late
<1>1. ASSUME NEW k \in Calls, CallMoves(k) PROVE LInv'
  BY <1>0, <1>1, MovesOnly, GoesLeft
<1>2. ASSUME NEW k \in Calls, NickStep(k) PROVE LInv'
  BY <1>0, <1>2, NickStepKeeps, GoesLeft
<1>3. ASSUME NickWord PROVE LInv'
  <2>1. /\ UNCHANGED <<net, joining, past>>
        /\ \A k \in Calls : calls'[k].pc \in Late => calls'[k].chan = calls[k].chan /\ calls'[k].pc = calls[k].pc
    BY <1>3, NickWordKeeps DEF Late
  <2> QED BY <2>1, CallsMove
<1> QED BY <1>1, <1>2, <1>3

LEMMA ClientLeft ==
  ASSUME CTypes, LInv, Client
  PROVE  LInv'
<1>1. CASE Connect /\ status' = "connected"
  BY <1>1 DEF Connect, LInv, Fresh, NoneIsNoJoin, Live, LeaverAlone, LeftAlone, NoAsk
<1>2. CASE status' \in {"dead", "killed"} /\ UNCHANGED joining
  BY <1>2 DEF LInv, Fresh, NoneIsNoJoin, Live
<1> QED BY <1>1, <1>2, TypeFacts DEF Client, Connect, KillClient, ConnectionDrops, LInv, CTypes, Fresh

\* Nobody has left a channel the server is asked to join.
LEMMA Busy ==
  ASSUME LInv, Live, NEW c \in Chans, joining[c] # NoJoin \/ ~NoAsk(c)
  PROVE  /\ c \notin past.left
         /\ \A k \in Calls \ past.joined :
              calls[k].chan = c => /\ calls[k].pc \notin {"part", "left"}
                                   /\ joining[c] # NoJoin => calls[k].pc # "parting"
  BY DEF LInv, LeaverAlone, LeftAlone, Late

\* Steps of one channel that move no call, where nobody has left it.
LEMMA ChannelMoves ==
  ASSUME CTypes, LInv, NEW c \in Chans, status # "connecting", UNCHANGED <<status, calls, past>>,
         joining[c] # NoJoin \/ ~NoAsk(c), joining[c] = NoJoin => joining'[c] = NoJoin,
         joining'[c].stage = "none" => joining'[c] = NoJoin,
         \A d \in Chans \ {c} : joining'[d] = joining[d] /\ asked'[d] = asked[d],
         \A d \in Chans \ {c} : d \in chanList' => d \in chanList
  PROVE  LInv'
<1>1. Fresh' /\ NoneIsNoJoin'
  BY DEF LInv, Fresh, NoneIsNoJoin
<1>2. CASE ~Live
  BY <1>1, <1>2 DEF LInv, Live
<1>3. CASE Live
  <2>1. LeaverAlone'
    <3> SUFFICES ASSUME NEW k \in Calls \ past.joined, calls[k].pc \in Late
                 PROVE  /\ joining'[calls[k].chan] = NoJoin
                        /\ calls[k].pc \in {"part", "left"} => NoAsk(calls[k].chan)'
                        /\ calls[k].pc = "left" => calls[k].chan \notin chanList'
      BY DEF LeaverAlone, Late, NoAsk
    <3>0. calls[k].chan \in Chans
      BY DEF CTypes, InChans, Late
    <3>1. CASE calls[k].chan = c
      BY <1>3, <3>1, Busy DEF Late
    <3>2. CASE calls[k].chan # c
      BY <1>3, <3>0, <3>2 DEF LInv, LeaverAlone, NoAsk
    <3> QED BY <3>1, <3>2
  <2>2. LeftAlone'
    BY <1>3, Busy, TypeFacts DEF LInv, LeftAlone, NoAsk, CTypes
  <2> QED BY <1>1, <2>1, <2>2 DEF LInv
<1> QED BY <1>2, <1>3

\* A step that only removes the client from a channel.
LEMMA ListShrinks ==
  ASSUME LInv, chanList' \subseteq chanList,
         UNCHANGED <<status, deferred, up, asked, joining, calls, past>>
  PROVE  LInv'
  BY DEF LInv, Fresh, NoneIsNoJoin, Live, LeaverAlone, LeftAlone, NoAsk

LEMMA AskedOthers ==
  ASSUME CTypes, NEW c \in Chans, NEW s, asked' = [asked EXCEPT ![c] = s]
  PROVE  asked'[c] = s /\ \A d \in Chans \ {c} : asked'[d] = asked[d]
  BY TypeFacts DEF CTypes

LEMMA JoinLeft ==
  ASSUME CTypes, LInv, NEW c \in Chans, JoinGoesOn(c) \/ JoinTimeout(c)
  PROVE  LInv'
<1>0. joining[c] \in JoinType /\ joining[c].stage \in {"connect", "asked"}
  BY TypeFacts DEF CTypes, JoinGoesOn, JoinTimeout
<1>1. joining[c] # NoJoin
  BY <1>0 DEF NoJoin
<1>2. status # "connecting"
  BY <1>0, TypeFacts DEF JoinGoesOn, JoinTimeout, LInv, Fresh, CTypes
<1>3. \A d \in Chans \ {c} : joining'[d] = joining[d] /\ asked'[d] = asked[d]
  BY TypeFacts DEF JoinGoesOn, JoinTimeout, TimesOut, Send, CTypes
<1>4. joining'[c].stage # "none"
  <2>1. CASE \E s \in {"asked", "joined", "failed"} : joining' = [joining EXCEPT ![c].stage = s]
    BY <1>0, <2>1, TypeFacts DEF CTypes, JoinType
  <2>2. CASE joining' = [joining EXCEPT ![c].n = @ + 1]
    <3>1. joining'[c].stage = joining[c].stage
      BY <2>2, TypeFacts DEF CTypes, JoinType
    <3> QED BY <1>0, <3>1
  <2> QED BY <2>1, <2>2 DEF JoinGoesOn, JoinTimeout, TimesOut
<1>5. \A d \in Chans \ {c} : d \in chanList' => d \in chanList
  BY DEF JoinGoesOn, JoinTimeout
<1>6. UNCHANGED <<status, calls, past>>
  BY DEF JoinGoesOn, JoinTimeout
<1> QED BY <1>1, <1>2, <1>3, <1>4, <1>5, <1>6, ChannelMoves

LEMMA NetworkLeft ==
  ASSUME CTypes, LInv, NEW c \in Chans, NetworkSteps(c)
  PROVE  LInv'
<1>1. CASE Joined(c) \/ Refused(c)
  <2>1. asked[c] # <<>> /\ Head(asked[c]) = "JOIN" /\ up /\ asked[c] \in Seq(Lines)
    BY <1>1, TypeFacts DEF Joined, Refused, CTypes
  <2>2. ~NoAsk(c)
    BY <2>1, AskHead DEF NoAsk
  <2>3. status # "connecting"
    BY <2>1 DEF LInv, Fresh
  <2>4. joining[c].stage = "asked" \/ joining'[c] = joining[c]
    BY <1>1 DEF Joined, Refused, Hear
  <2>5. joining'[c].stage # "none" \/ joining'[c] = joining[c]
    BY <1>1, TypeFacts DEF Joined, Refused, Hear, CTypes, JoinType
  <2>6. joining[c] = NoJoin => joining'[c] = NoJoin
    BY <2>4 DEF NoJoin
  <2>7. joining'[c].stage = "none" => joining'[c] = NoJoin
    BY <2>5 DEF LInv, NoneIsNoJoin
  <2>8. \A d \in Chans \ {c} : joining'[d] = joining[d] /\ asked'[d] = asked[d]
    BY <1>1, TypeFacts DEF Joined, Refused, Hear, Answered, CTypes
  <2>9. (\A d \in Chans \ {c} : d \in chanList' => d \in chanList) /\ UNCHANGED <<status, calls, past>>
    BY <1>1 DEF Joined, Refused
  <2> QED BY <2>2, <2>3, <2>6, <2>7, <2>8, <2>9, ChannelMoves
<1>2. CASE Kicked(c) \/ CacheExpires(c)
  BY <1>2, ListShrinks DEF Kicked, CacheExpires, net
<1> QED BY <1>1, <1>2 DEF NetworkSteps

LEMMA SettledLeft ==
  ASSUME CTypes, LInv, NEW c \in Chans, Settled(c)
  PROVE  LInv'
<1>0. /\ joining[c] # NoJoin /\ UNCHANGED <<net, past>>
      /\ joining'[c] = NoJoin /\ \A d \in Chans \ {c} : joining'[d] = joining[d]
  BY TypeFacts DEF Settled, CTypes, NoJoin
<1>1. Fresh' /\ NoneIsNoJoin'
  BY <1>0 DEF LInv, Fresh, NoneIsNoJoin, NoAsk, net, NoJoin
<1>2. ASSUME Live PROVE LeaverAlone' /\ LeftAlone'
  <2>1. ASSUME NEW k \in Calls \ past.joined, calls'[k].pc \in Late
        PROVE  /\ joining'[calls[k].chan] = NoJoin
               /\ calls'[k].pc \in {"part", "left"} => NoAsk(calls[k].chan)
               /\ calls'[k].pc = "left" => calls[k].chan \notin chanList
    <3>1. CASE calls[k].chan = c /\ calls'[k].pc = "parting"
      BY <1>0, <3>1
    <3>2. CASE calls'[k] = calls[k] /\ calls[k].chan # c
      <4>1. calls[k].chan \in Chans
        BY <2>1, <3>2 DEF CTypes, InChans, Late
      <4> QED BY <1>0, <1>2, <2>1, <3>2, <4>1 DEF LInv, LeaverAlone
    <3>3. CASE calls'[k] = calls[k] /\ calls[k].chan = c
      BY <1>0, <1>2, <2>1, <3>3, Busy DEF Late
    <3> QED BY <2>1, <3>1, <3>2, <3>3, SettledTypes DEF Late
  <2>2. LeaverAlone'
    <3>1. \A k \in Calls : calls'[k].chan = calls[k].chan
      BY SettledTypes
    <3> QED BY <1>0, <2>1, <3>1 DEF LeaverAlone, NoAsk, net, Late
  <2>3. LeftAlone'
    BY <1>0, <1>2, Busy, TypeFacts DEF LInv, LeftAlone, NoAsk, net, CTypes
  <2> QED BY <2>2, <2>3
<1> QED BY <1>0, <1>1, <1>2 DEF LInv, Live, net

LEMMA JoinChannelLeft ==
  ASSUME CTypes, LInv, NEW k \in Calls, JoinChannel(k)
  PROVE  LInv'
<1> DEFINE c == calls[k].chan
<1>0. /\ c \in Chans /\ calls[k].pc = "joining" /\ "join" \in Pcs /\ Goes(k, "join")
      /\ joining' = [joining EXCEPT ![c] = Joining(c)]
      /\ past' = [joined |-> past.joined \cup At(c, Leaving), left |-> past.left \ {c}]
      /\ UNCHANGED <<status, deferred, up, chans, chanList>>
  BY DEF JoinChannel, CTypes, InChans, Pcs
<1>1. calls'[k].pc = "join" /\ \A j \in Calls \ {k} : calls'[j] = calls[j]
  BY <1>0, GoesPc
<1>2. /\ joining'[c] = Joining(c) /\ \A d \in Chans \ {c} : joining'[d] = joining[d]
      /\ \A d \in Chans \ {c} : asked'[d] = asked[d]
  BY <1>0, TypeFacts DEF JoinChannel, Send, CTypes
<1>3. NoneIsNoJoin'
  BY <1>0, <1>2, JoiningType DEF CTypes, LInv, NoneIsNoJoin
<1>4. Fresh'
  <2> SUFFICES ASSUME status = "connecting"
               PROVE  joining'[c].stage \in {"none", "connect"} /\ UNCHANGED asked
    BY <1>0, <1>2 DEF LInv, Fresh, NoAsk
  <2>1. CASE joining[c] # NoJoin
    BY <1>0, <1>2, <2>1 DEF LInv, Fresh, Joining, JoinChannel
  <2>2. CASE joining[c] = NoJoin
    <3>1. Joining(c).stage = "connect"
      BY <2>2 DEF LInv, Fresh, Joining
    <3> QED BY <1>0, <1>2, <3>1 DEF JoinChannel
  <2> QED BY <2>1, <2>2
<1>5. ASSUME Live PROVE LeaverAlone'
  <2> SUFFICES ASSUME NEW j \in Calls \ past'.joined, calls'[j].pc \in Late
               PROVE  /\ calls'[j] = calls[j] /\ calls[j].chan \in Chans \ {c} /\ j \notin past.joined
    BY <1>0, <1>2, <1>5 DEF LInv, LeaverAlone, NoAsk, Late
  <2>1. j # k /\ calls'[j] = calls[j] /\ calls[j].chan \in Chans
    BY <1>1 DEF Late, CTypes, InChans
  <2> QED BY <1>0, <2>1 DEF At, Late, Leaving
<1>6. ASSUME Live PROVE LeftAlone'
  BY <1>0, <1>2, <1>6, TypeFacts DEF LInv, LeftAlone, NoAsk, CTypes
<1> QED BY <1>0, <1>3, <1>4, <1>5, <1>6 DEF LInv, Live

LEMMA PartIfAsks ==
  ASSUME CTypes, NEW k \in Calls, PartIf(k), calls[k].pc # "idle"
  PROVE  \A d \in Chans : \/ asked'[d] = asked[d]
                          \/ d = calls[k].chan /\ asked'[d] = Append(asked[d], "PART")
<1>1. asked \in [Chans -> Seq(Lines)]
  BY TypeFacts DEF CTypes
<1>2. asked' = asked \/ asked' = [asked EXCEPT ![calls[k].chan] = Append(@, "PART")]
  BY DEF PartIf, Send
<1> QED BY <1>1, <1>2

LEMMA PartIfLeft ==
  ASSUME CTypes, LInv, Live, NEW k \in Calls, PartIf(k), calls[k].pc # "idle",
         joining[calls[k].chan] = NoJoin, past' = Excused(calls[k].chan, {k}),
         UNCHANGED <<status, chanList, joining>>
  PROVE  LeaverAlone' /\ LeftAlone'
<1> DEFINE c == calls[k].chan
<1>0. /\ past'.left = past.left /\ past.joined \subseteq past'.joined
      /\ k \notin past'.joined => NoAsk(c) /\ c \in Chans
  BY ExcusedType DEF CTypes, InChans, NoAsk
<1>1. \A d \in Chans : \/ asked'[d] = asked[d]
                       \/ d = c /\ asked'[d] = Append(asked[d], "PART")
  BY PartIfAsks
<1>2. \A d \in Chans : NoAsk(d) => NoAsk(d)'
  BY <1>1, AskPart, TypeFacts DEF NoAsk, CTypes
<1>3. PICK pc \in {"left", "part", "error"} : Goes(k, pc)
  BY PartIfTypes
<1>4. /\ calls'[k].pc = pc /\ \A j \in Calls \ {k} : calls'[j] = calls[j]
      /\ \A j \in Calls : calls'[j].chan = calls[j].chan
  BY <1>3, GoesPc DEF Pcs
<1>5. calls'[k].pc = "left" => c \notin chanList
  <2>1. "part" \in Pcs /\ "error" \in Pcs
    BY DEF Pcs
  <2> QED BY <2>1, GoesPc DEF PartIf
<1>6. LeaverAlone'
  <2> SUFFICES ASSUME NEW j \in Calls \ past'.joined, calls'[j].pc \in Late
               PROVE  /\ joining[calls[j].chan] = NoJoin
                      /\ calls'[j].pc \in {"part", "left"} => NoAsk(calls[j].chan)'
                      /\ calls'[j].pc = "left" => calls[j].chan \notin chanList
    BY <1>4 DEF LeaverAlone, Late, NoAsk
  <2>1. CASE j = k
    <3>1. calls'[k].chan = c
      BY <1>4
    <3>2. NoAsk(c) /\ c \in Chans => NoAsk(calls[k].chan)'
      BY <1>2, <3>1 DEF NoAsk
    <3> QED BY <1>0, <1>5, <2>1, <3>1, <3>2
  <2>2. CASE j # k
    <3>1. calls'[j] = calls[j] /\ calls[j].chan \in Chans
      BY <1>4, <2>2 DEF CTypes, InChans, Late
    <3>2. calls'[j].chan = calls[j].chan
      BY <3>1
    <3>3. NoAsk(calls[j].chan) => NoAsk(calls[j].chan)'
      BY <1>2, <3>1, <3>2 DEF NoAsk
    <3> QED BY <1>0, <3>1, <3>3 DEF LInv, LeaverAlone
  <2> QED BY <2>1, <2>2
<1>7. LeftAlone'
  BY <1>0, <1>2, TypeFacts DEF LInv, LeftAlone, CTypes
<1> QED BY <1>6, <1>7

LEMMA LeaveLeft ==
  ASSUME CTypes, LInv, NEW k \in Calls, LeaveChannel(k)
  PROVE  LInv'
<1> DEFINE c == calls[k].chan
<1>0. /\ c \in Chans /\ calls[k].pc \in {"leaving", "parting"}
      /\ UNCHANGED <<status, deferred, up, chans, chanList, joining>>
  BY DEF LeaveChannel, CTypes, InChans
<1>1. CASE calls[k].pc = "leaving" /\ status # "connected"
  <2>1. /\ Goes(k, "left") /\ "left" \in Pcs /\ UNCHANGED <<net, joining>>
        /\ past' = IF joining[c].stage = "connect" THEN [past EXCEPT !.joined = @ \cup {k}] ELSE past
    BY <1>1 DEF LeaveChannel, Pcs, net
  <2>2. calls'[k].pc = "left" /\ calls'[k].chan = c /\ \A j \in Calls \ {k} : calls'[j] = calls[j]
    BY <2>1, GoesPc
  <2>3. past'.left = past.left /\ past.joined \subseteq past'.joined
    BY <2>1, TypeFacts DEF CTypes
  <2>4. ASSUME Live, k \notin past'.joined
        PROVE  joining[c] = NoJoin /\ NoAsk(c) /\ c \notin chanList
    <3>1. joining[c].stage # "connect"
      BY <2>1, <2>4, TypeFacts DEF CTypes
    <3>2. status = "connecting"
      BY <1>1, <2>4 DEF Live
    <3> QED BY <1>0, <3>1, <3>2 DEF LInv, Fresh, NoneIsNoJoin
  <2>5. ASSUME Live PROVE LeaverAlone'
    BY <2>1, <2>2, <2>3, <2>4, <2>5 DEF LInv, LeaverAlone, NoAsk, net
  <2>6. Fresh' /\ NoneIsNoJoin' /\ (Live => LeftAlone')
    BY <2>1, <2>3 DEF LInv, Fresh, NoneIsNoJoin, LeftAlone, NoAsk, net
  <2> QED BY <2>1, <2>5, <2>6 DEF LInv, Live, net
<1>2. CASE calls[k].pc = "leaving" /\ status = "connected" /\ joining[c] # NoJoin
  <2>1. Goes(k, "waits") /\ "waits" \in Pcs \ Late /\ UNCHANGED <<net, joining, past>>
    BY <1>2 DEF LeaveChannel, Pcs, Late, net, NoJoin
  <2> QED BY <2>1, GoesLeft
<1>3. CASE \/ calls[k].pc = "leaving" /\ status = "connected" /\ joining[c] = NoJoin
           \/ calls[k].pc = "parting"
  <2>1. PartIf(k) /\ past' = Excused(c, {k})
    BY <1>3 DEF LeaveChannel
  <2>2. status = "connecting" => chanList = {} /\ UNCHANGED asked
    BY <2>1 DEF PartIf, LInv, Fresh
  <2>3. Fresh' /\ NoneIsNoJoin'
    BY <1>0, <2>2 DEF LInv, Fresh, NoneIsNoJoin, NoAsk
  <2>4. CASE Live /\ joining[c] = NoJoin
    BY <1>0, <2>1, <2>3, <2>4, PartIfLeft DEF LInv
  <2>5. CASE Live /\ joining[c] # NoJoin
    <3>1. k \in past.joined /\ calls[k].pc = "parting"
      BY <1>3, <2>5 DEF LInv, LeaverAlone, Late
    <3>2. /\ past'.left = past.left /\ past.joined \subseteq past'.joined
      BY <2>1, ExcusedType DEF CTypes
    <3>3. \A d \in Chans : \/ asked'[d] = asked[d]
                           \/ d = c /\ asked'[d] = Append(asked[d], "PART")
      BY <1>0, <2>1, PartIfAsks
    <3>4. \A d \in Chans : NoAsk(d) => NoAsk(d)'
      BY <3>3, AskPart, TypeFacts DEF NoAsk, CTypes
    <3>5. \A j \in Calls \ {k} : calls'[j] = calls[j]
      <4>1. {"left", "part", "error"} \subseteq Pcs
        BY DEF Pcs
      <4> QED BY <2>1, <4>1, <1>0, PartIfTypes, GoesPc
    <3>6. LeaverAlone'
      <4> SUFFICES ASSUME NEW j \in Calls \ past'.joined, calls'[j].pc \in Late
                   PROVE  /\ calls'[j] = calls[j] /\ j \notin past.joined /\ calls[j].chan \in Chans
        BY <1>0, <2>5, <3>4 DEF LInv, LeaverAlone, Late
      <4> QED BY <3>1, <3>2, <3>5 DEF CTypes, InChans, Late
    <3>7. LeftAlone'
      BY <1>0, <2>5, <3>2, <3>4, TypeFacts DEF LInv, LeftAlone, CTypes
    <3> QED BY <2>3, <3>6, <3>7 DEF LInv
  <2>6. CASE ~Live
    BY <1>0, <2>3, <2>6 DEF LInv, Live
  <2> QED BY <2>4, <2>5, <2>6
<1> QED BY <1>0, <1>1, <1>2, <1>3 DEF LeaveChannel

LEMMA LeaveEndsLeft ==
  ASSUME CTypes, LInv, NEW k \in Calls, LeaveEnds(k)
  PROVE  LInv'
<1> DEFINE c == calls[k].chan
<1>0. /\ calls[k].pc = "left" /\ UNCHANGED <<net, joining>>
      /\ past' = IF k \in past.joined THEN past ELSE [past EXCEPT !.left = @ \cup {c}]
  BY DEF LeaveEnds
<1>1. \A j \in Calls : calls'[j].pc \in Late => calls'[j] = calls[j]
  <2>1. {"ok", "error"} \subseteq Pcs \ Late
    BY DEF Pcs, Late
  <2> QED BY <2>1, LeaveEndsTypes, GoesPc
<1>2. /\ past'.joined = past.joined
      /\ past'.left = IF k \in past.joined THEN past.left ELSE past.left \cup {c}
  BY <1>0, TypeFacts DEF CTypes
<1>3. Fresh' /\ NoneIsNoJoin'
  BY <1>0 DEF LInv, Fresh, NoneIsNoJoin, NoAsk, net
<1>4. ASSUME Live PROVE LeaverAlone'
  BY <1>0, <1>1, <1>2, <1>4 DEF LInv, LeaverAlone, NoAsk, net, Late
<1>5. ASSUME Live PROVE LeftAlone'
  <2>1. k \notin past.joined => c \notin chanList /\ joining[c] = NoJoin /\ NoAsk(c)
    BY <1>0, <1>5 DEF LInv, LeaverAlone, Late
  <2> QED BY <1>0, <1>2, <1>5, <2>1 DEF LInv, LeftAlone, NoAsk, net
<1> QED BY <1>0, <1>3, <1>4, <1>5 DEF LInv, Live, net

LEMMA PartedLeft ==
  ASSUME CTypes, LInv, NEW c \in Chans, Parted(c)
  PROVE  LInv'
<1>0. /\ up /\ asked[c] # <<>> /\ asked' = [asked EXCEPT ![c] = Tail(@)]
      /\ past' = Excused(c, At(c, {"part"}))
      /\ chanList' \subseteq chanList /\ UNCHANGED <<status, deferred, up, joining>>
  BY DEF Parted, Answered
<1>1. \A d \in Chans : NoAsk(d) => NoAsk(d)'
  BY <1>0, AskTail, TypeFacts DEF NoAsk, CTypes
<1>2. past'.left = past.left /\ past.joined \subseteq past'.joined
  BY <1>0, ExcusedType DEF CTypes, At
<1>3. Fresh' /\ NoneIsNoJoin'
  BY <1>0, <1>1 DEF LInv, Fresh, NoneIsNoJoin
<1>4. ASSUME Live PROVE LeaverAlone'
  <2> SUFFICES ASSUME NEW k \in Calls \ past.joined, calls'[k].pc \in Late
               PROVE  /\ joining[calls[k].chan] = NoJoin /\ calls[k].chan \in Chans
                      /\ calls'[k].pc \in {"part", "left"} => NoAsk(calls[k].chan)
                      /\ calls'[k].pc = "left" => calls[k].chan \notin chanList'
    BY <1>0, <1>1, <1>2, PartedTypes DEF LeaverAlone, Late
  <2>1. CASE k \in At(c, {"part"}) /\ calls'[k].pc = "left" /\ c \notin chanList'
    BY <1>4, <2>1 DEF LInv, LeaverAlone, At, Late
  <2>2. CASE calls'[k] = calls[k]
    BY <1>0, <1>4, <2>2 DEF LInv, LeaverAlone, Late, CTypes, InChans
  <2> QED BY <2>1, <2>2, PartedTypes
<1>5. ASSUME Live PROVE LeftAlone'
  BY <1>0, <1>1, <1>2, <1>5, TypeFacts DEF LInv, LeftAlone, CTypes
<1> QED BY <1>0, <1>3, <1>4, <1>5 DEF LInv, Live

LEMMA LeftStep ==
  ASSUME CTypes, NickTidy, LInv, [ChannelsNext]_channelsVars
  PROVE  LInv'
<1>1. CASE UNCHANGED channelsVars
  BY <1>1 DEF channelsVars, net, nicks, LInv, Fresh, NoneIsNoJoin, Live, LeaverAlone, LeftAlone, NoAsk
<1>2. CASE ChannelsNext
  BY <1>2, Steps, CallLeft, JoinChannelLeft, MovesLeft, LeaveLeft, LeaveEndsLeft, ClientLeft,
     JoinLeft, SettledLeft, NetworkLeft, PartedLeft
<1> QED BY <1>1, <1>2

(***************************************************************************)
(* When leaveChannel has returned, the client is not in the channel until  *)
(* a join is asked for again.                                              *)
(***************************************************************************)
THEOREM ChannelsLeftMeansLeft == ChannelsSpec => []LeftMeansLeft
<1>1. ChannelsInit => CTypes /\ NickTidy /\ LInv
  BY TypesInit, LeftInit
<1>2. CTypes /\ NickTidy /\ LInv /\ [ChannelsNext]_channelsVars => (CTypes /\ NickTidy /\ LInv)'
  BY TypesStep, LeftStep
<1>3. CTypes /\ NickTidy /\ LInv => LeftMeansLeft
  BY LeftFollows
<1> QED BY <1>1, <1>2, <1>3, PTL DEF ChannelsSpec
------------------------------------------------------------------------------
(* Who shares a join.                                                      *)

\* Those who wait for the promise of the join under way for their channel.
Sharing == {"join", "waits"}
JoinIsUnderWay == \A k \in Calls : calls[k].pc \in Sharing => joining[calls[k].chan] # NoJoin

\* No call begins to share a join, and no join ends.
LEMMA SharersStay ==
  ASSUME CTypes, JoinIsUnderWay,
         \A k \in Calls : calls'[k].pc \in Sharing =>
                            calls'[k].chan = calls[k].chan /\ calls'[k].pc = calls[k].pc,
         \A c \in Chans : joining[c] # NoJoin => joining'[c] # NoJoin
  PROVE  JoinIsUnderWay'
<1> SUFFICES ASSUME NEW k \in Calls, calls'[k].pc \in Sharing PROVE joining'[calls'[k].chan] # NoJoin
  BY DEF JoinIsUnderWay, NoJoin
<1>1. calls[k].chan \in Chans /\ joining[calls[k].chan] # NoJoin
  BY DEF JoinIsUnderWay, CTypes, InChans, Sharing
<1> QED BY <1>1

LEMMA GoesElsewhere ==
  ASSUME CTypes, JoinIsUnderWay, NEW k \in Calls, NEW pc \in Pcs \ Sharing, Goes(k, pc), UNCHANGED joining
  PROVE  JoinIsUnderWay'
<1>1. \A j \in Calls : calls'[j].pc \in Sharing => calls'[j] = calls[j]
  BY GoesPc
<1> QED BY <1>1, SharersStay

LEMMA FirstIsNoSharing == ASSUME NEW op \in Ops PROVE First[op] \notin Sharing
<1>1. op \in {"join", "send", "topic", "ops", "leave", "nick"}
  BY ChannelsAssumption
<1>2. CASE op = "join" BY <1>2 DEF First, Sharing
<1>3. CASE op = "send" BY <1>3 DEF First, Sharing
<1>4. CASE op = "topic" BY <1>4 DEF First, Sharing
<1>5. CASE op = "ops" BY <1>5 DEF First, Sharing
<1>6. CASE op = "leave" BY <1>6 DEF First, Sharing
<1>7. CASE op = "nick" BY <1>7 DEF First, Sharing
<1> QED BY <1>1, <1>2, <1>3, <1>4, <1>5, <1>6, <1>7

LEMMA CallsShare ==
  ASSUME CTypes, NickTidy, LInv, JoinIsUnderWay, NEW k \in Calls,
         \/ \E op \in Ops, c \in Chans : Call(k, op, c)
         \/ JoinChannel(k) \/ CallMoves(k) \/ LeaveChannel(k) \/ LeaveEnds(k) \/ NickStep(k)
  PROVE  JoinIsUnderWay'
<1>0. {"ok", "error", "joining", "names", "leaving", "whoissed", "left", "part", "nick"} \subseteq Pcs \ Sharing
  BY DEF Pcs, Sharing
<1>1. ASSUME NEW op \in Ops, NEW c \in Chans, Call(k, op, c) PROVE JoinIsUnderWay'
  <2>1. calls'[k].pc \notin Sharing /\ UNCHANGED joining
    <3>1. calls' = [calls EXCEPT ![k] = [op |-> op, chan |-> c, pc |-> First[op]]]
      BY <1>1 DEF Call
    <3> QED BY <1>1, <3>1, FirstIsNoSharing, TypeFacts DEF CTypes, Call
  <2>2. \A j \in Calls \ {k} : calls'[j] = calls[j]
    BY <1>1, CallTypes
  <2> QED BY <2>1, <2>2, SharersStay
<1>2. CASE JoinChannel(k)
  <2> DEFINE c == calls[k].chan
  <2>1. /\ c \in Chans /\ Goes(k, "join") /\ "join" \in Pcs
        /\ joining' = [joining EXCEPT ![c] = Joining(c)]
    BY <1>2 DEF JoinChannel, CTypes, InChans, Pcs
  <2>2. /\ calls'[k].pc = "join" /\ calls'[k].chan = c /\ \A j \in Calls \ {k} : calls'[j] = calls[j]
    BY <2>1, GoesPc
  <2>3. joining'[c] = Joining(c) /\ \A d \in Chans \ {c} : joining'[d] = joining[d]
    BY <2>1, TypeFacts DEF CTypes
  <2>4. Joining(c) # NoJoin
    BY <2>1, JoiningType DEF CTypes, Joining, NoJoin
  <2> SUFFICES ASSUME NEW j \in Calls, calls'[j].pc \in Sharing PROVE joining'[calls'[j].chan] # NoJoin
    BY DEF JoinIsUnderWay, NoJoin
  <2>5. CASE j = k
    BY <2>2, <2>3, <2>4, <2>5
  <2>6. CASE j # k
    <3>1. calls'[j] = calls[j] /\ calls[j].chan \in Chans /\ joining[calls[j].chan] # NoJoin
      BY <2>2, <2>6 DEF JoinIsUnderWay, CTypes, InChans, Sharing
    <3> QED BY <2>3, <2>4, <3>1
  <2> QED BY <2>5, <2>6
<1>3. CASE CallMoves(k)
  <2>1. \E pc \in {"ok", "error", "joining", "names", "leaving", "whoissed"} : Goes(k, pc)
    BY <1>3 DEF CallMoves, JoinEnds, SendMessage, SetTopic, GetOperators, Whois
  <2> QED BY <1>0, <1>3, <2>1, MovesOnly, GoesElsewhere
<1>4. CASE LeaveChannel(k)
  <2>0. UNCHANGED joining
    BY <1>4 DEF LeaveChannel
  <2>1. CASE calls[k].pc = "leaving" /\ joining[calls[k].chan] # NoJoin
    <3>1. PICK pc \in {"left", "waits", "part", "error"} : Goes(k, pc)
      BY <1>4, LeaveTypes
    <3>2. calls'[k].chan = calls[k].chan /\ \A j \in Calls \ {k} : calls'[j] = calls[j]
      BY <3>1, GoesPc DEF Pcs
    <3> QED BY <2>0, <2>1, <3>2 DEF JoinIsUnderWay, NoJoin
  <2>2. CASE ~(calls[k].pc = "leaving" /\ joining[calls[k].chan] # NoJoin)
    <3>1. \E pc \in {"left", "part", "error"} : Goes(k, pc)
      BY <1>4, <2>2, PartIfTypes DEF LeaveChannel
    <3> QED BY <1>0, <2>0, <3>1, GoesElsewhere
  <2> QED BY <2>1, <2>2
<1>5. CASE LeaveEnds(k)
  <2>1. UNCHANGED joining
    BY <1>5 DEF LeaveEnds
  <2> QED BY <1>0, <1>5, <2>1, LeaveEndsTypes, GoesElsewhere
<1>6. CASE NickStep(k)
  BY <1>0, <1>6, NickStepKeeps, GoesElsewhere
<1> QED BY <1>1, <1>2, <1>3, <1>4, <1>5, <1>6

LEMMA ChannelShares ==
  ASSUME CTypes, NickTidy, LInv, JoinIsUnderWay, NEW c \in Chans,
         JoinGoesOn(c) \/ JoinTimeout(c) \/ Settled(c) \/ NetworkSteps(c) \/ Parted(c)
  PROVE  JoinIsUnderWay'
<1>1. CASE JoinGoesOn(c) \/ JoinTimeout(c)
  <2>1. joining[c] \in JoinType /\ joining[c].stage \in {"connect", "asked"} /\ UNCHANGED calls
    BY <1>1, TypeFacts DEF CTypes, JoinGoesOn, JoinTimeout
  <2>2. joining'[c].stage # "none" /\ \A d \in Chans \ {c} : joining'[d] = joining[d]
    <3>1. CASE \E s \in {"asked", "joined", "failed"} : joining' = [joining EXCEPT ![c].stage = s]
      BY <2>1, <3>1, TypeFacts DEF CTypes, JoinType
    <3>2. CASE joining' = [joining EXCEPT ![c].n = @ + 1]
      <4>1. joining'[c].stage = joining[c].stage /\ \A d \in Chans \ {c} : joining'[d] = joining[d]
        BY <3>2, TypeFacts DEF CTypes, JoinType
      <4> QED BY <2>1, <4>1
    <3> QED BY <1>1, <3>1, <3>2 DEF JoinGoesOn, JoinTimeout, TimesOut
  <2>3. \A d \in Chans : joining[d] # NoJoin => joining'[d] # NoJoin
    BY <2>2 DEF NoJoin
  <2> QED BY <2>1, <2>3, SharersStay
<1>2. CASE Settled(c)
  <2>1. \A d \in Chans \ {c} : joining'[d] = joining[d]
    BY <1>2, TypeFacts DEF Settled, CTypes
  <2> SUFFICES ASSUME NEW k \in Calls, calls'[k].pc \in Sharing PROVE joining'[calls'[k].chan] # NoJoin
    BY DEF JoinIsUnderWay, NoJoin
  <2>2. calls'[k] = calls[k]
    BY <1>2, SettledTypes DEF Sharing
  <2>3. calls[k].chan # c
    BY <1>2, <2>2 DEF Settled, At, Sharing
  <2>4. calls[k].chan \in Chans /\ joining[calls[k].chan] # NoJoin
    BY <2>2 DEF JoinIsUnderWay, CTypes, InChans, Sharing
  <2> QED BY <2>1, <2>2, <2>3, <2>4
<1>3. CASE NetworkSteps(c)
  <2>1. UNCHANGED calls
    BY <1>3 DEF NetworkSteps, Joined, Refused, Kicked, CacheExpires
  <2>2. \/ UNCHANGED joining
        \/ \E s \in {"joined", "failed"} : joining' = [joining EXCEPT ![c].stage = s]
    BY <1>3 DEF NetworkSteps, Joined, Refused, Kicked, CacheExpires, Hear
  <2>3. \A d \in Chans : joining[d] # NoJoin => joining'[d] # NoJoin
    <3>1. ASSUME NEW s \in {"joined", "failed"}, joining' = [joining EXCEPT ![c].stage = s], NEW d \in Chans
          PROVE  joining'[d] = joining[d] \/ joining'[d].stage = s
      BY <3>1, TypeFacts DEF CTypes, JoinType
    <3> QED BY <2>2, <3>1 DEF NoJoin
  <2> QED BY <2>1, <2>3, SharersStay
<1>4. CASE Parted(c)
  <2>1. UNCHANGED joining
    BY <1>4 DEF Parted
  <2> QED BY <1>4, <2>1, PartedTypes, SharersStay DEF Sharing
<1> QED BY <1>1, <1>2, <1>3, <1>4

LEMMA SharersKept ==
  ASSUME CTypes, NickTidy, LInv, JoinIsUnderWay, [ChannelsNext]_channelsVars
  PROVE  JoinIsUnderWay'
<1>1. CASE UNCHANGED channelsVars
  BY <1>1 DEF channelsVars, JoinIsUnderWay, NoJoin
<1>2. CASE Client
  <2>1. UNCHANGED <<calls, joining>>
    BY <1>2 DEF Client, Connect, KillClient, ConnectionDrops
  <2> QED BY <2>1, SharersStay
<1>3. CASE NickWord
  BY <1>3, NickWordKeeps, SharersStay DEF Sharing
<1> QED BY <1>1, <1>2, <1>3, Steps, CallsShare, ChannelShares

(***************************************************************************)
(* Whoever shares a join, to send, to set a topic or to leave afterwards,  *)
(* shares one that is under way: the map of joins forgets a promise only   *)
(* when it is settled, and then all who wait for it go on.  Nobody waits   *)
(* for a promise that is gone.                                             *)
(***************************************************************************)
THEOREM ChannelsJoinIsUnderWay == ChannelsSpec => []JoinIsUnderWay
<1>1. ChannelsInit => CTypes /\ NickTidy /\ LInv
  BY TypesInit, LeftInit
<1>2. ChannelsInit => JoinIsUnderWay
  BY DEF ChannelsInit, NoCall, JoinIsUnderWay, Sharing
<1>3. CTypes /\ NickTidy /\ LInv /\ [ChannelsNext]_channelsVars => (CTypes /\ NickTidy /\ LInv)'
  BY TypesStep, LeftStep
<1>4. CTypes /\ NickTidy /\ LInv /\ JoinIsUnderWay /\ [ChannelsNext]_channelsVars => JoinIsUnderWay'
  BY SharersKept
<1> QED BY <1>1, <1>2, <1>3, <1>4, PTL DEF ChannelsSpec
------------------------------------------------------------------------------
(***************************************************************************)
(* Provisioning                                                            *)
(***************************************************************************)
LinkStages ==
  {"none", "checks", "pending", "asks", "waits", "stuck", "links", "expires", "joins", "stores",
   "fails", "shows", "done"}
Status == {"none", "pending", "success", "failure"}
RequestsOK ==
  /\ linkReqs \in [LinkRequests ->
                    [room : LinkRooms \cup {NoRequest}, op : Operators \cup {NoRequest}, pc : LinkStages]]
  /\ \A p \in LinkRequests : linkReqs[p].pc # "none" => linkReqs[p].room \in LinkRooms
UnlinkOK == unlink \in [pc : {"none", "looks", "leaves"}, n : 0..MaxUnlinks]
PTypeOK == ProvisionTypeOK /\ RequestsOK /\ UnlinkOK

\* The bot leaves when there was no link, and none was stored since; a request that is
\* about to store its link has brought the bot to the channel.
LeavesNone == unlink.pc = "leaves" /\ ~raced => links = {}
StoresIn == ~raced => \A p \in LinkRequests : IsAt(p, "stores") => botIn
PInv == PTypeOK /\ LeavesNone /\ StoresIn /\ BotStays
------------------------------------------------------------------------------
LEMMA PInvInit == ProvisionInit => PInv
<1> SUFFICES ASSUME ProvisionInit PROVE PInv
  OBVIOUS
<1>0. unlink = [pc |-> "none", n |-> 0] /\ unlink.n = 0 /\ 0 \in 0..MaxUnlinks
  BY ProvisioningAssumption DEF ProvisionInit
<1>1. ProvisionTypeOK
  <2>1. links \subseteq LinkRooms /\ agreed \subseteq LinkRequests /\ unlink.n \in 0..MaxUnlinks
    BY <1>0 DEF ProvisionInit
  <2>2. botIn \in BOOLEAN /\ raced \in BOOLEAN
    BY DEF ProvisionInit
  <2>3. /\ bridging \in [LinkRooms -> {"none", "pending", "success", "failure"}]
        /\ pendingReq \in [Operators -> LinkRequests \cup {NoRequest}]
    BY DEF ProvisionInit
  <2> QED BY <2>1, <2>2, <2>3 DEF ProvisionTypeOK
<1>2. RequestsOK
  BY DEF ProvisionInit, RequestsOK, NotMade, LinkStages
<1>3. UnlinkOK
  BY <1>0 DEF UnlinkOK
<1>4. LeavesNone /\ StoresIn /\ BotStays
  BY DEF ProvisionInit, LeavesNone, StoresIn, BotStays, NotMade, IsAt
<1> QED BY <1>1, <1>2, <1>3, <1>4 DEF PInv, PTypeOK

LEMMA MovesTyped ==
  ASSUME RequestsOK, NEW p \in LinkRequests, linkReqs[p].pc # "none", NEW pc \in LinkStages, Moves(p, pc)
  PROVE  RequestsOK'
BY DEF RequestsOK, Moves

LEMMA ShowsTyped ==
  ASSUME ProvisionTypeOK, NEW p \in LinkRequests, NEW v \in Status, Shows(p, v)
  PROVE  bridging' \in [LinkRooms -> Status]
BY DEF ProvisionTypeOK, Shows, Status

LEMMA ForgetTyped ==
  ASSUME ProvisionTypeOK, NEW p \in LinkRequests, Forget(p)
  PROVE  pendingReq' \in [Operators -> LinkRequests \cup {NoRequest}]
BY DEF ProvisionTypeOK, Forget
------------------------------------------------------------------------------
(* Types.                                                                  *)

LEMMA PTypeStep == PTypeOK /\ [ProvisionNext]_provisionVars => PTypeOK'
<1> SUFFICES ASSUME PTypeOK, [ProvisionNext]_provisionVars PROVE PTypeOK'
  OBVIOUS
<1> USE DEF PTypeOK
<1>m. ASSUME NEW p \in LinkRequests, NEW pc \in LinkStages, linkReqs[p].pc # "none", Moves(p, pc)
      PROVE  RequestsOK'
  BY <1>m, MovesTyped
<1>a. ASSUME NEW p \in LinkRequests, NEW pc, IsAt(p, pc), pc # "none" PROVE linkReqs[p].pc # "none"
  BY <1>a DEF IsAt
<1>1. ASSUME NEW p \in LinkRequests, ProvisionStep(p) PROVE PTypeOK'
  <2>1. CASE Authorise(p)
    BY <2>1, <1>m, <1>a, ShowsTyped DEF Authorise, LinkStages, Status, ProvisionTypeOK, UnlinkOK
  <2>2. CASE SetRequest(p)
    BY <2>2, <1>m, <1>a, ShowsTyped DEF SetRequest, LinkStages, Status, ProvisionTypeOK, UnlinkOK
  <2>3. CASE SendToUser(p)
    BY <2>3, <1>m, <1>a DEF SendToUser, LinkStages, ProvisionTypeOK, UnlinkOK, linking
  <2>4. CASE Authorised(p)
    BY <2>4, <1>m, <1>a, ForgetTyped DEF Authorised, LinkStages, ProvisionTypeOK, UnlinkOK, linking
  <2>5. CASE AnswerTimesOut(p)
    BY <2>5, <1>m, <1>a DEF AnswerTimesOut, LinkStages, ProvisionTypeOK, UnlinkOK, linking
  <2>6. CASE RequestExpires(p)
    BY <2>6, <1>m, <1>a, ShowsTyped, ForgetTyped DEF RequestExpires, LinkStages, Status, ProvisionTypeOK, UnlinkOK
  <2>7. CASE DoLink(p)
    BY <2>7, <1>m, <1>a DEF DoLink, LinkStages, ProvisionTypeOK, UnlinkOK, linking
  <2>8. CASE BotLinks(p)
    BY <2>8, <1>m, <1>a DEF BotLinks, LinkStages, ProvisionTypeOK, UnlinkOK
  <2>9. CASE StoreLink(p)
    <3>1. linkReqs[p].room \in LinkRooms
      BY <2>9 DEF StoreLink, IsAt, RequestsOK
    <3>2. RequestsOK'
      BY <2>9, <1>m, <1>a DEF StoreLink, LinkStages
    <3> QED BY <2>9, <3>1, <3>2 DEF StoreLink, ProvisionTypeOK, UnlinkOK
  <2>10. CASE ShowSuccess(p)
    BY <2>10, <1>m, <1>a, ShowsTyped DEF ShowSuccess, LinkStages, Status, ProvisionTypeOK, UnlinkOK
  <2>11. CASE ShowFailure(p)
    BY <2>11, <1>m, <1>a, ShowsTyped, ForgetTyped DEF ShowFailure, LinkStages, Status, ProvisionTypeOK, UnlinkOK
  <2> QED BY <1>1, <2>1, <2>2, <2>3, <2>4, <2>5, <2>6, <2>7, <2>8, <2>9, <2>10, <2>11 DEF ProvisionStep
<1>2. ASSUME NEW p \in LinkRequests, NEW r \in LinkRooms, NEW o \in Operators, RequestLink(p, r, o)
      PROVE  PTypeOK'
  BY <1>2 DEF RequestLink, RequestsOK, LinkStages, ProvisionTypeOK, UnlinkOK, linking
<1>3. ASSUME NEW o \in Operators, HandlePm(o) PROVE PTypeOK'
  BY <1>3 DEF HandlePm, IsWaitedFor, RequestsOK, ProvisionTypeOK, UnlinkOK, linking
<1>4. ASSUME NEW r \in LinkRooms, Unlink(r) PROVE PTypeOK'
  BY <1>4, ProvisioningAssumption DEF Unlink, RequestsOK, ProvisionTypeOK, UnlinkOK
<1>5. CASE LeaveIfUnprovisioned
  BY <1>5 DEF LeaveIfUnprovisioned, RequestsOK, ProvisionTypeOK, UnlinkOK, linking
<1>6. CASE BotLeaves
  BY <1>6 DEF BotLeaves, RequestsOK, ProvisionTypeOK, UnlinkOK
<1>7. CASE UNCHANGED provisionVars
  BY <1>7 DEF provisionVars, linking, RequestsOK, ProvisionTypeOK, UnlinkOK
<1> QED BY <1>1, <1>2, <1>3, <1>4, <1>5, <1>6, <1>7 DEF ProvisionNext
------------------------------------------------------------------------------
(* The bot.                                                                *)

\* Most steps of a request leave the links and the bot alone and do not reach the store.
LEMMA QuietStep ==
  ASSUME PInv, UNCHANGED <<links, botIn, unlink, raced>>,
         NEW p \in LinkRequests, NEW pc \in LinkStages \ {"stores"}, Moves(p, pc)
  PROVE  LeavesNone' /\ StoresIn' /\ BotStays'
BY DEF PInv, PTypeOK, RequestsOK, LeavesNone, StoresIn, BotStays, Moves, IsAt

LEMMA BotStep == PInv /\ [ProvisionNext]_provisionVars => LeavesNone' /\ StoresIn' /\ BotStays'
<1> SUFFICES ASSUME PInv, [ProvisionNext]_provisionVars PROVE LeavesNone' /\ StoresIn' /\ BotStays'
  OBVIOUS
<1> DEFINE Goal == LeavesNone' /\ StoresIn' /\ BotStays'
<1>t. RequestsOK
  BY DEF PInv, PTypeOK
<1>1. ASSUME NEW p \in LinkRequests, ProvisionStep(p) PROVE Goal
  <2>1. CASE \/ Authorise(p) \/ SetRequest(p) \/ SendToUser(p) \/ Authorised(p) \/ AnswerTimesOut(p)
             \/ RequestExpires(p) \/ DoLink(p) \/ ShowSuccess(p) \/ ShowFailure(p)
    <3>1. UNCHANGED <<links, botIn, unlink, raced>>
      BY <2>1 DEF Authorise, SetRequest, SendToUser, Authorised, AnswerTimesOut, RequestExpires, DoLink,
                  ShowSuccess, ShowFailure, linking
    <3>2. \E pc \in LinkStages \ {"stores"} : Moves(p, pc)
      BY <2>1 DEF Authorise, SetRequest, SendToUser, Authorised, AnswerTimesOut, RequestExpires, DoLink,
                  ShowSuccess, ShowFailure, LinkStages
    <3> QED BY <3>1, <3>2, QuietStep
  <2>2. CASE BotLinks(p)
    <3>1. CASE botIn' = TRUE /\ Moves(p, "stores")
      BY <2>2, <3>1 DEF BotLinks, PInv, LeavesNone, StoresIn, BotStays
    <3>2. CASE Moves(p, "fails") /\ UNCHANGED botIn
      BY <2>2, <3>2, QuietStep DEF BotLinks, LinkStages
    <3> QED BY <2>2, <3>1, <3>2 DEF BotLinks
  <2>3. CASE StoreLink(p)
    <3>1. LeavesNone'
      BY <2>3 DEF StoreLink, PInv, LeavesNone
    <3>2. ~raced' => ~raced /\ botIn'
      BY <2>3 DEF StoreLink, PInv, StoresIn
    <3> QED BY <2>3, <3>1, <3>2, <1>t DEF StoreLink, StoresIn, BotStays
  <2> QED BY <1>1, <2>1, <2>2, <2>3 DEF ProvisionStep
<1>2. ASSUME NEW p \in LinkRequests, NEW r \in LinkRooms, NEW o \in Operators, RequestLink(p, r, o)
      PROVE  Goal
  BY <1>2, <1>t DEF RequestLink, RequestsOK, PInv, LeavesNone, StoresIn, BotStays, IsAt, linking
<1>3. ASSUME NEW o \in Operators, HandlePm(o) PROVE Goal
  BY <1>3 DEF HandlePm, PInv, LeavesNone, StoresIn, BotStays, IsAt, linking
<1>4. ASSUME NEW r \in LinkRooms, Unlink(r) PROVE Goal
  BY <1>4 DEF Unlink, PInv, LeavesNone, StoresIn, BotStays, IsAt, PTypeOK, UnlinkOK
<1>5. CASE LeaveIfUnprovisioned
  BY <1>5 DEF LeaveIfUnprovisioned, PInv, LeavesNone, StoresIn, BotStays, IsAt, PTypeOK, UnlinkOK, linking
<1>6. CASE BotLeaves
  BY <1>6 DEF BotLeaves, PInv, LeavesNone, StoresIn, BotStays, IsAt, PTypeOK, UnlinkOK
<1>7. CASE UNCHANGED provisionVars
  BY <1>7 DEF provisionVars, linking, PInv, LeavesNone, StoresIn, BotStays, IsAt
<1> QED BY <1>1, <1>2, <1>3, <1>4, <1>5, <1>6, <1>7 DEF ProvisionNext

\* Types are kept by every step, whatever becomes of requests, operators and unlinks.
THEOREM ProvisioningTypeCorrect == ProvisionSpec => []ProvisionTypeOK
<1>1. PInv /\ [ProvisionNext]_provisionVars => PInv'
  BY PTypeStep, BotStep DEF PInv
<1>2. PInv => ProvisionTypeOK
  BY DEF PInv, PTypeOK
<1> QED BY PInvInit, <1>1, <1>2, PTL DEF ProvisionSpec

\* leaveIfUnprovisioned asks the store before the bot leaves: while a room is linked the
\* bot is in the channel, unless an unlink met a link.
THEOREM ProvisioningBotStays == ProvisionSpec => []BotStays
<1>1. PInv /\ [ProvisionNext]_provisionVars => PInv'
  BY PTypeStep, BotStep DEF PInv
<1>2. PInv => BotStays
  BY DEF PInv
<1> QED BY PInvInit, <1>1, <1>2, PTL DEF ProvisionSpec

(***************************************************************************)
(* Whom an operator is waited for by.                                      *)
(***************************************************************************)
Asking == {"asks", "waits", "expires", "stuck"}

\* The operator's place is taken by a request of his that has asked him; while he has
\* not agreed, that request still waits, gives up, or is stuck.
OneAsks ==
  \A o \in Operators : pendingReq[o] \in LinkRequests =>
    /\ linkReqs[pendingReq[o]].op = o
    /\ linkReqs[pendingReq[o]].pc \notin {"none", "checks", "pending"}
    /\ pendingReq[o] \notin agreed => linkReqs[pendingReq[o]].pc \in Asking

\* No operator's place is taken by a request that has ended, and every operator the
\* bridge waits for is asked by a request of his own.
PlacesAreRequests ==
  \A o \in Operators : IsWaitedFor(o) =>
    linkReqs[pendingReq[o]].op = o /\ linkReqs[pendingReq[o]].pc \in Asking

\* A step of a request that takes nobody's place.
LEMMA AsksOn ==
  ASSUME PTypeOK, OneAsks, NEW p \in LinkRequests, NEW pc \in LinkStages, Moves(p, pc),
         UNCHANGED <<agreed, pendingReq>>,
         \A o \in Operators : pendingReq[o] = p =>
           pc \notin {"none", "checks", "pending"} /\ (p \notin agreed => pc \in Asking)
  PROVE  OneAsks'
<1> SUFFICES ASSUME NEW o \in Operators, pendingReq[o] \in LinkRequests
             PROVE  /\ linkReqs'[pendingReq[o]].op = o
                    /\ linkReqs'[pendingReq[o]].pc \notin {"none", "checks", "pending"}
                    /\ pendingReq[o] \notin agreed => linkReqs'[pendingReq[o]].pc \in Asking
  BY DEF OneAsks
<1>1. /\ linkReqs'[p].pc = pc /\ linkReqs'[p].op = linkReqs[p].op
      /\ \A q \in LinkRequests \ {p} : linkReqs'[q] = linkReqs[q]
  BY DEF PTypeOK, RequestsOK, Moves
<1>2. CASE pendingReq[o] = p
  BY <1>1, <1>2 DEF OneAsks
<1>3. CASE pendingReq[o] # p
  BY <1>1, <1>3 DEF OneAsks
<1> QED BY <1>2, <1>3

\* A request that ends, or goes on to the link, and gives up the operator's place.
LEMMA AsksNoMore ==
  ASSUME PTypeOK, OneAsks, NEW p \in LinkRequests, NEW pc \in LinkStages, Moves(p, pc), Forget(p), UNCHANGED agreed
  PROVE  OneAsks'
<1> SUFFICES ASSUME NEW o \in Operators, pendingReq'[o] \in LinkRequests
             PROVE  /\ linkReqs'[pendingReq'[o]].op = o
                    /\ linkReqs'[pendingReq'[o]].pc \notin {"none", "checks", "pending"}
                    /\ pendingReq'[o] \notin agreed => linkReqs'[pendingReq'[o]].pc \in Asking
  BY DEF OneAsks
<1>1. pendingReq'[o] = pendingReq[o] /\ o # linkReqs[p].op
  BY ProvisioningAssumption DEF Forget, PTypeOK, ProvisionTypeOK
<1>2. pendingReq[o] # p
  BY <1>1 DEF OneAsks
<1>3. linkReqs'[pendingReq[o]] = linkReqs[pendingReq[o]]
  BY <1>1, <1>2 DEF PTypeOK, RequestsOK, Moves
<1> QED BY <1>1, <1>3 DEF OneAsks

LEMMA AskStep == PTypeOK /\ OneAsks /\ [ProvisionNext]_provisionVars => OneAsks'
<1> SUFFICES ASSUME PTypeOK, OneAsks, [ProvisionNext]_provisionVars PROVE OneAsks'
  OBVIOUS
<1>0. LinkStages \subseteq LinkStages /\ Asking \subseteq LinkStages
  BY DEF Asking, LinkStages
<1>1. ASSUME NEW p \in LinkRequests, ProvisionStep(p) PROVE OneAsks'
  <2>a. ASSUME NEW pc, IsAt(p, pc), NEW o \in Operators, pendingReq[o] = p
        PROVE  pc \notin {"none", "checks", "pending"} /\ (p \notin agreed => pc \in Asking)
    BY <2>a DEF IsAt, OneAsks
  <2>1. CASE Authorise(p)
    BY <2>1, <2>a, AsksOn DEF Authorise, LinkStages
  <2>2. CASE SetRequest(p)
    <3>1. CASE Moves(p, "done") /\ UNCHANGED pendingReq
      BY <2>2, <2>a, <3>1, AsksOn DEF SetRequest, LinkStages
    <3>2. CASE Moves(p, "asks") /\ pendingReq' = [pendingReq EXCEPT ![linkReqs[p].op] = p]
      <4> SUFFICES ASSUME NEW o \in Operators, pendingReq'[o] \in LinkRequests
                   PROVE  /\ linkReqs'[pendingReq'[o]].op = o
                          /\ linkReqs'[pendingReq'[o]].pc \notin {"none", "checks", "pending"}
                          /\ pendingReq'[o] \notin agreed' => linkReqs'[pendingReq'[o]].pc \in Asking
        BY DEF OneAsks
      <4>1. /\ linkReqs'[p].pc = "asks" /\ linkReqs'[p].op = linkReqs[p].op
            /\ \A q \in LinkRequests \ {p} : linkReqs'[q] = linkReqs[q]
        BY <3>2 DEF PTypeOK, RequestsOK, Moves
      <4>2. UNCHANGED agreed
        BY <2>2 DEF SetRequest
      <4>3. CASE o = linkReqs[p].op
        <5>1. pendingReq'[o] = p
          BY <3>2, <4>3 DEF PTypeOK, ProvisionTypeOK
        <5> QED BY <4>1, <4>3, <5>1 DEF Asking
      <4>4. CASE o # linkReqs[p].op
        <5>1. pendingReq'[o] = pendingReq[o]
          BY <3>2, <4>4 DEF PTypeOK, ProvisionTypeOK
        <5>2. pendingReq[o] # p
          BY <4>4, <5>1 DEF OneAsks
        <5> QED BY <4>1, <4>2, <5>1, <5>2 DEF OneAsks
      <4> QED BY <4>3, <4>4
    <3> QED BY <2>2, <3>1, <3>2 DEF SetRequest
  <2>3. CASE SendToUser(p)
    BY <2>3, AsksOn DEF SendToUser, LinkStages, Asking
  <2>4. CASE Authorised(p)
    BY <2>4, AsksNoMore DEF Authorised, LinkStages
  <2>5. CASE AnswerTimesOut(p)
    BY <2>5, AsksOn DEF AnswerTimesOut, LinkStages, Asking
  <2>6. CASE RequestExpires(p)
    BY <2>6, AsksOn, AsksNoMore DEF RequestExpires, LinkStages, Asking
  <2>7. CASE DoLink(p)
    BY <2>7, <2>a, AsksOn DEF DoLink, LinkStages, Asking, linking
  <2>8. CASE BotLinks(p)
    BY <2>8, <2>a, AsksOn DEF BotLinks, LinkStages, Asking
  <2>9. CASE StoreLink(p)
    BY <2>9, <2>a, AsksOn DEF StoreLink, LinkStages, Asking
  <2>10. CASE ShowSuccess(p)
    BY <2>10, <2>a, AsksOn DEF ShowSuccess, LinkStages, Asking
  <2>11. CASE ShowFailure(p)
    BY <2>11, <2>a, AsksOn, AsksNoMore DEF ShowFailure, LinkStages, Asking
  <2> QED BY <1>1, <2>1, <2>2, <2>3, <2>4, <2>5, <2>6, <2>7, <2>8, <2>9, <2>10, <2>11 DEF ProvisionStep
<1>2. ASSUME NEW p \in LinkRequests, NEW r \in LinkRooms, NEW o \in Operators, RequestLink(p, r, o)
      PROVE  OneAsks'
  <2>1. \A q \in Operators : pendingReq[q] # p
    BY <1>2 DEF RequestLink, IsAt, OneAsks
  <2>2. \A q \in LinkRequests \ {p} : linkReqs'[q] = linkReqs[q]
    BY <1>2 DEF RequestLink, PTypeOK, RequestsOK
  <2> QED BY <1>2, <2>1, <2>2 DEF RequestLink, OneAsks
<1>3. ASSUME NEW o \in Operators, HandlePm(o) PROVE OneAsks'
  BY <1>3 DEF HandlePm, OneAsks
<1>4. CASE (\E r \in LinkRooms : Unlink(r)) \/ LeaveIfUnprovisioned \/ BotLeaves \/ UNCHANGED provisionVars
  BY <1>4 DEF Unlink, LeaveIfUnprovisioned, BotLeaves, provisionVars, OneAsks
<1> QED BY <1>1, <1>2, <1>3, <1>4 DEF ProvisionNext

(***************************************************************************)
(* An operator who is waited for is waited for by a request of his own     *)
(* that has asked him and has not ended: it waits, expires, or could not   *)
(* send its message.  A request that ends gives up his place or never had  *)
(* it, though requests take the place from one another.                    *)
(***************************************************************************)
THEOREM ProvisioningPlacesAreRequests == ProvisionSpec => []PlacesAreRequests
<1>1. ProvisionInit => PInv /\ OneAsks
  BY PInvInit, ProvisioningAssumption DEF ProvisionInit, OneAsks
<1>2. PInv /\ [ProvisionNext]_provisionVars => PInv'
  BY PTypeStep, BotStep DEF PInv
<1>3. PInv /\ OneAsks /\ [ProvisionNext]_provisionVars => OneAsks'
  BY AskStep DEF PInv
<1>4. OneAsks => PlacesAreRequests
  BY DEF OneAsks, PlacesAreRequests, IsWaitedFor
<1> QED BY <1>1, <1>2, <1>3, <1>4, PTL DEF ProvisionSpec
------------------------------------------------------------------------------
(* MemberLists: until the first names arrive nobody of the bridge sees the *)
(* channel, so the room as it was fetched still has all its ghosts; from   *)
(* then on a comparison that missed nothing leaves just those named.       *)

RoomType == [reals : SUBSET Matrixers, ghosts : SUBSET Ghosts]
ListType == {<<>>} \cup {<<s>> : s \in SUBSET Ghosts}
News == [user : Matrixers, kind : {"join", "leave", "kick"}]
MembersForm ==
  /\ here \in RoomType /\ fetched \in {<<>>} \cup {<<r>> : r \in RoomType}
  /\ lists \in [matrix : ListType, irc : ListType]
  /\ steps \in [names : ListType, parting : BOOLEAN]
  /\ unread \in Seq(News)

Unnamed ==
  lists.irc = <<>> =>
    /\ ~Present /\ steps.names = <<>>
    /\ fetched # <<>> => Head(fetched).ghosts = here.ghosts
Listed ==
  /\ lists.matrix # <<>> => fetched # <<>>
  /\ lists.matrix # <<>> /\ ~missed => Head(lists.matrix) = Head(fetched).ghosts
  /\ lists.irc # <<>> /\ ~missed => lists.matrix # <<>>
Compared ==
  lists.irc # <<>> /\ ~missed =>
    IF steps.names = <<>> THEN here.ghosts = channel
    ELSE /\ Head(steps.names) = channel /\ channel \subseteq here.ghosts
         /\ here.ghosts \subseteq Head(lists.matrix) \cup channel
MembersInv == MembersTypeOK /\ MembersForm /\ Unnamed /\ Listed /\ Compared

LEMMA HeadTail == ASSUME NEW S, NEW s \in Seq(S), s # <<>> PROVE Head(s) \in S /\ Tail(s) \in Seq(S)
OBVIOUS

LEMMA News1 ==
  ASSUME NEW s \in Seq(News), NEW u \in Matrixers, NEW k \in {"join", "leave", "kick"}
  PROVE  Append(s, [user |-> u, kind |-> k]) \in Seq(News)
<1>1. [user |-> u, kind |-> k] \in News
  BY DEF News
<1>. QED  BY <1>1

LEMMA MembersTyping == ASSUME MembersTypeOK, MembersForm, [MembersNext]_memberVars
                       PROVE  MembersTypeOK' /\ MembersForm'
<1>. USE MembersAssumption DEF MembersTypeOK, MembersForm, RoomType
<1>1. /\ here.reals \subseteq Matrixers /\ here.ghosts \subseteq Ghosts /\ <<channel>> \in ListType
      /\ <<>> \in ListType /\ steps.names \in ListType /\ lists.irc \in ListType
  BY DEF ListType
<1>2. ASSUME NEW g \in Ghosts, IrcMoves(g) PROVE MembersTypeOK' /\ MembersForm'
  BY <1>1, <1>2 DEF IrcMoves, Move, start
<1>3. ASSUME NEW u \in Matrixers, MatrixMoves(u) PROVE MembersTypeOK' /\ MembersForm'
  <2>1. unread' \in Seq(News)
    BY <1>3, News1 DEF MatrixMoves
  <2>2. here' \in RoomType
    <3>1. here' = [here EXCEPT !.reals = IF u \in @ THEN @ \ {u} ELSE @ \cup {u}]
      BY <1>3 DEF MatrixMoves
    <3>2. (IF u \in here.reals THEN here.reals \ {u} ELSE here.reals \cup {u}) \in SUBSET Matrixers
      OBVIOUS
    <3>. QED  BY <3>1, <3>2
  <2>4. moved' \in 0..MaxMoves
    BY <1>3 DEF MatrixMoves, Move
  <2>3. UNCHANGED <<channel, start, bot, wanted, client, handling, steps, history>>
    BY <1>3 DEF MatrixMoves
  <2>. QED  BY <2>1, <2>2, <2>3, <2>4 DEF start, history
<1>4. ASSUME FetchRooms PROVE MembersTypeOK' /\ MembersForm'
  BY <1>4 DEF FetchRooms, sides, history
<1>5. ASSUME CollectEntries PROVE MembersTypeOK' /\ MembersForm'
  <2>. DEFINE info == Head(fetched)
              found1 == IF info.reals = {} THEN {} ELSE info.ghosts
  <2>1. info \in RoomType
    BY <1>5 DEF CollectEntries
  <2>2. <<found1>> \in ListType
    BY <2>1 DEF ListType
  <2>3. lists' = [lists EXCEPT !.matrix = <<found1>>] /\ entries' = info.reals
    BY <1>5 DEF CollectEntries
  <2>4. lists' \in [matrix : ListType, irc : ListType] /\ entries' \subseteq Matrixers
    BY <2>1, <2>2, <2>3
  <2>. QED  BY <1>5, <2>4 DEF CollectEntries, sides
<1>6. ASSUME Discover PROVE MembersTypeOK' /\ MembersForm'
  BY <1>6 DEF Discover, sides, history
<1>7. ASSUME NEW u \in Matrixers, Handle(u)
      PROVE  handling' \subseteq Matrixers
             /\ client' \in [Matrixers -> {"none", "connecting", "up", "in"}]
  BY <1>7 DEF Handle
<1>8. ASSUME NEW u \in Matrixers, InjectJoin(u) PROVE MembersTypeOK' /\ MembersForm'
  BY <1>7, <1>8 DEF InjectJoin, sides
<1>9. ASSUME unread # <<>>
      PROVE  /\ Head(unread).user \in Matrixers /\ Head(unread) \in News
             /\ Tail(unread) \in Seq(News)
  <2>1. unread \in Seq(News)
    OBVIOUS
  <2>2. Head(unread) \in News /\ Tail(unread) \in Seq(News)
    BY <1>9, <2>1, HeadTail
  <2>. QED  BY <2>2 DEF News
<1>10. ASSUME OnJoin PROVE MembersTypeOK' /\ MembersForm'
  BY <1>7, <1>9, <1>10 DEF OnJoin, sides, start
<1>11. ASSUME OnLeave PROVE MembersTypeOK' /\ MembersForm'
  <2>1. Head(unread).user \in Matrixers /\ unread' \in Seq(News)
    BY <1>9, <1>11 DEF OnLeave
  <2>2. client' \in [Matrixers -> {"none", "connecting", "up", "in"}]
    BY <1>11, <2>1 DEF OnLeave
  <2>3. steps' \in [names : ListType, parting : BOOLEAN]
    BY <1>11, <2>1 DEF OnLeave
  <2>. QED  BY <1>11, <2>1, <2>2, <2>3 DEF OnLeave, sides, start
<1>12. ASSUME NEW u \in Matrixers, ClientConnects(u) PROVE MembersTypeOK' /\ MembersForm'
  <2>1. unread' \in Seq(News)
    <3>1. unread' = unread \/ unread' = Append(unread, [user |-> u, kind |-> "kick"])
      BY <1>12 DEF ClientConnects
    <3>2. unread \in Seq(News) /\ Append(unread, [user |-> u, kind |-> "kick"]) \in Seq(News)
      BY News1
    <3>. QED  BY <3>1, <3>2
  <2>2. here' \in RoomType /\ handling' \subseteq Matrixers
        /\ client' \in [Matrixers -> {"none", "connecting", "up", "in"}]
    BY <1>12 DEF ClientConnects
  <2>. QED  BY <1>12, <2>1, <2>2 DEF ClientConnects, start, history
<1>13. ASSUME Names
       PROVE  /\ steps' \in [names : ListType, parting : BOOLEAN]
              /\ lists' \in [matrix : ListType, irc : ListType] /\ here' \in RoomType
  BY <1>1, <1>13 DEF Names
<1>14. ASSUME NEW u \in Matrixers, ClientJoins(u) PROVE MembersTypeOK' /\ MembersForm'
  <2>1. /\ steps' \in [names : ListType, parting : BOOLEAN]
        /\ lists' \in [matrix : ListType, irc : ListType] /\ here' \in RoomType
    BY <1>13, <1>14 DEF ClientJoins
  <2>. QED  BY <1>14, <2>1 DEF ClientJoins
<1>15. ASSUME BotConnects PROVE MembersTypeOK' /\ MembersForm'
  BY <1>15 DEF BotConnects, sides, start, history
<1>16. ASSUME BotJoins PROVE MembersTypeOK' /\ MembersForm'
  BY <1>13, <1>16 DEF BotJoins
<1>17. ASSUME BotParts PROVE MembersTypeOK' /\ MembersForm'
  BY <1>17 DEF BotParts, sides, start, history
<1>18. ASSUME LeaveUsersInRoom PROVE MembersTypeOK' /\ MembersForm'
  BY <1>1, <1>18 DEF LeaveUsersInRoom, start, history
<1>19. CASE UNCHANGED memberVars
  BY <1>19 DEF memberVars, sides, start, history
<1>20. CASE MembersStep
  BY <1>4, <1>5, <1>6, <1>8, <1>10, <1>11, <1>12, <1>14, <1>15, <1>16, <1>17, <1>18, <1>20 DEF MembersStep
<1>. QED  BY <1>2, <1>3, <1>19, <1>20 DEF MembersNext

LEMMA MembersStart == MembersInit => MembersInv
<1>. SUFFICES ASSUME MembersInit PROVE MembersInv
  OBVIOUS
<1>. USE MembersAssumption
<1>1. MembersTypeOK
  BY DEF MembersInit, MembersTypeOK
<1>2. MembersForm
  BY DEF MembersInit, MembersForm, ListType, RoomType
<1>3. Unnamed /\ Listed /\ Compared
  BY DEF MembersInit, Unnamed, Listed, Compared, Present
<1>. QED  BY <1>1, <1>2, <1>3 DEF MembersInv

\* The first names, or more of them.
LEMMA NamesCompare ==
  ASSUME MembersInv, Names, UNCHANGED <<channel, fetched>>
  PROVE  Listed' /\ Compared' /\ lists'.irc # <<>>
<1>1. /\ lists'.matrix = lists.matrix /\ lists'.irc = IF lists.irc = <<>> THEN <<channel>> ELSE lists.irc
      /\ steps'.names = IF lists.irc = <<>> THEN <<channel>> ELSE steps.names
      /\ here'.ghosts = here.ghosts \cup channel
      /\ missed' = (missed \/ lists.matrix = <<>>)
  BY DEF Names, MembersInv, MembersForm, RoomType
<1>2. lists'.irc # <<>>
  BY <1>1
<1>3. Listed'
  BY <1>1 DEF MembersInv, Listed
<1>4. Compared'
  <2>. SUFFICES ASSUME ~missed' PROVE
         IF steps'.names = <<>> THEN here'.ghosts = channel'
         ELSE /\ Head(steps'.names) = channel' /\ channel' \subseteq here'.ghosts
              /\ here'.ghosts \subseteq Head(lists'.matrix) \cup channel'
    BY DEF Compared
  <2>1. lists.matrix # <<>> /\ ~missed
    BY <1>1
  <2>2. CASE lists.irc = <<>>
    <3>1. Head(lists.matrix) = here.ghosts
      BY <2>1, <2>2 DEF MembersInv, Listed, Unnamed
    <3>. QED  BY <1>1, <2>2, <3>1
  <2>3. CASE lists.irc # <<>>
    BY <1>1, <2>1, <2>3 DEF MembersInv, Compared
  <2>. QED  BY <2>2, <2>3
<1>. QED  BY <1>2, <1>3, <1>4

LEMMA MembersStays == ASSUME MembersInv, [MembersNext]_memberVars PROVE MembersInv'
<1>1. MembersTypeOK' /\ MembersForm'
  BY MembersTyping DEF MembersInv
<1>2. here \in RoomType /\ fetched \in {<<>>} \cup {<<r>> : r \in RoomType}
      /\ lists \in [matrix : ListType, irc : ListType]
      /\ steps \in [names : ListType, parting : BOOLEAN]
      /\ client \in [Matrixers -> {"none", "connecting", "up", "in"}]
      /\ bot \in {"away", "up", "in"}
  BY DEF MembersInv, MembersForm, MembersTypeOK
\* Of what the comparison depends on, nothing changes.
<1>3. ASSUME here'.ghosts = here.ghosts, UNCHANGED <<channel, fetched, lists, missed>>,
             steps'.names = steps.names, Present' => Present
      PROVE  Unnamed' /\ Listed' /\ Compared'
  <2>1. Unnamed'
    BY <1>3 DEF MembersInv, Unnamed
  <2>2. Listed' /\ Compared'
    BY <1>3 DEF MembersInv, Listed, Compared
  <2>. QED  BY <2>1, <2>2
<1>4. ASSUME NEW g \in Ghosts, IrcMoves(g) PROVE Unnamed' /\ Listed' /\ Compared'
  <2>1. /\ UNCHANGED <<fetched, lists, steps, bot, client>>
        /\ missed' = (missed \/ (Present /\ steps.names # <<>>) \/ (~Present /\ lists.irc # <<>>))
        /\ channel' = IF g \in channel THEN channel \ {g} ELSE channel \cup {g}
        /\ here'.ghosts = IF ~Present THEN here.ghosts
                          ELSE IF g \in channel THEN here.ghosts \ {g} ELSE here.ghosts \cup {g}
    BY <1>2, <1>4 DEF IrcMoves, start, RoomType
  <2>2. Present' = Present
    BY <2>1 DEF Present
  <2>3. Unnamed'
    BY <2>1, <2>2 DEF MembersInv, Unnamed
  <2>4. Listed'
    BY <2>1 DEF MembersInv, Listed
  <2>5. Compared'
    BY <2>1 DEF MembersInv, Compared
  <2>. QED  BY <2>3, <2>4, <2>5
<1>5. ASSUME FetchRooms PROVE Unnamed' /\ Listed' /\ Compared'
  <2>1. /\ fetched = <<>> /\ fetched' = <<here>> /\ UNCHANGED <<here, channel, lists, steps, bot, client, missed>>
    BY <1>5 DEF FetchRooms, sides, history
  <2>2. Present' = Present
    BY <2>1 DEF Present
  <2>. QED  BY <2>1, <2>2 DEF MembersInv, Unnamed, Listed, Compared
<1>6. ASSUME CollectEntries PROVE Unnamed' /\ Listed' /\ Compared'
  <2>. DEFINE info == Head(fetched)
  <2>1. /\ fetched # <<>> /\ UNCHANGED <<here, channel, fetched, steps, bot, client>>
        /\ missed' = (missed \/ lists.irc # <<>> \/ info.reals = {})
        /\ lists'.matrix = <<IF info.reals = {} THEN {} ELSE info.ghosts>> /\ lists'.irc = lists.irc
    BY <1>2, <1>6 DEF CollectEntries, sides
  <2>2. Present' = Present
    BY <2>1 DEF Present
  <2>3. Unnamed'
    BY <2>1, <2>2 DEF MembersInv, Unnamed
  <2>4. ~missed' => lists.irc = <<>> /\ Head(lists'.matrix) = info.ghosts
    <3>1. ~missed' => lists.irc = <<>> /\ info.reals # {}
      BY <2>1, Zenon
    <3>2. info.reals # {} => lists'.matrix = <<info.ghosts>>
      BY <2>1
    <3>. QED  BY <3>1, <3>2
  <2>. HIDE DEF info
  <2>5. Listed'
    BY <2>1, <2>4 DEF Listed, info
  <2>6. Compared'
    BY <2>1, <2>4 DEF Compared
  <2>. QED  BY <2>3, <2>5, <2>6
<1>7. ASSUME NEW u \in Matrixers, Handle(u), bot' = bot PROVE Present' => Present
  BY <1>2, <1>7 DEF Handle, Present
<1>8. ASSUME NEW u \in Matrixers, InjectJoin(u) PROVE Unnamed' /\ Listed' /\ Compared'
  BY <1>3, <1>7, <1>8 DEF InjectJoin, sides
<1>9. unread # <<>> => Head(unread).user \in Matrixers
  <2>1. unread \in Seq(News)
    BY DEF MembersInv, MembersForm
  <2>2. unread # <<>> => Head(unread) \in News
    BY <2>1, HeadTail
  <2>. QED  BY <2>2 DEF News
<1>10. ASSUME OnJoin PROVE Unnamed' /\ Listed' /\ Compared'
  BY <1>3, <1>7, <1>9, <1>10 DEF OnJoin, sides, start
<1>11. ASSUME OnLeave PROVE Unnamed' /\ Listed' /\ Compared'
  <2>1. /\ UNCHANGED <<sides, start, bot, missed>> /\ steps'.names = steps.names
        /\ client' = [client EXCEPT ![Head(unread).user] = IF @ = "in" THEN "up" ELSE @]
    BY <1>2, <1>11 DEF OnLeave
  <2>2. Present' => Present
    BY <1>2, <2>1 DEF Present
  <2>. QED  BY <1>3, <2>1, <2>2 DEF sides, start
<1>12. ASSUME NEW u \in Matrixers, ClientConnects(u) PROVE Unnamed' /\ Listed' /\ Compared'
  <2>1. /\ UNCHANGED <<channel, start, bot, steps, missed>> /\ here'.ghosts = here.ghosts
        /\ client' \in {[client EXCEPT ![u] = "up"], [client EXCEPT ![u] = "none"]}
    BY <1>2, <1>12 DEF ClientConnects, history, RoomType
  <2>2. Present' => Present
    BY <1>2, <2>1 DEF Present
  <2>. QED  BY <1>3, <2>1, <2>2 DEF start
<1>13. ASSUME NEW u \in Matrixers, ClientJoins(u) PROVE Unnamed' /\ Listed' /\ Compared'
  <2>1. CASE client[u] = "up"
    <3>1. Names /\ UNCHANGED <<channel, fetched>>
      BY <1>13, <2>1 DEF ClientJoins
    <3>. QED  BY <3>1, NamesCompare DEF Unnamed
  <2>2. CASE client[u] # "up"
    <3>1. /\ UNCHANGED <<channel, fetched, lists, missed, here, steps, bot>> /\ client[u] = "in"
      BY <1>13, <2>2 DEF ClientJoins
    <3>2. Present
      BY <3>1 DEF Present
    <3>. QED  BY <1>3, <3>1, <3>2
  <2>. QED  BY <2>1, <2>2
<1>14. ASSUME BotJoins PROVE Unnamed' /\ Listed' /\ Compared'
  <2>1. Names /\ UNCHANGED <<channel, fetched>>
    BY <1>14 DEF BotJoins
  <2>. QED  BY <2>1, NamesCompare DEF Unnamed
<1>15. ASSUME BotConnects \/ BotParts PROVE Unnamed' /\ Listed' /\ Compared'
  <2>1. /\ UNCHANGED <<sides, start, client, missed>> /\ steps'.names = steps.names /\ (bot' = "in" => bot = "in")
    BY <1>2, <1>15 DEF BotConnects, BotParts, history
  <2>2. Present' => Present
    BY <2>1 DEF Present
  <2>. QED  BY <1>3, <2>1, <2>2 DEF sides, start
<1>16. ASSUME LeaveUsersInRoom PROVE Unnamed' /\ Listed' /\ Compared'
  <2>1. /\ UNCHANGED <<channel, fetched, lists, bot, client, missed>> /\ steps.names # <<>> /\ steps'.names = <<>>
        /\ here'.ghosts = here.ghosts \ (IF lists.matrix = <<>> THEN {} ELSE Head(lists.matrix) \ Head(steps.names))
    BY <1>2, <1>16 DEF LeaveUsersInRoom, start, history, RoomType
  <2>2. lists.irc # <<>>
    BY <2>1 DEF MembersInv, Unnamed
  <2>3. Unnamed' /\ Listed'
    BY <2>1, <2>2 DEF MembersInv, Unnamed, Listed
  <2>4. Compared'
    <3>. SUFFICES ASSUME ~missed PROVE here'.ghosts = channel
      BY <2>1 DEF Compared
    <3>1. lists.matrix # <<>>
      BY <2>2 DEF MembersInv, Listed
    <3>2. /\ Head(steps.names) = channel /\ channel \subseteq here.ghosts
          /\ here.ghosts \subseteq Head(lists.matrix) \cup channel
      BY <2>1, <2>2 DEF MembersInv, Compared
    <3>. QED  BY <2>1, <3>1, <3>2
  <2>. QED  BY <2>3, <2>4
<1>17. ASSUME NEW u \in Matrixers, MatrixMoves(u) PROVE Unnamed' /\ Listed' /\ Compared'
  <2>1. /\ UNCHANGED <<channel, start, bot, client, steps, history>> /\ here'.ghosts = here.ghosts
    BY <1>2, <1>17 DEF MatrixMoves, RoomType
  <2>2. Present' => Present
    BY <2>1 DEF Present
  <2>. QED  BY <1>3, <2>1, <2>2 DEF start, history
<1>18. ASSUME UNCHANGED <<sides, start, bot, client, steps, history>> PROVE Unnamed' /\ Listed' /\ Compared'
  <2>2. Present' => Present
    BY <1>18 DEF Present
  <2>. QED  BY <1>3, <1>18, <2>2 DEF sides, start, history
<1>19. ASSUME Discover PROVE Unnamed' /\ Listed' /\ Compared'
  <2>1. UNCHANGED <<sides, lists, fetched, bot, client, steps, history>>
    BY <1>19 DEF Discover
  <2>2. Present' => Present
    BY <2>1 DEF Present
  <2>. QED  BY <1>3, <2>1, <2>2 DEF sides, history
<1>20. Unnamed' /\ Listed' /\ Compared'
  <2>1. CASE UNCHANGED memberVars
    BY <1>18, <2>1 DEF memberVars
  <2>2. CASE MembersStep
    BY <1>5, <1>6, <1>8, <1>10, <1>11, <1>12, <1>13, <1>14, <1>15, <1>16, <1>19, <2>2 DEF MembersStep
  <2>. QED  BY <1>4, <1>17, <2>1, <2>2 DEF MembersNext
<1>. QED  BY <1>1, <1>20 DEF MembersInv

LEMMA AlwaysMembers == MembersSpec => []MembersInv
BY MembersStart, MembersStays, PTL DEF MembersSpec

(***************************************************************************)
(* Whatever members there are, and however the start of the bridge and     *)
(* their joins and leaves interleave: once the first names were compared   *)
(* with the room, its ghosts are the IRC users in the channel              *)
(* (MemberListSyncer.updateIrcMemberList), if the lists missed nothing.    *)
(***************************************************************************)
THEOREM MembersGhostsFollow == MembersSpec => []GhostsFollow
<1>1. MembersInv => GhostsFollow
  BY DEF MembersInv, Compared, GhostsFollow, Started
<1>. QED  BY <1>1, AlwaysMembers, PTL

\* What the member lists hold.
THEOREM MembersTypeCorrect == MembersSpec => []MembersTypeOK
<1>1. MembersInv => MembersTypeOK
  BY DEF MembersInv
<1>. QED  BY <1>1, AlwaysMembers, PTL
------------------------------------------------------------------------------
(***************************************************************************)
(* Relay                                                                   *)
(***************************************************************************)
(* Relay: a message's sends and the clients they go by.                    *)

SendType == [pc : SendPcs, client : 0..MaxObjects]
TextStages == {"none", "read", "held", "rooms", "command", "admin", "sending", "unmapped",
               "dropped", "done", "failed"}
InviteStages == {"none", "looks", "joins", "stores", "ends", "fails", "done", "failed"}
ClientStatus == {"none", "connecting", "connected", "dead"}

\* What a send in state s for target c of message m may be.
SendRight(m, c, s) ==
  /\ s.pc \notin {"none", "name", "config", "failed"} => s.client # 0 /\ clients[s.client] # "none"
  /\ s.pc = "makes" => clients[s.client] = "connecting"
  /\ s.pc = "waits" => clients[s.client] = "connecting" \/ <<m, c>> \in orphaned
  /\ <<m, c>> \in orphaned => s.pc \in {"waits", "queued"} /\ clients[s.client] = "dead"

\* Nothing is sent before the channels of the room were looked up.
Unsent(m) ==
  texts[m] \in {"none", "read", "held", "rooms"} => \A c \in AllTargets : sends[m][c].pc = "none"

RelayTypes ==
  /\ about \in {"channels", "pm", "admin"} /\ invite \in InviteStages
  /\ processing \subseteq {InviteKey, MessageKey} /\ mapped \subseteq AllTargets
  /\ texts \in [Texts -> TextStages]
  /\ clients \in [ClientIds -> ClientStatus] /\ inPool \in 0..MaxObjects
  /\ orphaned \subseteq Texts \X AllTargets
SendsTyped == sends \in [Texts -> [AllTargets -> SendType]]
Pooled == \A i \in ClientIds : clients[i] \in {"connecting", "connected"} <=> inPool = i
SendsRight == \A m \in Texts, c \in AllTargets : SendRight(m, c, sends[m][c])
RelayInv == RelayTypes /\ SendsTyped /\ Pooled /\ SendsRight /\ \A m \in Texts : Unsent(m)

LEMMA RelayInvSays == RelayInv => RelayTypeOK /\ NoSendStranded
<1>. SUFFICES ASSUME RelayInv PROVE RelayTypeOK /\ NoSendStranded
  OBVIOUS
<1>1. RelayTypeOK
  BY DEF RelayInv, RelayTypes, SendsTyped, Pooled, SendsRight, SendRight, RelayTypeOK, SendType,
         TextStages, InviteStages, ClientStatus, StatusOf
<1>2. NoSendStranded
  <2>1. ASSUME NEW s \in orphaned
        PROVE  sends[s[1]][s[2]].pc \in {"waits", "queued"} /\ StatusOf(s[1], s[2]) = "dead"
    <3>1. PICK m \in Texts, c \in AllTargets : s = <<m, c>>
      BY DEF RelayInv, RelayTypes
    <3>. QED  BY <3>1 DEF RelayInv, SendsRight, SendRight, StatusOf
  <2>. QED  BY <2>1 DEF RelayInv, SendsRight, SendRight, StatusOf, NoSendStranded
<1>. QED  BY <1>1, <1>2

LEMMA RelayStarts == RelayInit => RelayInv
<1>. SUFFICES ASSUME RelayInit PROVE RelayInv
  OBVIOUS
<1>1. RelayTypes
  BY RelayAssumption DEF RelayInit, RelayTypes, TextStages, InviteStages, ClientStatus, AllTargets
<1>2. NoSend \in SendType
  BY RelayAssumption DEF NoSend, SendType, SendPcs
<1>3. SendsTyped /\ \A m \in Texts, c \in AllTargets : sends[m][c] = NoSend
  BY <1>2 DEF RelayInit, SendsTyped
<1>4. Pooled
  BY DEF RelayInit, Pooled, ClientIds
<1>5. SendsRight /\ \A m \in Texts : Unsent(m)
  BY <1>3 DEF RelayInit, SendsRight, SendRight, NoSend, Unsent
<1>. QED  BY <1>1, <1>3, <1>4, <1>5 DEF RelayInv

\* A message or an invite goes on; no send and no client does.
LEMMA TextKeeps ==
  ASSUME RelayInv, RelayTypes', UNCHANGED <<sends, clients, inPool, orphaned>>,
         \A m \in Texts : \/ texts'[m] = texts[m] \/ texts'[m] \notin {"none", "read", "held", "rooms"}
                          \/ texts[m] \in {"none", "read", "held", "rooms"}
  PROVE  RelayInv'
<1>1. SendsTyped' /\ Pooled' /\ SendsRight'
  BY DEF RelayInv, SendsTyped, Pooled, SendsRight, SendRight
<1>2. \A m \in Texts : Unsent(m)'
  BY DEF RelayInv, Unsent
<1>. QED  BY <1>1, <1>2 DEF RelayInv

\* The send of m to c goes on, and nothing else does.
LEMMA SendKeeps ==
  ASSUME RelayInv, NEW m \in Texts, NEW c \in AllTargets, NEW s \in SendType,
         sends[m][c].pc # "none", sends' = [sends EXCEPT ![m][c] = s], SendRight(m, c, s),
         UNCHANGED <<about, invite, processing, mapped, texts, clients, inPool, orphaned>>
  PROVE  RelayInv'
<1>1. /\ SendsTyped' /\ sends'[m][c] = s
      /\ \A n \in Texts, d \in AllTargets : n # m \/ d # c => sends'[n][d] = sends[n][d]
  BY DEF RelayInv, SendsTyped
<1>2. RelayTypes' /\ Pooled'
  BY DEF RelayInv, RelayTypes, Pooled
<1>3. SendsRight'
  <2>. SUFFICES ASSUME NEW n \in Texts, NEW d \in AllTargets
                PROVE  SendRight(n, d, sends[n][d])'
    BY DEF SendsRight
  <2>1. SendRight(n, d, sends'[n][d])
    BY <1>1 DEF RelayInv, SendsRight
  <2>. QED  BY <2>1 DEF SendRight
<1>4. \A n \in Texts : Unsent(n)'
  BY <1>1 DEF RelayInv, Unsent
<1>. QED  BY <1>1, <1>2, <1>3, <1>4 DEF RelayInv

LEMMA SendGoesOn ==
  ASSUME RelayInv, NEW m \in Texts, NEW c \in AllTargets, NEW pc \in SendPcs,
         sends[m][c].pc \notin {"none", "waits"}, SendGoes(m, c, pc), <<m, c>> \notin orphaned,
         pc \notin {"none", "name", "config", "failed"} => sends[m][c].pc \notin {"name", "config", "failed"},
         pc # "makes", pc = "waits" => StatusOf(m, c) = "connecting",
         UNCHANGED <<about, invite, processing, mapped, texts, clients, inPool, orphaned>>
  PROVE  RelayInv'
<1>. DEFINE s == [sends[m][c] EXCEPT !.pc = pc]
<1>1. sends[m][c] \in SendType
  BY DEF RelayInv, SendsTyped
<1>2. s \in SendType /\ s.pc = pc /\ s.client = sends[m][c].client
  BY <1>1 DEF SendType
<1>3. sends' = [sends EXCEPT ![m][c] = s]
  BY DEF SendGoes, RelayInv, SendsTyped
<1>4. SendRight(m, c, s)
  BY <1>2 DEF SendRight, RelayInv, SendsRight, StatusOf
<1>. HIDE DEF s
<1>. QED  BY <1>2, <1>3, <1>4, SendKeeps

LEMMA TakesPooled ==
  ASSUME RelayInv, NEW m \in Texts, NEW c \in AllTargets, sends[m][c].pc \in {"name", "config"},
         inPool # 0, TakesClient(m, c, inPool),
         UNCHANGED <<about, invite, processing, mapped, texts, clients, inPool, orphaned>>
  PROVE  RelayInv'
<1>. DEFINE s == [pc |-> "start", client |-> inPool]
<1>1. inPool \in ClientIds /\ clients[inPool] # "none" /\ inPool \in 0..MaxObjects
  BY RelayAssumption DEF RelayInv, RelayTypes, Pooled, ClientIds
<1>2. s \in SendType
  BY <1>1 DEF SendType, SendPcs
<1>3. <<m, c>> \notin orphaned
  BY DEF RelayInv, SendsRight, SendRight
<1>4. SendRight(m, c, s)
  BY <1>1, <1>3 DEF SendRight
<1>. QED  BY <1>2, <1>4, SendKeeps DEF TakesClient
------------------------------------------------------------------------------
LEMMA InviteKeeps ==
  ASSUME RelayInv, OnInvite \/ HandleInvite \/ InviteSettles
  PROVE  RelayInv'
<1>1. UNCHANGED <<about, texts, sends, clients, inPool, orphaned>>
  BY DEF OnInvite, HandleInvite, InviteSettles
<1>2. invite' \in InviteStages /\ mapped' \subseteq AllTargets /\ processing' \subseteq {InviteKey, MessageKey}
  BY DEF OnInvite, HandleInvite, InviteStep, InviteSettles, InviteStages, AllTargets, RelayInv, RelayTypes
<1>3. RelayTypes'
  BY <1>1, <1>2 DEF RelayInv, RelayTypes
<1>. QED  BY <1>1, <1>3, TextKeeps

LEMMA TextGoesOn ==
  ASSUME RelayInv, NEW m \in Texts, NEW pc \in TextStages, TextGoes(m, pc),
         pc \in {"none", "read", "held", "rooms"} => texts[m] \in {"none", "read", "held", "rooms"},
         UNCHANGED <<about, invite, processing, mapped, sends, clients, inPool, orphaned>>
  PROVE  RelayInv'
<1>1. /\ texts' \in [Texts -> TextStages] /\ texts'[m] = pc
      /\ \A n \in Texts : n # m => texts'[n] = texts[n]
  BY DEF TextGoes, RelayInv, RelayTypes
<1>2. RelayTypes'
  BY <1>1 DEF RelayInv, RelayTypes
<1>. QED  BY <1>1, <1>2, TextKeeps

LEMMA TakeRoomsKeeps ==
  ASSUME RelayInv, NEW m \in Texts, TakeRooms(m)
  PROVE  RelayInv'
<1>1. CASE mapped = {}
  <2>1. /\ \E pc \in {"admin", "unmapped"} : TextGoes(m, pc)
        /\ UNCHANGED <<about, invite, processing, mapped, sends, clients, inPool, orphaned>>
    BY <1>1 DEF TakeRooms
  <2>. QED  BY <2>1, TextGoesOn DEF TextStages
<1>2. CASE mapped # {}
  <2>. DEFINE begins(c) == IF c \notin mapped THEN NoSend
                          ELSE IF inPool # 0 THEN [pc |-> "start", client |-> inPool]
                          ELSE [pc |-> "name", client |-> 0]
  <2>1. /\ texts[m] = "rooms" /\ TextGoes(m, "sending")
        /\ sends' = [sends EXCEPT ![m] = [c \in AllTargets |-> begins(c)]]
        /\ UNCHANGED <<about, invite, processing, mapped, clients, inPool, orphaned>>
    BY <1>2 DEF TakeRooms
  <2>2. \A c \in AllTargets : begins(c) \in SendType
    BY RelayAssumption DEF SendType, SendPcs, NoSend, RelayInv, RelayTypes
  <2>3. \A c \in AllTargets : <<m, c>> \notin orphaned
    BY <2>1 DEF RelayInv, Unsent, SendsRight, SendRight
  <2>4. inPool # 0 => inPool \in ClientIds /\ clients[inPool] # "none"
    BY RelayAssumption DEF RelayInv, RelayTypes, Pooled, ClientIds
  <2>5. \A c \in AllTargets : SendRight(m, c, begins(c))
    BY <2>3, <2>4 DEF SendRight, NoSend
  <2>. HIDE DEF begins
  <2>6. /\ SendsTyped' /\ \A c \in AllTargets : sends'[m][c] = begins(c)
        /\ \A n \in Texts : n # m => sends'[n] = sends[n]
    BY <2>1, <2>2 DEF RelayInv, SendsTyped
  <2>7. SendsRight'
    <3>. SUFFICES ASSUME NEW n \in Texts, NEW d \in AllTargets
                  PROVE  SendRight(n, d, sends[n][d])'
      BY DEF SendsRight
    <3>1. SendRight(n, d, sends'[n][d])
      BY <2>5, <2>6 DEF RelayInv, SendsRight
    <3>. QED  BY <2>1, <3>1 DEF SendRight
  <2>8. /\ texts' \in [Texts -> TextStages] /\ texts'[m] = "sending"
        /\ \A n \in Texts : n # m => texts'[n] = texts[n]
    BY <2>1 DEF TextGoes, RelayInv, RelayTypes, TextStages
  <2>9. RelayTypes' /\ Pooled' /\ \A n \in Texts : Unsent(n)'
    BY <2>1, <2>6, <2>8 DEF RelayInv, RelayTypes, Pooled, Unsent
  <2>. QED  BY <2>6, <2>7, <2>9 DEF RelayInv
<1>. QED  BY <1>1, <1>2

LEMMA TextStepKeeps ==
  ASSUME RelayInv, NEW m \in Texts, OnMessage(m) \/ TextStep(m)
  PROVE  RelayInv'
<1>1. CASE TakeRooms(m)
  BY <1>1, TakeRoomsKeeps
<1>2. CASE OnMessage(m) \/ Parsed(m) \/ Held(m) \/ Answer(m) \/ SendsEnd(m)
  <2>1. UNCHANGED <<about, invite, processing, mapped, sends, clients, inPool, orphaned>>
    BY <1>2 DEF OnMessage, Parsed, Held, Answer, SendsEnd
  <2>2. \E pc \in TextStages :
          /\ TextGoes(m, pc)
          /\ pc \in {"none", "read", "held", "rooms"} => texts[m] \in {"none", "read", "held", "rooms"}
    <3>1. CASE OnMessage(m) BY <3>1 DEF OnMessage, TextStages
    <3>2. CASE Parsed(m) BY <3>2 DEF Parsed, TextStages
    <3>3. CASE Held(m) BY <3>3 DEF Held, TextStages
    <3>4. CASE Answer(m) BY <3>4 DEF Answer, TextStages
    <3>5. CASE SendsEnd(m) BY <3>5 DEF SendsEnd, TextStages
    <3>. QED  BY <1>2, <3>1, <3>2, <3>3, <3>4, <3>5
  <2>. QED  BY <2>1, <2>2, TextGoesOn
<1>. QED  BY <1>1, <1>2 DEF TextStep

LEMMA MakeClientKeeps ==
  ASSUME RelayInv, NEW m \in Texts, NEW c \in AllTargets, MakeClient(m, c)
  PROVE  RelayInv'
<1>1. /\ sends[m][c].pc = "config"
      /\ UNCHANGED <<about, invite, processing, mapped, texts, orphaned>>
  BY DEF MakeClient
<1>2. <<m, c>> \notin orphaned
  BY <1>1 DEF RelayInv, SendsRight, SendRight
<1>3. CASE inPool # 0 /\ TakesClient(m, c, inPool) /\ UNCHANGED <<clients, inPool>>
  BY <1>1, <1>3, TakesPooled
<1>4. CASE SendGoes(m, c, "failed") /\ UNCHANGED <<clients, inPool>>
  BY <1>1, <1>2, <1>4, SendGoesOn DEF SendPcs
<1>5. ASSUME NEW i \in ClientIds, inPool = 0, clients[i] = "none", inPool' = i,
             clients' = [clients EXCEPT ![i] = "connecting"],
             sends' = [sends EXCEPT ![m][c] = [pc |-> "makes", client |-> i]]
      PROVE  RelayInv'
  <2>. DEFINE s == [pc |-> "makes", client |-> i]
  <2>1. s \in SendType /\ i \in 0..MaxObjects /\ i # 0
    BY RelayAssumption DEF SendType, SendPcs, ClientIds
  <2>2. /\ clients' \in [ClientIds -> ClientStatus] /\ clients'[i] = "connecting"
        /\ \A j \in ClientIds : j # i => clients'[j] = clients[j]
    BY <1>5 DEF RelayInv, RelayTypes, ClientStatus
  <2>. HIDE DEF s
  <2>3. /\ SendsTyped' /\ sends'[m][c] = s
        /\ \A n \in Texts, d \in AllTargets : n # m \/ d # c => sends'[n][d] = sends[n][d]
    BY <1>5, <2>1 DEF RelayInv, SendsTyped, s
  <2>4. RelayTypes' /\ Pooled'
    <3>1. \A j \in ClientIds : j # i => clients[j] \notin {"connecting", "connected"}
      BY <1>5 DEF RelayInv, Pooled, ClientIds
    <3>. QED  BY <1>1, <1>5, <2>1, <2>2, <3>1 DEF RelayInv, RelayTypes, Pooled
  <2>5. SendsRight'
    <3>1. SendRight(m, c, s)'
      BY <1>1, <1>2, <2>1, <2>2 DEF SendRight, s
    <3>2. ASSUME NEW n \in Texts, NEW d \in AllTargets, n # m \/ d # c
          PROVE  SendRight(n, d, sends[n][d])'
      <4>. DEFINE t == sends[n][d]
      <4>1. t \in SendType /\ sends'[n][d] = t /\ SendRight(n, d, t)
        BY <2>3, <3>2 DEF RelayInv, SendsTyped, SendsRight
      <4>. HIDE DEF t
      <4>2. t.client \in 0..MaxObjects /\ (t.client # 0 => t.client \in ClientIds)
        BY <4>1, RelayAssumption DEF SendType, ClientIds
      <4>3. <<n, d>> \in orphaned => t.pc \in {"waits", "queued"} /\ t.client # 0
        BY <4>1 DEF SendRight
      <4>. QED  BY <1>1, <1>5, <2>2, <4>1, <4>2, <4>3 DEF SendRight
    <3>. QED  BY <2>3, <3>1, <3>2 DEF SendsRight
  <2>6. \A n \in Texts : Unsent(n)'
    BY <1>1, <2>3 DEF RelayInv, Unsent
  <2>. QED  BY <2>3, <2>4, <2>5, <2>6 DEF RelayInv
<1>. QED  BY <1>3, <1>4, <1>5 DEF MakeClient

LEMMA SendStepKeeps ==
  ASSUME RelayInv, NEW m \in Texts, NEW c \in AllTargets, SendStep(m, c)
  PROVE  RelayInv'
<1>. DEFINE Rest == UNCHANGED <<about, invite, processing, mapped, texts, clients, inPool, orphaned>>
<1>1. sends[m][c].pc \notin {"waits", "queued"} => <<m, c>> \notin orphaned
  BY DEF RelayInv, SendsRight, SendRight
<1>2. CASE GetClient(m, c)
  <2>1. CASE inPool # 0
    BY <1>2, <2>1, TakesPooled DEF GetClient
  <2>2. CASE inPool = 0
    BY <1>1, <1>2, <2>2, SendGoesOn DEF GetClient, SendPcs
  <2>. QED  BY <2>1, <2>2
<1>3. CASE MakeClient(m, c)
  BY <1>3, MakeClientKeeps
<1>4. CASE Prepare(m, c)
  BY <1>1, <1>4, SendGoesOn DEF Prepare, SendPcs
<1>5. CASE WaitForConnected(m, c)
  BY <1>1, <1>5, SendGoesOn DEF WaitForConnected, SendPcs
<1>6. CASE LineLimit(m, c)
  BY <1>1, <1>6, SendGoesOn DEF LineLimit, SendPcs
<1>7. CASE SendAction(m, c)
  BY <1>1, <1>7, SendGoesOn DEF SendAction, SendPcs
<1>8. CASE JoinedOrFails(m, c)
  BY <1>1, <1>8, SendGoesOn DEF JoinedOrFails, SendPcs
<1>. QED  BY <1>2, <1>3, <1>4, <1>5, <1>6, <1>7, <1>8 DEF SendStep

LEMMA ClientConnectedKeeps ==
  ASSUME RelayInv, NEW i \in ClientIds, ClientConnected(i)
  PROVE  RelayInv'
<1>. DEFINE goes(s) == IF s.client # i THEN s
                       ELSE [s EXCEPT !.pc = CASE @ = "makes" -> "start" [] @ = "waits" -> "limit" [] OTHER -> @]
<1>1. /\ clients[i] = "connecting"
      /\ UNCHANGED <<about, invite, processing, mapped, texts, inPool, orphaned>>
  BY DEF ClientConnected
<1>2. /\ clients' \in [ClientIds -> ClientStatus] /\ clients'[i] = "connected"
      /\ \A j \in ClientIds : j # i => clients'[j] = clients[j]
  BY DEF ClientConnected, RelayInv, RelayTypes, ClientStatus
<1>3. sends' = [m \in Texts |-> [c \in AllTargets |-> goes(sends[m][c])]]
  BY DEF ClientConnected
<1>4. \A s \in SendType :
        /\ goes(s) \in SendType /\ goes(s).client = s.client
        /\ goes(s).pc = IF s.client # i THEN s.pc ELSE
                          CASE s.pc = "makes" -> "start" [] s.pc = "waits" -> "limit" [] OTHER -> s.pc
  BY DEF SendType, SendPcs
<1>. HIDE DEF goes
<1>5. /\ SendsTyped'
      /\ \A m \in Texts, c \in AllTargets : sends'[m][c] = goes(sends[m][c]) /\ sends[m][c] \in SendType
  BY <1>3, <1>4 DEF RelayInv, SendsTyped
<1>6. RelayTypes' /\ Pooled'
  BY <1>1, <1>2 DEF RelayInv, RelayTypes, Pooled
<1>7. SendsRight'
  <2>. SUFFICES ASSUME NEW m \in Texts, NEW c \in AllTargets
                PROVE  SendRight(m, c, sends[m][c])'
    BY DEF SendsRight
  <2>0. PICK s, t : s = sends[m][c] /\ t = sends'[m][c]
    OBVIOUS
  <2>1. /\ SendRight(m, c, s) /\ s \in SendType /\ t = goes(s)
    BY <1>5, <2>0 DEF RelayInv, SendsRight
  <2>2. t.client = s.client /\ s.client \in 0..MaxObjects /\ (s.client # 0 => s.client \in ClientIds)
    BY <1>4, <2>1, RelayAssumption DEF SendType, ClientIds
  <2>3. CASE s.client # i
    <3>1. t.pc = s.pc
      BY <1>4, <2>1, <2>3
    <3>2. s.client # 0 => clients'[s.client] = clients[s.client]
      BY <1>2, <2>2, <2>3
    <3>3. <<m, c>> \in orphaned => s.client # 0
      BY <2>1 DEF SendRight
    <3>4. SendRight(m, c, t)'
      BY <1>1, <2>1, <2>2, <3>1, <3>2, <3>3 DEF SendRight
    <3>. QED  BY <2>0, <3>4
  <2>4. CASE s.client = i
    <3>1. <<m, c>> \notin orphaned
      BY <1>1, <2>1, <2>4 DEF SendRight
    <3>2. t.pc \notin {"makes", "waits"} /\ (t.pc = "none" <=> s.pc = "none") /\ t.client # 0
      BY <1>4, <2>1, <2>4, <2>2, RelayAssumption DEF ClientIds
    <3>3. SendRight(m, c, t)'
      BY <1>1, <1>2, <2>2, <2>4, <3>1, <3>2 DEF SendRight
    <3>. QED  BY <2>0, <3>3
  <2>. QED  BY <2>3, <2>4
<1>8. \A m \in Texts : Unsent(m)'
  <2>1. \A m \in Texts, c \in AllTargets : sends[m][c].pc = "none" => sends'[m][c].pc = "none"
    BY <1>4, <1>5
  <2>. QED  BY <1>1, <2>1 DEF RelayInv, Unsent
<1>. QED  BY <1>5, <1>6, <1>7, <1>8 DEF RelayInv

\* A client dies: the pool forgets it.
LEMMA ClientDies ==
  ASSUME RelayInv, NEW i \in ClientIds, clients[i] \in {"connecting", "connected"},
         clients' = [clients EXCEPT ![i] = "dead"], inPool' = IF inPool = i THEN 0 ELSE inPool,
         UNCHANGED <<about, invite, processing, mapped, texts>>, orphaned' \subseteq Texts \X AllTargets
  PROVE  /\ RelayTypes' /\ Pooled' /\ clients'[i] = "dead"
         /\ \A j \in ClientIds : j # i => clients'[j] = clients[j]
<1>1. /\ clients' \in [ClientIds -> ClientStatus] /\ clients'[i] = "dead"
      /\ \A j \in ClientIds : j # i => clients'[j] = clients[j]
  BY DEF RelayInv, RelayTypes, ClientStatus
<1>2. inPool = i /\ inPool' = 0 /\ 0 \notin ClientIds /\ 0 \in 0..MaxObjects
  BY RelayAssumption DEF RelayInv, Pooled, ClientIds
<1>3. RelayTypes'
  BY <1>1, <1>2 DEF RelayInv, RelayTypes
<1>4. Pooled'
  BY <1>1, <1>2 DEF RelayInv, Pooled
<1>. QED  BY <1>1, <1>3, <1>4

LEMMA ConnectionFailsKeeps ==
  ASSUME RelayInv, NEW i \in ClientIds, ConnectionFails(i)
  PROVE  RelayInv'
<1>. DEFINE made == [pc |-> "makes", client |-> i]
            goes(s) == IF s = made THEN [s EXCEPT !.pc = "failed"] ELSE s
            left == {s \in Texts \X AllTargets :
                       sends[s[1]][s[2]].client = i /\ sends[s[1]][s[2]].pc \in {"waits", "queued"}}
<1>1. /\ clients[i] = "connecting" /\ clients' = [clients EXCEPT ![i] = "dead"]
      /\ inPool' = (IF inPool = i THEN 0 ELSE inPool) /\ orphaned' = orphaned \cup left
      /\ sends' = [m \in Texts |-> [c \in AllTargets |-> goes(sends[m][c])]]
      /\ UNCHANGED <<about, invite, processing, mapped, texts>>
  BY DEF ConnectionFails
<1>2. orphaned' \subseteq Texts \X AllTargets
  BY <1>1 DEF RelayInv, RelayTypes
<1>3. /\ RelayTypes' /\ Pooled' /\ clients'[i] = "dead"
      /\ \A j \in ClientIds : j # i => clients'[j] = clients[j]
  BY <1>1, <1>2, ClientDies
<1>4. \A s \in SendType : /\ goes(s) \in SendType /\ goes(s).client = s.client
                          /\ s = made => goes(s).pc = "failed"
                          /\ s # made => goes(s) = s
                          /\ s.pc = "makes" /\ s.client = i => s = made
  BY DEF SendType, SendPcs
<1>5. \A m \in Texts, c \in AllTargets :
        <<m, c>> \in left <=> sends[m][c].client = i /\ sends[m][c].pc \in {"waits", "queued"}
  OBVIOUS
<1>6. made.pc = "makes"
  OBVIOUS
<1>. HIDE DEF goes, left, made
<1>7. /\ SendsTyped'
      /\ \A m \in Texts, c \in AllTargets : sends'[m][c] = goes(sends[m][c]) /\ sends[m][c] \in SendType
  BY <1>1, <1>4 DEF RelayInv, SendsTyped
<1>8. SendsRight'
  <2>. SUFFICES ASSUME NEW m \in Texts, NEW c \in AllTargets
                PROVE  SendRight(m, c, sends[m][c])'
    BY DEF SendsRight
  <2>0. PICK s, t : s = sends[m][c] /\ t = sends'[m][c]
    OBVIOUS
  <2>1. /\ SendRight(m, c, s) /\ s \in SendType /\ t = goes(s)
        /\ <<m, c>> \in orphaned' <=> \/ <<m, c>> \in orphaned
                                      \/ s.client = i /\ s.pc \in {"waits", "queued"}
    BY <1>1, <1>5, <1>7, <2>0 DEF RelayInv, SendsRight
  <2>2. t.client = s.client /\ s.client \in 0..MaxObjects /\ (s.client # 0 => s.client \in ClientIds)
    BY <1>4, <2>1, RelayAssumption DEF SendType, ClientIds
  <2>3. i # 0
    BY RelayAssumption DEF ClientIds
  <2>4. CASE s.client # i
    <3>1. t = s
      BY <1>4, <2>1, <2>4 DEF made
    <3>2. s.client # 0 => clients'[s.client] = clients[s.client]
      BY <1>3, <2>2, <2>4
    <3>3. <<m, c>> \in orphaned => s.client # 0
      BY <2>1 DEF SendRight
    <3>4. SendRight(m, c, t)'
      BY <2>1, <2>2, <2>4, <3>1, <3>2, <3>3 DEF SendRight
    <3>. QED  BY <2>0, <3>4
  <2>5. CASE s.client = i /\ s.pc = "makes"
    <3>1. t.pc = "failed" /\ <<m, c>> \notin orphaned'
      BY <1>4, <2>1, <2>5 DEF SendRight
    <3>2. SendRight(m, c, t)'
      BY <3>1 DEF SendRight
    <3>. QED  BY <2>0, <3>2
  <2>6. CASE s.client = i /\ s.pc # "makes"
    <3>1. t = s
      BY <1>4, <1>6, <2>1, <2>6
    <3>2. <<m, c>> \notin orphaned
      BY <1>1, <2>1, <2>6 DEF SendRight
    <3>3. SendRight(m, c, t)'
      BY <1>3, <2>1, <2>3, <2>6, <3>1, <3>2 DEF SendRight
    <3>. QED  BY <2>0, <3>3
  <2>. QED  BY <2>4, <2>5, <2>6
<1>9. \A m \in Texts : Unsent(m)'
  <2>1. \A m \in Texts, c \in AllTargets : sends[m][c].pc = "none" => sends'[m][c].pc = "none"
    BY <1>4, <1>6, <1>7
  <2>. QED  BY <1>1, <2>1 DEF RelayInv, Unsent
<1>. QED  BY <1>3, <1>7, <1>8, <1>9 DEF RelayInv

LEMMA ConnectionLostKeeps ==
  ASSUME RelayInv, NEW i \in ClientIds, ConnectionLost(i)
  PROVE  RelayInv'
<1>1. /\ clients[i] = "connected" /\ clients' = [clients EXCEPT ![i] = "dead"]
      /\ inPool' = (IF inPool = i THEN 0 ELSE inPool)
      /\ UNCHANGED <<about, invite, processing, mapped, texts, sends, orphaned>>
  BY DEF ConnectionLost
<1>2. /\ RelayTypes' /\ Pooled' /\ clients'[i] = "dead"
      /\ \A j \in ClientIds : j # i => clients'[j] = clients[j]
  BY <1>1, ClientDies DEF RelayInv, RelayTypes
<1>3. SendsRight'
  <2>. SUFFICES ASSUME NEW m \in Texts, NEW c \in AllTargets
                PROVE  SendRight(m, c, sends[m][c])'
    BY DEF SendsRight
  <2>0. PICK s : s = sends[m][c]
    OBVIOUS
  <2>1. SendRight(m, c, s) /\ s \in SendType
    BY <2>0 DEF RelayInv, SendsRight, SendsTyped
  <2>2. s.client \in 0..MaxObjects /\ (s.client # 0 => s.client \in ClientIds)
    BY <2>1, RelayAssumption DEF SendType, ClientIds
  <2>3. <<m, c>> \in orphaned => s.client # 0
    BY <2>1 DEF SendRight
  <2>4. SendRight(m, c, s)'
    BY <1>1, <1>2, <2>1, <2>2, <2>3 DEF SendRight
  <2>. QED  BY <1>1, <2>0, <2>4
<1>4. SendsTyped' /\ \A m \in Texts : Unsent(m)'
  BY <1>1 DEF RelayInv, SendsTyped, Unsent
<1>. QED  BY <1>2, <1>3, <1>4 DEF RelayInv

LEMMA RelayKeeps == RelayInv /\ [RelayNext]_relayVars => RelayInv'
<1>. SUFFICES ASSUME RelayInv, [RelayNext]_relayVars PROVE RelayInv'
  OBVIOUS
<1>1. CASE UNCHANGED relayVars
  BY <1>1 DEF relayVars, RelayInv, RelayTypes, SendsTyped, Pooled, SendsRight, SendRight, Unsent
<1>2. CASE RelayNext
  BY <1>2, InviteKeeps, TextStepKeeps, SendStepKeeps, ClientConnectedKeeps, ConnectionFailsKeeps,
     ConnectionLostKeeps DEF RelayNext, ClientStep
<1>. QED  BY <1>1, <1>2

(***************************************************************************)
(* The user has a client exactly while the pool has it, each send goes by  *)
(* a client that was made, and the rest is of its types, however many      *)
(* messages, channels and clients there are.                               *)
(***************************************************************************)
THEOREM RelayTypeCorrect == RelaySpec => []RelayTypeOK
BY RelayStarts, RelayKeeps, RelayInvSays, PTL DEF RelaySpec

(***************************************************************************)
(* A send that waits for a client waits for one that is connecting, or for *)
(* one whose connection failed while it waited: connectDefer is the only   *)
(* promise on this way that nobody settles.                                *)
(***************************************************************************)
THEOREM RelayNoSendStranded == RelaySpec => []NoSendStranded
BY RelayStarts, RelayKeeps, RelayInvSays, PTL DEF RelaySpec
------------------------------------------------------------------------------
(***************************************************************************)
(* The parts together                                                      *)
(***************************************************************************)
(* What each part keeps by its own steps it keeps while the others take    *)
(* theirs, as these leave its variables alone.                             *)
LiveInv == MembersInv /\ CTypes /\ NickTidy /\ LInv /\ PInv /\ RelayInv

LEMMA LiveStarts == LiveInit => LiveInv
BY MembersStart, TypesInit, LeftInit, PInvInit, RelayStarts DEF LiveInit, LiveInv

LEMMA OnePartSteps ==
  ASSUME [LiveNext]_liveVars
  PROVE  /\ [MembersNext]_memberVars /\ [ChannelsNext]_channelsVars
         /\ [ProvisionNext]_provisionVars /\ [RelayNext]_relayVars
<1>1. CASE InPool /\ Next
  BY <1>1 DEF InPool
<1>2. CASE InMembers /\ MembersNext
  BY <1>2 DEF InMembers
<1>3. CASE InChannels /\ ChannelsNext
  BY <1>3 DEF InChannels
<1>4. CASE InLinks /\ ProvisionNext
  BY <1>4 DEF InLinks
<1>5. CASE InRelay /\ RelayNext
  BY <1>5 DEF InRelay
<1>6. CASE UNCHANGED liveVars
  BY <1>6 DEF liveVars
<1> QED BY <1>1, <1>2, <1>3, <1>4, <1>5, <1>6 DEF LiveNext

LEMMA LiveKeeps == LiveInv /\ [LiveNext]_liveVars => LiveInv'
<1> SUFFICES ASSUME LiveInv, [LiveNext]_liveVars PROVE LiveInv'
  OBVIOUS
<1>1. MembersInv'
  BY OnePartSteps, MembersStays DEF LiveInv
<1>2. CTypes' /\ NickTidy' /\ LInv'
  BY OnePartSteps, TypesStep, LeftStep DEF LiveInv
<1>3. PInv'
  BY OnePartSteps, PTypeStep, BotStep DEF LiveInv, PInv
<1>4. RelayInv'
  BY OnePartSteps, RelayKeeps DEF LiveInv
<1> QED BY <1>1, <1>2, <1>3, <1>4 DEF LiveInv

LEMMA AlwaysLive == LiveSpec => []LiveInv
BY LiveStarts, LiveKeeps, PTL DEF LiveSpec

(***************************************************************************)
(* The data of the member lists, of a client's channels, of the links and  *)
(* of the relay keep their form, whichever part of the bridge takes the    *)
(* steps, and no send of the relay waits for a client that nothing brings. *)
(***************************************************************************)
THEOREM BridgeLiveTypesHold == LiveSpec => []LiveTypesOK
<1>1. LiveInv => LiveTypesOK
  BY RelayInvSays DEF LiveInv, MembersInv, CTypes, PInv, PTypeOK, LiveTypesOK
<1> QED BY <1>1, AlwaysLive, PTL

(***************************************************************************)
(* In every state of the bridge's parts: a channel that was left stays     *)
(* left, the bot is where a room is linked, a nick is pending as long as   *)
(* its change is, and the ghosts of a room are the users of its channel.   *)
(***************************************************************************)
THEOREM BridgeLiveKeepsItsWord ==
  LiveSpec => [](LeftMeansLeft /\ BotStays /\ NickTidy /\ GhostsFollow)
<1>1. LiveInv => LeftMeansLeft /\ BotStays /\ NickTidy /\ GhostsFollow
  BY LeftFollows DEF LiveInv, PInv, MembersInv, Compared, GhostsFollow, Started
<1> QED BY <1>1, AlwaysLive, PTL
==============================================================================
