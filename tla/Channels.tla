------------------------------ MODULE Channels ------------------------------
(***************************************************************************)
(* What a BridgedClient does with its connection: join and leave channels, *)
(* send, look up operators, change its nick (src/src/irc/BridgedClient.ts).*)
(*                                                                         *)
(* A client connects once (ClientPool replaces lost clients by new ones),  *)
(* so this is one life of one client.  An action is what runs between two  *)
(* awaits, network events or timers.  The server answers the lines it is   *)
(* sent about a channel in their order, or not at all.                     *)
(***************************************************************************)
EXTENDS Naturals, Sequences, SequencesExt

CONSTANTS Calls,        \* calls of the client's methods
          Chans,        \* IRC channels
          Excluded,     \* those the configuration excludes
          Ops,          \* the methods called in this instance
          NoChan,
          MaxAttempts   \* JOINs sent before joining is given up (5 in the code)

ASSUME ChannelsAssumption ==
  /\ Excluded \subseteq Chans /\ NoChan \notin Chans
  /\ Ops \subseteq {"join", "send", "topic", "ops", "leave", "nick"}
  /\ MaxAttempts \in Nat \ {0}

VARIABLES
  status,    \* BridgedClientStatus
  deferred,  \* connectDefer is pending
  up,        \* the connection is not lost
  chans,     \* the channels the IRC library knows the client to be in
  chanList,  \* those the client believes it is in
  joining,   \* channelJoinDefers: the join under way for a channel, if any
  asked,     \* lines about a channel the server has not answered
  calls,     \* the calls: method, channel, and where they are
  listening, \* calls that listen for a change of nick, and for errors of one
  pending,   \* calls whose nick is announced as pending
  cached,    \* channels whose operators are cached
  past       \* history: leaves a join was asked for during; channels left

net == <<status, deferred, up, chans, chanList, asked>>
nicks == <<listening, pending>>
channelsVars == <<net, joining, calls, nicks, cached, past>>

NoJoin == [stage |-> "none", n |-> 0]
NoCall == [op |-> "none", chan |-> NoChan, pc |-> "idle"]

ChannelsInit ==
  /\ status = "connecting" /\ deferred = TRUE /\ up = FALSE
  /\ chans = {} /\ chanList = {}
  /\ joining = [c \in Chans |-> NoJoin]
  /\ asked = [c \in Chans |-> <<>>]
  /\ calls = [k \in Calls |-> NoCall]
  /\ listening = [nick |-> {}, error |-> {}] /\ pending = {}
  /\ cached = {}
  /\ past = [joined |-> {}, left |-> {}]
------------------------------------------------------------------------------
Goes(k, pc) == calls' = [calls EXCEPT ![k].pc = pc]
At(c, pcs) == {k \in Calls : calls[k].chan = c /\ calls[k].pc \in pcs}
All(ks, pc) == [k \in Calls |-> IF k \in ks THEN [calls[k] EXCEPT !.pc = pc] ELSE calls[k]]

Leaving == {"leaving", "waits", "parting", "part", "left"}
First == [join |-> "joining", topic |-> "topic", ops |-> "cache", send |-> "connect",
          leave |-> "leaving", nick |-> "whois"]

Call(k, op, c) ==
  /\ calls[k] = NoCall
  /\ calls' = [calls EXCEPT ![k] = [op |-> op, chan |-> c, pc |-> First[op]]]
  /\ past' = [past EXCEPT !.joined = @ \ {k}]
  /\ UNCHANGED <<net, joining, nicks, cached>>

\* connect() goes on, or fails: then connectDefer stays pending.
Connect ==
  /\ status = "connecting"
  /\ \/ status' = "connected" /\ up' = TRUE /\ deferred' = FALSE
     \/ status' = "dead" /\ UNCHANGED <<up, deferred>>
  /\ UNCHANGED <<chans, chanList, asked, joining, calls, nicks, cached, past>>

\* kill() changes the state before the connection is closed.
KillClient ==
  /\ status = "connected" /\ status' = "killed"
  /\ UNCHANGED <<deferred, up, chans, chanList, asked, joining, calls, nicks, cached, past>>

\* onDisconnect; chanList is kept for the client that replaces this one.
ConnectionDrops ==
  /\ up /\ up' = FALSE
  /\ status' = IF status = "killed" THEN status ELSE "dead"
  /\ asked' = [c \in Chans |-> <<>>]
  /\ UNCHANGED <<deferred, chans, chanList, joining, calls, nicks, cached, past>>
------------------------------------------------------------------------------
\* joinChannel: callers share the join under way, else _joinChannel looks.
Joining(c) ==
  CASE joining[c] # NoJoin -> joining[c]
    [] joining[c] = NoJoin /\ status # "connected" -> [stage |-> IF deferred THEN "connect" ELSE "failed", n |-> 1]
    [] joining[c] = NoJoin /\ status = "connected" /\ c \in chans -> [stage |-> "joined", n |-> 1]
    [] joining[c] = NoJoin /\ status = "connected" /\ c \in Excluded \ chans -> [stage |-> "failed", n |-> 1]
    [] OTHER -> [stage |-> "asked", n |-> 1]

Send(c, what) == asked' = [asked EXCEPT ![c] = Append(@, what)]

JoinChannel(k) ==
  LET c == calls[k].chan IN
  /\ calls[k].pc = "joining"
  /\ joining' = [joining EXCEPT ![c] = Joining(c)]
  /\ IF joining[c] = NoJoin /\ Joining(c).stage = "asked" THEN Send(c, "JOIN") ELSE UNCHANGED asked
  /\ Goes(k, "join")
  /\ past' = [joined |-> past.joined \cup At(c, Leaving),
              left |-> past.left \ {c}]
  /\ UNCHANGED <<status, deferred, up, chans, chanList, nicks, cached>>

\* connectDefer resolved: _joinChannel looks again.
JoinGoesOn(c) ==
  /\ joining[c].stage = "connect" /\ ~deferred
  /\ IF status = "connected" /\ c \notin Excluded
     THEN joining' = [joining EXCEPT ![c].stage = "asked"] /\ Send(c, "JOIN")
     ELSE joining' = [joining EXCEPT ![c].stage = "failed"] /\ UNCHANGED asked
  /\ UNCHANGED <<status, deferred, up, chans, chanList, calls, nicks, cached, past>>

\* The timer of the last attempt.  Listeners of earlier attempts stay, so that an
\* answer to any of the JOINs settles the join.
TimesOut(c, stage) == joining' = [joining EXCEPT ![c].stage = stage]
JoinTimeoutReturns(c) ==
  /\ joining[c].stage = "asked"
  /\ \/ /\ status = "connected" /\ c \in chans
        /\ TimesOut(c, "joined") /\ chanList' = chanList \cup {c} /\ UNCHANGED asked
     \/ /\ status = "connected" /\ c \notin chans /\ joining[c].n = MaxAttempts
        /\ TimesOut(c, "failed") /\ UNCHANGED <<chanList, asked>>
     \/ /\ status = "connected" /\ c \notin chans /\ joining[c].n < MaxAttempts
        /\ joining' = [joining EXCEPT ![c].n = @ + 1] /\ Send(c, "JOIN") /\ UNCHANGED chanList
  /\ UNCHANGED <<status, deferred, up, chans, calls, nicks, cached, past>>
JoinTimeoutForEver(c) ==
  /\ joining[c].stage = "asked"
  /\ joining' = [joining EXCEPT ![c].n = @ + 1] /\ Send(c, "JOIN")
  /\ UNCHANGED <<status, deferred, up, chans, chanList, calls, nicks, cached, past>>
JoinTimeout(c) ==
  /\ joining[c].stage = "asked"
  /\ \/ /\ status # "connected"
        /\ TimesOut(c, "failed") /\ UNCHANGED <<chanList, asked>>
     \/ /\ status = "connected" /\ c \in chans
        /\ TimesOut(c, "joined") /\ chanList' = chanList \cup {c} /\ UNCHANGED asked
     \/ /\ status = "connected" /\ c \notin chans /\ joining[c].n = MaxAttempts
        /\ TimesOut(c, "failed") /\ UNCHANGED <<chanList, asked>>
     \/ /\ status = "connected" /\ c \notin chans /\ joining[c].n < MaxAttempts
        /\ joining' = [joining EXCEPT ![c].n = @ + 1] /\ Send(c, "JOIN") /\ UNCHANGED chanList
  /\ UNCHANGED <<status, deferred, up, chans, calls, nicks, cached, past>>

\* The shared promise is settled: the map forgets it and all who wait go on.
Settled(c) ==
  /\ joining[c].stage \in {"joined", "failed"}
  /\ joining' = [joining EXCEPT ![c] = NoJoin]
  /\ calls' = [k \in Calls |->
                 CASE k \in At(c, {"join"}) -> [calls[k] EXCEPT !.pc = joining[c].stage]
                   [] k \in At(c, {"waits"}) -> [calls[k] EXCEPT !.pc = "parting"]
                   [] OTHER -> calls[k]]
  /\ UNCHANGED <<net, nicks, cached, past>>
------------------------------------------------------------------------------
\* What each method does when its channel is joined, or could not be.
JoinEnds(k) ==
  /\ \/ calls[k].pc = "joined" /\ calls[k].op = "join" /\ Goes(k, "ok")
     \/ calls[k].pc = "failed" /\ Goes(k, "error")
  /\ UNCHANGED <<net, joining, nicks, cached, past>>

\* sendMessage: a message that has expired, or whose client is gone, is dropped.
SendMessage(k) ==
  /\ \/ calls[k].pc = "connect" /\ ~deferred /\ Goes(k, "joining")
     \/ calls[k].pc = "joined" /\ calls[k].op = "send" /\ Goes(k, "ok")
  /\ UNCHANGED <<net, joining, nicks, cached, past>>

\* setTopic looks before the join only: without a client it throws after it.
SetTopic(k) ==
  /\ calls[k].op = "topic"
  /\ \/ calls[k].pc = "topic" /\ Goes(k, IF status = "connected" THEN "joining" ELSE "error")
     \/ calls[k].pc = "joined" /\ Goes(k, IF status = "connected" THEN "ok" ELSE "error")
  /\ UNCHANGED <<net, joining, nicks, cached, past>>

\* getOperators: join, ask for the names (for five seconds), leave.
GetOperators(k) ==
  /\ calls[k].op = "ops"
  /\ \/ calls[k].pc = "cache" /\ Goes(k, IF calls[k].chan \in cached THEN "ok" ELSE "joining")
     \/ calls[k].pc = "joined" /\ Goes(k, IF status = "connected" THEN "names" ELSE "error")
     \/ calls[k].pc = "names" /\ up /\ Goes(k, "leaving")
     \/ calls[k].pc = "names" /\ Goes(k, "error")
  /\ UNCHANGED <<net, joining, nicks, cached, past>>
CacheExpires(c) ==
  /\ c \in cached /\ cached' = cached \ {c}
  /\ UNCHANGED <<net, joining, calls, nicks, past>>

\* History: the server has not answered a JOIN that was given up.
Excused(c, ks) ==
  IF Contains(asked[c], "JOIN") THEN [past EXCEPT !.joined = @ \cup ks] ELSE past

\* leaveChannel, after the join it waited for: without a client it throws.
PartIf(k) ==
  LET c == calls[k].chan IN
  IF c \notin chanList THEN Goes(k, "left") /\ UNCHANGED asked
  ELSE IF status = "connected" THEN Goes(k, "part") /\ Send(c, "PART")
  ELSE Goes(k, "error") /\ UNCHANGED asked

LeaveAtOnce(k) ==
  /\ calls[k].pc \in {"leaving", "parting"}
  /\ IF status # "connected" THEN Goes(k, "left") /\ UNCHANGED asked ELSE PartIf(k)
  /\ UNCHANGED <<status, deferred, up, chans, chanList, joining, nicks, cached, past>>
LeaveChannel(k) ==
  LET c == calls[k].chan IN
  /\ \/ /\ calls[k].pc = "leaving" /\ status # "connected"
        /\ Goes(k, "left") /\ UNCHANGED asked
        /\ past' = IF joining[c].stage = "connect"
                   THEN [past EXCEPT !.joined = @ \cup {k}] ELSE past
     \/ /\ calls[k].pc = "leaving" /\ status = "connected" /\ joining[c] # NoJoin
        /\ Goes(k, "waits") /\ UNCHANGED <<asked, past>>
     \/ /\ calls[k].pc = "leaving" /\ status = "connected" /\ joining[c] = NoJoin
        /\ PartIf(k) /\ past' = Excused(c, {k})
     \/ /\ calls[k].pc = "parting" /\ PartIf(k) /\ past' = Excused(c, {k})
  /\ UNCHANGED <<status, deferred, up, chans, chanList, joining, nicks, cached>>

\* leaveChannel returns; getOperators reads the prefixes of the names, for which
\* it may need the client, and caches the result.
LeaveEnds(k) ==
  LET c == calls[k].chan IN
  /\ calls[k].pc = "left"
  /\ \/ Goes(k, "ok") /\ cached' = IF calls[k].op = "ops" THEN cached \cup {c} ELSE cached
     \/ calls[k].op = "ops" /\ status # "connected" /\ Goes(k, "error") /\ UNCHANGED cached
  /\ past' = IF k \in past.joined THEN past
             ELSE [past EXCEPT !.left = @ \cup {c}]
  /\ UNCHANGED <<net, joining, nicks>>
------------------------------------------------------------------------------
\* The server's answers.
Answered(c) == asked' = [asked EXCEPT ![c] = Tail(@)]
Hear(c, stage) ==
  joining' = IF joining[c].stage = "asked" THEN [joining EXCEPT ![c].stage = stage] ELSE joining

Joined(c) ==
  /\ up /\ asked[c] # <<>> /\ Head(asked[c]) = "JOIN"
  /\ chans' = chans \cup {c} /\ chanList' = chanList \cup {c}
  /\ Hear(c, "joined") /\ Answered(c)
  /\ UNCHANGED <<status, deferred, up, calls, nicks, cached, past>>

\* Banned, full, and so on; or nothing that is recognised.
Refused(c) ==
  /\ up /\ asked[c] # <<>> /\ Head(asked[c]) = "JOIN" /\ c \notin chans
  /\ Hear(c, "failed") \/ UNCHANGED joining
  /\ Answered(c)
  /\ UNCHANGED <<status, deferred, up, chans, chanList, calls, nicks, cached, past>>

\* The client's own PART, on which every leaveChannel waits.
Parted(c) ==
  /\ up /\ asked[c] # <<>> /\ Head(asked[c]) = "PART"
  /\ Answered(c)
  /\ past' = Excused(c, At(c, {"part"}))
  /\ IF c \in chans
     THEN /\ chans' = chans \ {c} /\ chanList' = chanList \ {c}
          /\ calls' = [k \in Calls |->
                         IF k \in At(c, {"part"}) THEN [calls[k] EXCEPT !.pc = "left"] ELSE calls[k]]
     ELSE UNCHANGED <<chans, chanList, calls>>
  /\ UNCHANGED <<status, deferred, up, joining, nicks, cached>>

Kicked(c) ==
  /\ up /\ c \in chans
  /\ chans' = chans \ {c} /\ chanList' = chanList \ {c}
  /\ UNCHANGED <<status, deferred, up, asked, joining, calls, nicks, cached, past>>
------------------------------------------------------------------------------
\* changeNick: WHOIS tells whether the nick is taken, then NICK.
Whois(k) ==
  /\ calls[k].pc = "whois"
  /\ \/ status = "connected" /\ Goes(k, "whoissed")
     \/ status # "connected" /\ Goes(k, "error")
  /\ UNCHANGED <<net, joining, nicks, cached, past>>
SendNick(k) ==
  /\ calls[k].pc = "whoissed"
  /\ \/ /\ Goes(k, "error") /\ UNCHANGED nicks    \* taken, timed out, or no client
     \/ /\ status = "connected" /\ Goes(k, "nick")
        /\ listening' = [nick |-> listening.nick \cup {k}, error |-> listening.error \cup {k}]
        /\ pending' = pending \cup {k}
  /\ UNCHANGED <<net, joining, cached, past>>

\* Any change of nick the client is told of, its own or another user's.
NickEvent ==
  /\ up /\ listening.nick # {}
  /\ calls' = All(listening.nick, "ok")
  /\ listening' = [nick |-> {}, error |-> listening.error \ listening.nick]
  /\ pending' = pending \ listening.nick
  /\ UNCHANGED <<net, joining, cached, past>>

\* An error: one about a nick fails whoever listens; another only deafens them.
ErrorEvent ==
  /\ up /\ listening.error # {}
  /\ \/ /\ calls' = All(listening.error, "error")
        /\ listening' = [nick |-> listening.nick \ listening.error, error |-> {}]
     \/ /\ listening' = [listening EXCEPT !.error = {}] /\ UNCHANGED calls
  /\ pending' = pending \ listening.error
  /\ UNCHANGED <<net, joining, cached, past>>

NickTimeoutOnly(k) ==
  /\ calls[k].pc = "nick" /\ Goes(k, "error")
  /\ UNCHANGED <<net, joining, nicks, cached, past>>
NickTimeout(k) ==
  /\ calls[k].pc = "nick" /\ Goes(k, "error")
  /\ listening' = [nick |-> listening.nick \ {k}, error |-> listening.error \ {k}]
  /\ pending' = pending \ {k}
  /\ UNCHANGED <<net, joining, cached, past>>
------------------------------------------------------------------------------
Runs(k) ==
  \/ JoinChannel(k) \/ JoinEnds(k) \/ SendMessage(k) \/ SetTopic(k) \/ GetOperators(k)
  \/ LeaveChannel(k) \/ LeaveEnds(k) \/ Whois(k) \/ SendNick(k) \/ NickTimeout(k)
Answers(c) == Joined(c) \/ Refused(c) \/ Parted(c)

ChannelsNext ==
  \/ \E k \in Calls, op \in Ops, c \in Chans : Call(k, op, c)
  \/ Connect \/ KillClient \/ ConnectionDrops \/ NickEvent \/ ErrorEvent
  \/ \E k \in Calls : Runs(k)
  \/ \E c \in Chans : \/ JoinGoesOn(c) \/ JoinTimeout(c) \/ Settled(c) \/ CacheExpires(c)
                      \/ Answers(c) \/ Kicked(c)

\* Promises settle, timers expire, and the server answers what it is asked.
ChannelsFairness ==
  /\ \A k \in Calls : WF_channelsVars(Runs(k))
  /\ \A c \in Chans : /\ WF_channelsVars(JoinGoesOn(c)) /\ WF_channelsVars(JoinTimeout(c))
                      /\ WF_channelsVars(Settled(c)) /\ WF_channelsVars(Answers(c))
  /\ WF_channelsVars(Connect)

ChannelsSpec == ChannelsInit /\ [][ChannelsNext]_channelsVars /\ ChannelsFairness
------------------------------------------------------------------------------
Pcs == {"idle", "cache", "topic", "connect", "joining", "join", "joined", "failed", "names", "leaving",
        "waits", "parting", "part", "left", "whois", "whoissed", "nick", "ok", "error"}
Stages == {"none", "connect", "asked", "joined", "failed"}

ChannelsTypeOK ==
  /\ status \in {"connecting", "connected", "dead", "killed"}
  /\ deferred \in BOOLEAN /\ up \in BOOLEAN
  /\ chans \subseteq Chans /\ chanList \subseteq Chans /\ cached \subseteq Chans
  /\ joining \in [Chans -> [stage: Stages, n: 0..MaxAttempts]]
  /\ asked \in [Chans -> Seq({"JOIN", "PART"})]
  /\ calls \in [Calls -> [op: Ops \cup {"none"}, chan: Chans \cup {NoChan}, pc: Pcs]]
  /\ listening \in [nick: SUBSET Calls, error: SUBSET Calls] /\ pending \subseteq Calls
  /\ past \in [joined: SUBSET Calls, left: SUBSET Chans]

(***************************************************************************)
(* When leaveChannel has returned, the client is not in the channel until  *)
(* a join is asked for again: also when a join was under way.  Excused are *)
(* a JOIN the server answers after its join was given up, and a call made  *)
(* while a join waits for the client to connect: it returns at once.       *)
(***************************************************************************)
LeftMeansLeft == status = "connected" => chanList \cap past.left = {}

(***************************************************************************)
(* A nick is announced as pending (to ClientPool, which takes it for one   *)
(* of the bridge's own) only while its change is under way, and nothing    *)
(* listens for the change for longer.                                      *)
(***************************************************************************)
NickTidy ==
  /\ listening.nick = {k \in Calls : calls[k].pc = "nick"}
  /\ listening.error \subseteq listening.nick /\ pending = listening.error

(***************************************************************************)
(* Every call is answered, if the client ever connects.  The only wait     *)
(* without a time limit is for the client's own PART: it is in vain if the *)
(* connection is lost, or the client is kicked, before the server reads it.*)
(***************************************************************************)
InVain(k) ==
  \/ status = "dead" /\ deferred
  \/ calls[k].pc = "part" /\ (~up \/ ~Contains(asked[calls[k].chan], "PART"))
EveryCallAnswered ==
  \A k \in Calls : []<>(calls[k].pc \in {"idle", "ok", "error"} \/ InVain(k))
==============================================================================
