-------------------------- MODULE Connections_proofs --------------------------
(***************************************************************************)
(* The connections to IRC behind the bridge: the service that keeps them   *)
(* while the bridge restarts (PoolService), and the names and addresses    *)
(* they are made with (Idents).                                            *)
(***************************************************************************)
EXTENDS PoolService, Idents, SequenceTheorems, FiniteSetTheorems, TLAPS
------------------------------------------------------------------------------
\* PoolService: the two processes and the streams between them, for one client.
Stages == {"free", "opening", "open", "ended"}
SockAsks == {"connect", "ping", "end"}
Replies == {"connected", "disconnected", "not-connected", "error", "poolclosing"}
Askings == {"off", "idle", "look", "ping", "connect", "pinging", "connecting", "up",
            "closing", "found", "awaits ping", "awaits connect"}
Failures == {"error", "not-connected"}

SockTypes ==
  /\ PoolTypeOK
  /\ asking # "off" => missed < MaxMissed

\* The pool's data agree with each other, and so do the bridge's.
SockFacts ==
  /\ ~poolUp => Live = {} /\ held = NoSock /\ fate.untold
  /\ held # NoSock => held \in Socks /\ socks[held] \in {"open", "ended"}
  /\ poolUp /\ listed => \E s \in Socks : socks[s] \in {"open", "ended"}
  /\ asking \in {"up", "closing", "look"} => kept
  /\ asking = "off" => ~kept

Longer(s, t, x) ==
  /\ Len(s) \in Nat /\ Len(t) = Len(s) + 1 /\ t[Len(t)] = x
  /\ \A i \in 1..Len(s) : t[i] = s[i]
Shorter(s, t) ==
  /\ Len(s) \in Nat \ {0} /\ Len(t) = Len(s) - 1
  /\ \A i \in 1..Len(t) : t[i] = s[i + 1]

FailIn(s) == Contains(s, "error") \/ Contains(s, "not-connected")
\* At most one failure and one "connected" are in the stream, in this order; and no
\* failure follows the end of a connection whose beginning is in the stream.
Order(s) ==
  \A i, j \in 1..Len(s) :
    /\ s[i] \in Failures /\ s[j] \in Failures => i = j
    /\ s[i] = "connected" /\ s[j] = "connected" => i = j
    /\ s[i] \in Failures /\ s[j] = "connected" => j < i
    /\ i < j /\ s[i] = "connected" /\ s[j] = "disconnected" =>
         \A k \in 1..Len(s) : j < k => s[k] \notin Failures
Lapsed(s) ==
  \E i, j \in 1..Len(s) : i < j /\ s[i] = "connected" /\ s[j] = "disconnected"
QuietIn(s) ==
  \A i, j \in 1..Len(s) : s[i] = "disconnected" /\ i < j => s[j] \notin Failures

InAt(what) == Contains(inStream, what)
Told(what) == Contains(outbox, what)
Failing == FailIn(outbox)
In(stage) == \E s \in Socks : socks[s] = stage
SockConnects == asking \in {"connecting", "awaits connect"}
Pings == asking \in {"pinging", "awaits ping"}
SockFree == asking = "idle" /\ ~kept
OneIn(s, what) == \A i, j \in 1..Len(s) : s[i] = what /\ s[j] = what => i = j

\* One request is on its way at a time.
OneAsk ==
  /\ \A s \in Socks : socks[s] \in {"open", "ended"} => listed
  /\ \A s, t \in Socks : socks[s] # "free" /\ socks[t] # "free" => s = t
  /\ OneIn(inStream, "connect") /\ OneIn(inStream, "ping")
  /\ InAt("connect") \/ asking = "connect" => \A s \in Socks : socks[s] = "free"
  /\ InAt("connect") \/ In("opening") => SockConnects
  /\ InAt("ping") => Pings

\* What is in the stream of replies tells how far it got.
OneAnswer ==
  /\ In("opening") \/ InAt("connect") \/ InAt("ping") \/ In("open") => ~Failing
  /\ In("opening") \/ InAt("connect") => ~Told("connected")
  /\ Lapsed(outbox) => ~In("open")
  /\ Order(outbox)

\* And what the bridge does agrees with it.
Agreed ==
  /\ asking \in {"look", "ping", "connect"} \/ Pings \/ SockFree => ~In("open") /\ ~Told("connected")
  /\ asking \in {"look", "ping", "connect"} \/ SockFree => ~Failing
  /\ asking \in {"up", "closing", "found", "idle"} =>
       ~Told("connected") /\ QuietIn(outbox) /\ (Told("disconnected") => ~In("open"))

SockSound == ~fate.late => OneAsk /\ OneAnswer /\ Agreed

\* No connection is there, and the bridge was not kept from hearing so.
SockGone == ~In("open") /\ ~In("ended") /\ ~fate.untold
Answered(s) ==
  \A i \in 1..Len(s) : s[i] = "connected" => \E j \in 1..Len(s) : i < j /\ s[j] = "disconnected"
SockAlive ==
  SockGone => /\ Answered(outbox)
              /\ kept /\ asking \in {"up", "closing", "idle"} => Told("disconnected")
              /\ asking = "found" => Told("disconnected")
SockInv == SockTypes /\ SockFacts /\ SockSound /\ SockAlive
------------------------------------------------------------------------------
LEMMA SockTypeFacts ==
  ASSUME SockTypes
  PROVE  /\ poolUp \in BOOLEAN /\ listed \in BOOLEAN /\ kept \in BOOLEAN
         /\ socks \in [Socks -> Stages] /\ held \in Socks \cup {NoSock}
         /\ inStream \in Seq(SockAsks) /\ outbox \in Seq(Replies)
         /\ reading \in [inStream : BOOLEAN, outbox : BOOLEAN]
         /\ missed \in 0..MaxMissed /\ (asking # "off" => missed < MaxMissed)
         /\ asking \in Askings
         /\ fate \in [late : BOOLEAN, untold : BOOLEAN]
  BY DEF SockTypes, PoolTypeOK, Stages, SockAsks, Replies, Askings, Awaits

LEMMA SockTypeParts ==
  ASSUME poolUp' \in BOOLEAN, listed' \in BOOLEAN, kept' \in BOOLEAN,
         socks' \in [Socks -> Stages], held' \in Socks \cup {NoSock},
         inStream' \in Seq(SockAsks), outbox' \in Seq(Replies),
         reading' \in [inStream : BOOLEAN, outbox : BOOLEAN],
         missed' \in 0..MaxMissed, asking' # "off" => missed' < MaxMissed,
         asking' \in Askings, fate' \in [late : BOOLEAN, untold : BOOLEAN]
  PROVE  SockTypes'
  BY DEF SockTypes, PoolTypeOK, Stages, SockAsks, Replies, Askings, Awaits

\* A stream grows at its end and is read from its front.
LEMMA Grown ==
  ASSUME NEW S, NEW s \in Seq(S), NEW x \in S
  PROVE  /\ s \o <<x>> \in Seq(S) /\ Longer(s, s \o <<x>>, x)
         /\ Append(s, x) \in Seq(S) /\ Longer(s, Append(s, x), x)
<1>1. /\ Append(s, x) \in Seq(S) /\ Len(Append(s, x)) = Len(s) + 1
      /\ Append(s, x)[Len(s) + 1] = x
      /\ \A i \in 1..Len(s) : Append(s, x)[i] = s[i]
  BY AppendProperties
<1>2. Append(s, x) = s \o <<x>>
  BY AppendIsConcat
<1> QED
  BY <1>1, <1>2 DEF Longer

LEMMA GrownTwice ==
  ASSUME NEW S, NEW s \in Seq(S), NEW x \in S, NEW y \in S
  PROVE  /\ s \o <<x, y>> \in Seq(S)
         /\ Longer(s, Append(s, x), x) /\ Longer(Append(s, x), s \o <<x, y>>, y)
<1>1. s \o <<x, y>> = Append(Append(s, x), y)
  OBVIOUS
<1>2. Append(s, x) \in Seq(S) /\ Longer(s, Append(s, x), x)
  BY Grown
<1>3. Append(Append(s, x), y) \in Seq(S) /\ Longer(Append(s, x), Append(Append(s, x), y), y)
  BY <1>2, Grown
<1> QED
  BY <1>1, <1>2, <1>3

LEMMA Shrunk ==
  ASSUME NEW S, NEW s \in Seq(S), s # <<>>
  PROVE  /\ Tail(s) \in Seq(S) /\ Shorter(s, Tail(s)) /\ Head(s) \in S /\ Head(s) = s[1]
<1> QED
  BY HeadTailProperties, ElementOfSeq, LenProperties DEF Shorter
LEMMA OutOne ==
  ASSUME outbox \in Seq(Replies), NEW x \in Replies, Out(<<x>>)
  PROVE  outbox' \in Seq(Replies) /\ Longer(outbox, outbox', x)
  BY Grown DEF Out

LEMMA CommandTypes ==
  ASSUME SockTypes, HandleCommand
  PROVE  SockTypes'
<1> USE SockTypeFacts DEF Stages, Replies
<1>1. inStream' \in Seq(SockAsks)
  BY Shrunk DEF HandleCommand
<1>2. outbox' \in Seq(Replies)
  <2>1. CASE Out(<<"disconnected", "not-connected">>)
    BY <2>1, GrownTwice DEF Out
  <2>2. CASE Out(<<"connected">>)
    BY <2>2, OutOne
  <2>3. CASE Out(<<"not-connected">>)
    BY <2>3, OutOne
  <2> QED
    BY <2>1, <2>2, <2>3 DEF HandleCommand, HandleConnect, HandleEnd, HandlePing
<1>3. socks' \in [Socks -> Stages] /\ held' \in Socks \cup {NoSock}
  BY DEF HandleCommand, HandleConnect, HandleEnd, HandlePing, FreeSocket
<1> QED
  BY <1>1, <1>2, <1>3, SockTypeParts DEF HandleCommand

LEMMA PoolTypes ==
  ASSUME SockTypes,
         ReadQueue \/ PoolStops \/ PoolStarts \/ \E s \in Socks : Opens(s) \/ SocketEnds(s) \/ SocketCloses(s)
  PROVE  SockTypes'
<1> USE SockTypeFacts DEF Stages, Replies
<1>1. CASE ReadQueue
  <2>1. reading' \in [inStream : BOOLEAN, outbox : BOOLEAN]
    BY <1>1 DEF ReadQueue, IdleIn, IdleOut, ReadOnIn, ReadOnOut
  <2>2. fate' \in [late : BOOLEAN, untold : BOOLEAN]
    BY <1>1 DEF ReadQueue, IdleIn, IdleOut, ReadOnIn, ReadOnOut
  <2>3. inStream' \in Seq(SockAsks) /\ outbox' \in Seq(Replies)
    <3>1. inStream' \in {inStream, <<>>} /\ outbox' \in {outbox, <<>>}
      BY <1>1 DEF ReadQueue, IdleIn, IdleOut, ReadOnIn, ReadOnOut
    <3> QED
      BY <3>1, EmptySeq
  <2> QED
    BY <1>1, <2>1, <2>2, <2>3, SockTypeParts DEF ReadQueue, sockPool
<1>2. CASE PoolStops
  <2>1. outbox' \in Seq(Replies)
    BY <1>2, OutOne DEF PoolStops
  <2> QED
    BY <1>2, <2>1, SockTypeParts DEF PoolStops
<1>3. CASE PoolStarts
  <2>1. reading' \in [inStream : BOOLEAN, outbox : BOOLEAN] /\ fate' \in [late : BOOLEAN, untold : BOOLEAN]
    BY <1>3 DEF PoolStarts
  <2> QED
    BY <1>3, <2>1, SockTypeParts, EmptySeq DEF PoolStarts
<1>4. ASSUME NEW s \in Socks, Opens(s)
      PROVE  SockTypes'
  <2>1. outbox' \in Seq(Replies)
    BY <1>4, OutOne DEF Opens
  <2> QED
    BY <1>4, <2>1, SockTypeParts DEF Opens
<1>5. ASSUME NEW s \in Socks, SocketEnds(s)
      PROVE  SockTypes'
  <2>1. outbox' \in Seq(Replies)
    BY <1>5, OutOne DEF SocketEnds
  <2> QED
    BY <1>5, <2>1, SockTypeParts DEF SocketEnds
<1>6. ASSUME NEW s \in Socks, SocketCloses(s)
      PROVE  SockTypes'
  <2>1. outbox' \in Seq(Replies)
    BY <1>6, OutOne DEF SocketCloses
  <2> QED
    BY <1>6, <2>1, SockTypeParts DEF SocketCloses
<1> QED
  BY <1>1, <1>2, <1>3, <1>4, <1>5, <1>6

BridgeSteps ==
  \/ Request \/ Look \/ SendCommand \/ Sent \/ ConnectTimeout \/ Close \/ CloseTimeout
  \/ CheckHeartbeat \/ BridgeStops \/ BridgeStarts \/ Discovered

LEMMA BridgeTypes ==
  ASSUME SockTypes, BridgeSteps
  PROVE  SockTypes'
<1> USE SockTypeFacts, PoolServiceAssumption
<1>1. CASE Request \/ Look \/ Sent \/ CloseTimeout \/ Discovered
  BY <1>1, SockTypeParts DEF Request, Look, Sent, CloseTimeout, Discovered, sockPool, Askings
<1>2. CASE SendCommand
  BY <1>2, Grown, SockTypeParts DEF SendCommand, sockPool, Askings, SockAsks
<1>3. CASE Close
  BY <1>3, Grown, SockTypeParts DEF Close, sockPool, Askings, SockAsks
<1>4. CASE ConnectTimeout \/ BridgeStops
  <2>1. fate' \in [late : BOOLEAN, untold : BOOLEAN]
    BY <1>4 DEF ConnectTimeout, BridgeStops, GivesUp
  <2> QED
    BY <1>4, <2>1, SockTypeParts DEF ConnectTimeout, BridgeStops, sockPool, Askings, Awaits
<1>5. CASE CheckHeartbeat
  <2>1. fate' \in [late : BOOLEAN, untold : BOOLEAN]
    BY <1>5 DEF CheckHeartbeat, GivesUp
  <2>2. missed' \in 0..MaxMissed /\ (asking' # "off" => missed' < MaxMissed)
    BY <1>5 DEF CheckHeartbeat
  <2> QED
    BY <1>5, <2>1, <2>2, SockTypeParts DEF CheckHeartbeat, sockPool, Askings
<1>6. CASE BridgeStarts
  <2>1. reading' \in [inStream : BOOLEAN, outbox : BOOLEAN] /\ fate' \in [late : BOOLEAN, untold : BOOLEAN]
    BY <1>6 DEF BridgeStarts
  <2> QED
    <3>1. outbox' \in Seq(Replies) /\ asking' \in Askings /\ missed' \in 0..MaxMissed /\ missed' < MaxMissed
      BY <1>6, EmptySeq DEF BridgeStarts, Askings
    <3>2. UNCHANGED <<poolUp, socks, held, listed, inStream, kept>>
      BY <1>6 DEF BridgeStarts, sockPool
    <3> QED
      BY <2>1, <3>1, <3>2, SockTypeParts
<1> QED
  BY <1>1, <1>2, <1>3, <1>4, <1>5, <1>6 DEF BridgeSteps

LEMMA ReplyTypes ==
  ASSUME SockTypes, HandleReply
  PROVE  SockTypes'
<1> USE SockTypeFacts
<1>1. outbox' \in Seq(Replies)
  BY Shrunk DEF HandleReply
<1>2. kept' \in BOOLEAN /\ asking' \in Askings /\ asking # "off"
  BY DEF HandleReply, OnConnected, OnDisconnected, OnFailure, Askings, Awaits
<1>3. fate' \in [late : BOOLEAN, untold : BOOLEAN]
  BY DEF HandleReply, GivesUp
<1> QED
  BY <1>1, <1>2, <1>3, SockTypeParts DEF HandleReply, sockPool

LEMMA SockTypesKept ==
  ASSUME SockTypes, [PoolNext]_poolVars
  PROVE  SockTypes'
<1>1. CASE UNCHANGED poolVars
  BY <1>1, SockTypeFacts, SockTypeParts DEF poolVars, sockPool
<1> QED
  BY <1>1, CommandTypes, PoolTypes, BridgeTypes, ReplyTypes DEF PoolNext, BridgeSteps

LEMMA SockFactsKept ==
  ASSUME SockTypes, SockFacts, [PoolNext]_poolVars
  PROVE  SockFacts'
<1> USE SockTypeFacts, PoolServiceAssumption DEF Stages
<1>1. CASE UNCHANGED poolVars
  BY <1>1 DEF SockFacts, Live, poolVars, sockPool
<1>2. CASE ReadQueue
  BY <1>2 DEF SockFacts, Live, ReadQueue, IdleIn, IdleOut, ReadOnIn, ReadOnOut, sockPool
<1>3. CASE HandleCommand
  BY <1>3 DEF SockFacts, Live, FreeSocket, HandleCommand, HandleConnect, HandleEnd, HandlePing
<1>4. CASE PoolStops
  BY <1>4 DEF SockFacts, Live, PoolStops
<1>5. CASE PoolStarts
  BY <1>5 DEF SockFacts, Live, PoolStarts
<1>6. ASSUME NEW s \in Socks, Opens(s)
      PROVE  SockFacts'
  BY <1>6 DEF SockFacts, Live, Opens
<1>7. ASSUME NEW s \in Socks, SocketEnds(s)
      PROVE  SockFacts'
  BY <1>7 DEF SockFacts, Live, SocketEnds
<1>8. ASSUME NEW s \in Socks, SocketCloses(s)
      PROVE  SockFacts'
  BY <1>8 DEF SockFacts, Live, SocketCloses
<1>9. CASE Request \/ Look \/ Sent \/ CloseTimeout \/ Discovered
  <2>1. CASE Request
    BY <2>1 DEF SockFacts, Live, Request, sockPool
  <2>2. CASE Look
    BY <2>2 DEF SockFacts, Live, Look, sockPool
  <2>3. CASE Sent
    BY <2>3 DEF SockFacts, Live, Sent, sockPool
  <2>4. CASE CloseTimeout
    BY <2>4 DEF SockFacts, Live, CloseTimeout, sockPool
  <2>5. CASE Discovered
    BY <2>5 DEF SockFacts, Live, Discovered, sockPool
  <2> QED
    BY <1>9, <2>1, <2>2, <2>3, <2>4, <2>5
<1>10. CASE SendCommand \/ Close
  BY <1>10 DEF SockFacts, Live, SendCommand, Close, sockPool
<1>11. CASE ConnectTimeout \/ BridgeStops
  <2>1. UNCHANGED sockPool /\ fate'.untold = fate.untold
    BY <1>11 DEF ConnectTimeout, BridgeStops, GivesUp
  <2> QED
    BY <1>11, <2>1 DEF SockFacts, Live, ConnectTimeout, BridgeStops, sockPool
<1>12. CASE CheckHeartbeat
  BY <1>12 DEF SockFacts, Live, CheckHeartbeat, GivesUp, sockPool
<1>13. CASE BridgeStarts
  BY <1>13 DEF SockFacts, Live, BridgeStarts, sockPool
<1>14. CASE HandleReply
  <2>1. UNCHANGED sockPool /\ (fate.untold => fate'.untold)
    BY <1>14 DEF HandleReply, GivesUp
  <2>2. /\ asking' \in {"up", "closing", "look"} => kept'
        /\ asking' = "off" => ~kept'
    <3>1. asking \in {"up", "closing", "look"} => kept
      BY DEF SockFacts
    <3>2. asking # "off" /\ asking # "look"
      BY <1>14 DEF HandleReply
    <3>3. CASE OnConnected
      BY <3>1, <3>2, <3>3 DEF OnConnected, Awaits
    <3>4. CASE OnDisconnected
      BY <3>1, <3>2, <3>4 DEF OnDisconnected, Awaits
    <3>5. ASSUME NEW e, OnFailure(e)
          PROVE  /\ asking' \in {"up", "closing", "look"} => kept'
                 /\ asking' = "off" => ~kept'
      BY <3>1, <3>2, <3>5 DEF OnFailure, Awaits
    <3>6. CASE asking' = "off" /\ kept' = FALSE
      BY <3>6
    <3> QED
      BY <1>14, <3>3, <3>4, <3>5, <3>6 DEF HandleReply
  <2> QED
    BY <2>1, <2>2 DEF SockFacts, Live, sockPool
<1> QED
  BY <1>1, <1>2, <1>3, <1>4, <1>5, <1>6, <1>7, <1>8, <1>9, <1>10, <1>11, <1>12, <1>13, <1>14 DEF PoolNext

LEMMA LongerStream ==
  ASSUME NEW s, NEW t, NEW x, Longer(s, t, x)
  PROVE  /\ \A w : Contains(t, w) <=> Contains(s, w) \/ w = x
         /\ \A w : OneIn(s, w) /\ (x = w => ~Contains(s, w)) => OneIn(t, w)
         /\ Lapsed(t) => Lapsed(s) \/ (x = "disconnected" /\ Contains(s, "connected"))
         /\ QuietIn(s) /\ (x \in Failures => ~Contains(s, "disconnected")) => QuietIn(t)
<1>1. /\ Len(s) \in Nat /\ Len(t) = Len(s) + 1 /\ t[Len(s) + 1] = x
      /\ \A i \in 1..Len(s) : t[i] = s[i]
  BY DEF Longer
<1>2. \A w : Contains(t, w) <=> Contains(s, w) \/ w = x
  BY <1>1 DEF Contains
<1>3. \A w : OneIn(s, w) /\ (x = w => ~Contains(s, w)) => OneIn(t, w)
  BY <1>1 DEF Contains, OneIn
<1>4. Lapsed(t) => Lapsed(s) \/ (x = "disconnected" /\ Contains(s, "connected"))
  BY <1>1 DEF Contains, Lapsed
<1>5. QuietIn(s) /\ (x \in Failures => ~Contains(s, "disconnected")) => QuietIn(t)
  BY <1>1 DEF Contains, QuietIn
<1> QED
  BY <1>2, <1>3, <1>4, <1>5

LEMMA LongerOrder ==
  ASSUME NEW s, NEW t, NEW x, Longer(s, t, x), Order(s),
         x \in Failures => ~FailIn(s) /\ ~Lapsed(s),
         x = "connected" => ~FailIn(s) /\ ~Contains(s, "connected")
  PROVE  Order(t)
<1>1. /\ Len(s) \in Nat /\ Len(t) = Len(s) + 1 /\ t[Len(s) + 1] = x
      /\ \A i \in 1..Len(s) : t[i] = s[i]
  BY DEF Longer
<1>2. x \in Failures => \A i \in 1..Len(s) : s[i] \notin Failures
  BY DEF FailIn, Failures, Contains
<1>3. x = "connected" => \A i \in 1..Len(s) : s[i] \notin Failures /\ s[i] # "connected"
  BY DEF FailIn, Failures, Contains
<1>4. \A i, j \in 1..Len(t) : t[i] \in Failures /\ t[j] \in Failures => i = j
  BY <1>1, <1>2 DEF Order
<1>5. \A i, j \in 1..Len(t) : t[i] = "connected" /\ t[j] = "connected" => i = j
  BY <1>1, <1>3 DEF Order
<1>6. \A i, j \in 1..Len(t) : t[i] \in Failures /\ t[j] = "connected" => j < i
  BY <1>1, <1>2, <1>3 DEF Order, Failures
<1>7. ASSUME NEW i \in 1..Len(t), NEW j \in 1..Len(t), NEW k \in 1..Len(t),
             i < j, t[i] = "connected", t[j] = "disconnected", j < k
      PROVE  t[k] \notin Failures
  <2>1. i \in 1..Len(s) /\ j \in 1..Len(s)
    BY <1>1, <1>7
  <2>2. CASE k \in 1..Len(s)
    BY <1>1, <1>7, <2>1, <2>2 DEF Order
  <2>3. CASE k = Len(s) + 1
    BY <1>1, <1>7, <2>1, <2>3 DEF Lapsed
  <2> QED
    BY <1>1, <2>2, <2>3
<1> QED
  BY <1>4, <1>5, <1>6, <1>7 DEF Order

LEMMA ShorterStream ==
  ASSUME NEW s, NEW t, Shorter(s, t)
  PROVE  /\ \A w : Contains(t, w) => Contains(s, w)
         /\ \A w : Contains(s, w) => Contains(t, w) \/ w = s[1]
         /\ \A w : OneIn(s, w) => OneIn(t, w)
         /\ Lapsed(t) => Lapsed(s)
         /\ QuietIn(s) => QuietIn(t)
         /\ Contains(s, s[1])
         /\ \A w : OneIn(s, w) /\ s[1] = w => ~Contains(t, w)
         /\ s[1] = "connected" /\ Contains(t, "disconnected") => Lapsed(s)
         /\ s[1] = "disconnected" /\ QuietIn(s) => ~FailIn(t)
<1>1. /\ Len(s) \in Nat \ {0} /\ Len(t) = Len(s) - 1
      /\ \A i \in 1..Len(t) : t[i] = s[i + 1]
  BY DEF Shorter
<1>2. \A i \in 1..Len(t) : i + 1 \in 2..Len(s)
  BY <1>1
<1>3. \A w : Contains(t, w) => Contains(s, w)
  BY <1>1 DEF Contains
<1>4. ASSUME NEW w, Contains(s, w)
      PROVE  Contains(t, w) \/ w = s[1]
  <2>1. PICK i \in 1..Len(s) : s[i] = w
    BY <1>4 DEF Contains
  <2>2. CASE i # 1
    <3>1. i - 1 \in 1..Len(t) /\ t[i - 1] = w
      BY <1>1, <2>1, <2>2
    <3> QED
      BY <3>1 DEF Contains
  <2> QED
    BY <2>1, <2>2
<1>5. ASSUME NEW w, OneIn(s, w)
      PROVE  OneIn(t, w) /\ (s[1] = w => ~Contains(t, w))
  BY <1>1, <1>2, <1>5 DEF OneIn, Contains
<1>6. Lapsed(t) => Lapsed(s)
  <2>1. SUFFICES ASSUME NEW i \in 1..Len(t), NEW j \in 1..Len(t),
                        i < j, t[i] = "connected", t[j] = "disconnected"
                 PROVE  Lapsed(s)
    BY DEF Lapsed
  <2>2. i + 1 \in 1..Len(s) /\ j + 1 \in 1..Len(s) /\ i + 1 < j + 1
    BY <1>1, <2>1
  <2> QED
    BY <1>1, <2>1, <2>2 DEF Lapsed
<1>7. QuietIn(s) => QuietIn(t)
  BY <1>1, <1>2 DEF QuietIn
<1>8. Contains(s, s[1])
  BY <1>1 DEF Contains
<1>9. ASSUME s[1] = "connected", Contains(t, "disconnected")
      PROVE  Lapsed(s)
  <2>1. PICK j \in 1..Len(t) : t[j] = "disconnected"
    BY <1>9 DEF Contains
  <2>2. 1 \in 1..Len(s) /\ j + 1 \in 1..Len(s) /\ 1 < j + 1 /\ s[j + 1] = "disconnected"
    BY <1>1, <2>1
  <2> QED
    BY <1>9, <2>2 DEF Lapsed
<1>10. s[1] = "disconnected" /\ QuietIn(s) => ~FailIn(t)
  <2>1. SUFFICES ASSUME s[1] = "disconnected", QuietIn(s), NEW j \in 1..Len(t), t[j] \in Failures
                 PROVE  FALSE
    BY DEF FailIn, Contains, Failures
  <2>2. 1 \in 1..Len(s) /\ j + 1 \in 1..Len(s) /\ 1 < j + 1 /\ s[j + 1] \in Failures
    BY <1>1, <2>1
  <2> QED
    BY <2>1, <2>2 DEF QuietIn
<1> QED
  BY <1>3, <1>4, <1>5, <1>6, <1>7, <1>8, <1>9, <1>10

LEMMA ShorterOrder ==
  ASSUME NEW s, NEW t, Shorter(s, t), Order(s)
  PROVE  /\ Order(t)
         /\ s[1] = "connected" => QuietIn(t) /\ ~Contains(t, "connected")
         /\ s[1] \in Failures => ~FailIn(t) /\ ~Contains(t, "connected")
<1>1. /\ Len(s) \in Nat \ {0} /\ Len(t) = Len(s) - 1
      /\ \A i \in 1..Len(t) : t[i] = s[i + 1]
  BY DEF Shorter
<1>2. \A i \in 1..Len(t) : i + 1 \in 1..Len(s) /\ 1 < i + 1
  BY <1>1
<1>3. Order(t)
  <2>1. \A i, j \in 1..Len(t) :
          /\ t[i] \in Failures /\ t[j] \in Failures => i = j
          /\ t[i] = "connected" /\ t[j] = "connected" => i = j
          /\ t[i] \in Failures /\ t[j] = "connected" => j < i
    BY <1>1, <1>2 DEF Order
  <2>2. ASSUME NEW i \in 1..Len(t), NEW j \in 1..Len(t), NEW k \in 1..Len(t),
               i < j, t[i] = "connected", t[j] = "disconnected", j < k
        PROVE  t[k] \notin Failures
    <3>1. i + 1 < j + 1 /\ j + 1 < k + 1
      BY <1>1, <2>2
    <3> QED
      BY <1>1, <1>2, <2>2, <3>1 DEF Order
  <2> QED
    BY <2>1, <2>2 DEF Order
<1>4. s[1] = "connected" => QuietIn(t)
  <2>1. SUFFICES ASSUME s[1] = "connected", NEW i \in 1..Len(t), NEW j \in 1..Len(t),
                        t[i] = "disconnected", i < j
                 PROVE  t[j] \notin Failures
    BY DEF QuietIn
  <2>2. 1 \in 1..Len(s) /\ i + 1 < j + 1
    BY <1>1, <2>1
  <2> QED
    BY <1>1, <1>2, <2>1, <2>2 DEF Order
<1>5. s[1] = "connected" => ~Contains(t, "connected")
  BY <1>1, <1>2 DEF Order, Contains
<1>6. s[1] \in Failures => \A i \in 1..Len(t) : t[i] \notin Failures /\ t[i] # "connected"
  BY <1>1, <1>2 DEF Order
<1> QED
  BY <1>3, <1>4, <1>5, <1>6 DEF FailIn, Contains, Failures

LEMMA EmptyStream ==
  /\ \A w : ~Contains(<<>>, w) /\ OneIn(<<>>, w)
  /\ Order(<<>>) /\ ~Lapsed(<<>>) /\ QuietIn(<<>>) /\ ~FailIn(<<>>)
  BY DEF Contains, OneIn, Order, Lapsed, QuietIn, FailIn

------------------------------------------------------------------------------
\* What the parts of SockSound depend on.
LEMMA SoundSame ==
  ASSUME SockSound, UNCHANGED <<socks, listed, inStream, outbox, asking, kept, fate>>
  PROVE  SockSound'
  BY DEF SockSound, OneAsk, OneAnswer, Agreed, In, InAt, Told, Failing, SockConnects, Pings, SockFree

LEMMA SoundReadQueue ==
  ASSUME SockTypes, SockSound, ReadQueue
  PROVE  SockSound'
<1>1. /\ UNCHANGED <<socks, listed, asking, kept>>
      /\ inStream' \in {inStream, <<>>} /\ outbox' \in {outbox, <<>>}
      /\ fate'.late = fate.late
  BY SockTypeFacts DEF ReadQueue, IdleIn, IdleOut, ReadOnIn, ReadOnOut, sockPool
<1>2. CASE fate.late
  BY <1>1, <1>2 DEF SockSound
<1>3. CASE ~fate.late
  <2>1. /\ \A w : Contains(inStream', w) => Contains(inStream, w)
        /\ \A w : OneIn(inStream, w) => OneIn(inStream', w)
    BY <1>1, EmptyStream
  <2>2. /\ \A w : Contains(outbox', w) => Contains(outbox, w)
        /\ Order(outbox) => Order(outbox')
        /\ Lapsed(outbox') => Lapsed(outbox)
        /\ QuietIn(outbox) => QuietIn(outbox')
    BY <1>1, EmptyStream
  <2>3. OneAsk'
    BY <1>1, <1>3, <2>1 DEF SockSound, OneAsk, In, InAt, SockConnects, Pings
  <2>4. OneAnswer'
    BY <1>1, <1>3, <2>1, <2>2 DEF SockSound, OneAnswer, In, InAt, Told, Failing, FailIn
  <2>5. Agreed'
    BY <1>1, <1>3, <2>2 DEF SockSound, Agreed, In, Told, Failing, FailIn, Pings, SockFree
  <2> QED
    BY <2>3, <2>4, <2>5 DEF SockSound
<1> QED
  BY <1>2, <1>3

LEMMA SoundCommand ==
  ASSUME SockTypes, SockFacts, SockSound, HandleCommand
  PROVE  SockSound'
<1>1. /\ UNCHANGED <<poolUp, listed, asking, kept, fate>> /\ Shorter(inStream, inStream')
      /\ Head(inStream) = inStream[1] /\ Contains(inStream, inStream[1])
  BY SockTypeFacts, Shrunk, ShorterStream DEF HandleCommand
<1>2. CASE fate.late
  BY <1>1, <1>2 DEF SockSound
<1>3. CASE ~fate.late
  <2>1. OneAsk /\ OneAnswer /\ Agreed
    BY <1>3 DEF SockSound
  <2>2. /\ \A w : Contains(inStream', w) => Contains(inStream, w)
        /\ \A w : OneIn(inStream, w) => OneIn(inStream', w)
        /\ \A w : OneIn(inStream, w) /\ inStream[1] = w => ~Contains(inStream', w)
    BY <1>1, ShorterStream
  <2>3. CASE HandleConnect
    <3>1. /\ InAt("connect") /\ SockConnects /\ outbox' = outbox /\ ~InAt("connect")'
          /\ ~Failing /\ ~Told("connected")
      BY <1>1, <2>1, <2>2, <2>3 DEF HandleConnect, OneAsk, OneAnswer, InAt
    <3>2. PICK s \in Socks : socks' = [socks EXCEPT ![s] = "opening"]
      BY <2>3 DEF HandleConnect, FreeSocket
    <3>3. \A t \in Socks : socks[t] = "free"
      BY <2>1, <3>1 DEF OneAsk
    <3>4. socks'[s] = "opening" /\ \A t \in Socks : t # s => socks'[t] = "free"
      BY <3>2, <3>3, SockTypeFacts
    <3>5. OneAsk'
      BY <1>1, <2>1, <2>2, <3>1, <3>4 DEF OneAsk, In, InAt, SockConnects, Pings
    <3>6. ~In("open")'
      BY <3>4 DEF In
    <3>7. OneAnswer'
      BY <2>1, <3>1, <3>6 DEF OneAnswer, Told, Failing
    <3>8. Agreed'
      BY <1>1, <2>1, <3>1, <3>6 DEF Agreed, SockConnects, Pings, SockFree, Told, Failing
    <3> QED
      BY <3>5, <3>7, <3>8 DEF SockSound
  <2>4. CASE HandleEnd
    <3>1. /\ outbox' = outbox
          /\ \A s \in Socks : \/ socks'[s] = socks[s]
                              \/ socks[s] \in {"open", "ended"} /\ socks'[s] = "ended"
      BY <2>4, SockTypeFacts DEF HandleEnd, SockFacts
    <3>2. OneAsk'
      BY <1>1, <2>1, <2>2, <3>1 DEF OneAsk, In, InAt, SockConnects, Pings
    <3>3. /\ In("open")' => In("open")
          /\ In("opening")' => In("opening")
          /\ \A w : InAt(w)' => InAt(w)
      BY <2>2, <3>1 DEF In, InAt
    <3>4. OneAnswer'
      BY <2>1, <3>1, <3>3 DEF OneAnswer, Told, Failing
    <3>5. Agreed'
      BY <1>1, <2>1, <3>1, <3>3 DEF Agreed, Pings, SockFree, Told, Failing
    <3> QED
      BY <3>2, <3>4, <3>5 DEF SockSound
  <2>5. CASE HandlePing
    <3>1. /\ InAt("ping") /\ Pings /\ UNCHANGED socks /\ ~InAt("ping")'
          /\ ~Failing /\ ~Told("connected") /\ ~In("open") /\ ~InAt("connect") /\ ~In("opening")
      BY <1>1, <2>1, <2>2, <2>5 DEF HandlePing, OneAsk, OneAnswer, Agreed, InAt, SockConnects, Pings
    <3>2. OneAsk'
      BY <1>1, <2>1, <2>2, <3>1 DEF OneAsk, In, InAt, SockConnects, Pings
    <3>3. ~Lapsed(outbox)
      BY <3>1 DEF Lapsed, Told, Contains
    <3>4. Order(outbox') /\ ~Contains(outbox', "connected")
      <4>1. CASE Out(<<"not-connected">>)
        <5>1. Longer(outbox, outbox', "not-connected")
          BY <4>1, SockTypeFacts, OutOne DEF Replies
        <5> QED
          BY <2>1, <3>1, <3>3, <5>1, LongerOrder, LongerStream DEF OneAnswer, Told, Failing
      <4>2. CASE Out(<<"disconnected", "not-connected">>)
        <5> DEFINE mid == Append(outbox, "disconnected")
        <5>1. Longer(outbox, mid, "disconnected") /\ Longer(mid, outbox', "not-connected")
          <6>1. /\ outbox \in Seq(Replies) /\ "disconnected" \in Replies /\ "not-connected" \in Replies
                /\ outbox' = outbox \o <<"disconnected", "not-connected">>
            BY <4>2, SockTypeFacts DEF Out, Replies
          <6> QED
            BY <6>1, GrownTwice
        <5> HIDE DEF mid
        <5>2. Order(mid)
          BY <2>1, <5>1, LongerOrder DEF OneAnswer, Failures
        <5>3. ~FailIn(mid) /\ ~Contains(mid, "connected") /\ ~Lapsed(mid)
          BY <3>1, <3>3, <5>1, LongerStream DEF Failing, FailIn, Told
        <5> QED
          BY <5>1, <5>2, <5>3, LongerOrder, LongerStream
      <4>3. ~(held # NoSock /\ socks[held] = "open")
        BY <3>1 DEF SockFacts, In
      <4> QED
        BY <2>5, <4>1, <4>2, <4>3 DEF HandlePing
    <3>5. ~In("open")' /\ ~In("opening")' /\ ~InAt("connect")'
      BY <2>2, <3>1 DEF In, InAt
    <3>6. OneAnswer'
      BY <3>1, <3>4, <3>5 DEF OneAnswer
    <3>7. Agreed'
      BY <1>1, <3>1, <3>4, <3>5 DEF Agreed, Pings, SockFree, Told
    <3> QED
      BY <3>2, <3>6, <3>7 DEF SockSound
  <2> QED
    BY <2>3, <2>4, <2>5 DEF HandleCommand
<1> QED
  BY <1>2, <1>3

LEMMA SoundPoolStops ==
  ASSUME SockTypes, SockSound, PoolStops
  PROVE  SockSound'
<1>1. /\ UNCHANGED <<listed, inStream, asking, kept>>
      /\ fate'.late = fate.late /\ \A s \in Socks : socks'[s] = "free"
  BY SockTypeFacts DEF PoolStops
<1>2. CASE fate.late
  BY <1>1, <1>2 DEF SockSound
<1>3. CASE ~fate.late
  <2>1. outbox' = outbox \/ Longer(outbox, outbox', "poolclosing")
    BY SockTypeFacts, OutOne DEF PoolStops, Replies
  <2>2. /\ \A w : Contains(outbox', w) => Contains(outbox, w) \/ w = "poolclosing"
        /\ Order(outbox) => Order(outbox')
        /\ QuietIn(outbox) => QuietIn(outbox')
    BY <2>1, LongerStream, LongerOrder DEF Failures
  <2>3. ~In("open")' /\ ~In("opening")'
    BY <1>1 DEF In
  <2>4. OneAsk'
    BY <1>1, <1>3 DEF SockSound, OneAsk, In, InAt, SockConnects, Pings
  <2>5. OneAnswer'
    BY <1>1, <1>3, <2>2, <2>3 DEF SockSound, OneAnswer, InAt, Told, Failing, FailIn
  <2>6. Agreed'
    BY <1>1, <1>3, <2>2, <2>3 DEF SockSound, Agreed, Told, Failing, FailIn, Pings, SockFree
  <2> QED
    BY <2>4, <2>5, <2>6 DEF SockSound
<1> QED
  BY <1>2, <1>3

LEMMA SoundPoolStarts ==
  ASSUME SockTypes, SockFacts, SockSound, PoolStarts
  PROVE  SockSound'
<1>1. /\ inStream' = <<>> /\ outbox' = <<>> /\ UNCHANGED socks
      /\ \A s \in Socks : socks[s] = "free"
  BY DEF PoolStarts, SockFacts, Live
<1> QED
  BY <1>1, EmptyStream DEF SockSound, OneAsk, OneAnswer, Agreed, In, InAt, Told, Failing

LEMMA SoundOpens ==
  ASSUME SockTypes, SockSound, NEW s \in Socks, Opens(s)
  PROVE  SockSound'
<1>1. /\ UNCHANGED <<inStream, asking, kept, fate>> /\ socks[s] = "opening"
      /\ \A t \in Socks : t # s => socks'[t] = socks[t]
  BY SockTypeFacts DEF Opens
<1>2. CASE fate.late
  BY <1>1, <1>2 DEF SockSound
<1>3. CASE ~fate.late
  <2>1. OneAsk /\ OneAnswer /\ Agreed
    BY <1>3 DEF SockSound
  <2>2. \A t \in Socks : t # s => socks[t] = "free" /\ socks'[t] = "free"
    BY <1>1, <2>1 DEF OneAsk
  <2>3. /\ SockConnects /\ ~InAt("connect") /\ ~InAt("ping") /\ ~Failing /\ ~Told("connected")
    BY <1>1, <2>1 DEF OneAsk, OneAnswer, In, SockConnects, Pings
  <2>4. ~Lapsed(outbox)
    BY <2>3 DEF Lapsed, Told, Contains
  <2>5. CASE socks' = [socks EXCEPT ![s] = "open"] /\ listed' = TRUE /\ Out(<<"connected">>)
    <3>1. socks'[s] = "open"
      BY <2>5, SockTypeFacts
    <3>2. Longer(outbox, outbox', "connected")
      BY <2>5, SockTypeFacts, OutOne DEF Replies
    <3>3. OneAsk'
      BY <1>1, <2>1, <2>2, <2>3, <2>5, <3>1 DEF OneAsk, In, InAt, SockConnects, Pings
    <3>4. Order(outbox') /\ ~Lapsed(outbox') /\ ~FailIn(outbox')
      BY <2>1, <2>3, <2>4, <3>2, LongerOrder, LongerStream DEF OneAnswer, Told, Failing, FailIn, Failures
    <3>5. ~In("opening")'
      BY <2>2, <3>1 DEF In
    <3>6. OneAnswer'
      BY <1>1, <2>3, <3>4, <3>5 DEF OneAnswer, InAt, Failing
    <3>7. Agreed'
      BY <1>1, <2>3 DEF Agreed, SockConnects, Pings, SockFree
    <3> QED
      BY <3>3, <3>6, <3>7 DEF SockSound
  <2>6. CASE socks' = [socks EXCEPT ![s] = "free"] /\ Out(<<"error">>) /\ UNCHANGED listed
    <3>1. \A t \in Socks : socks'[t] = "free"
      BY <2>2, <2>6, SockTypeFacts
    <3>2. Longer(outbox, outbox', "error")
      BY <2>6, SockTypeFacts, OutOne DEF Replies
    <3>3. OneAsk'
      BY <1>1, <2>1, <2>3, <2>6, <3>1 DEF OneAsk, In, InAt, SockConnects, Pings
    <3>4. Order(outbox')
      BY <2>1, <2>3, <2>4, <3>2, LongerOrder DEF OneAnswer, Told, Failing
    <3>5. ~In("opening")' /\ ~In("open")'
      BY <3>1 DEF In
    <3>6. OneAnswer'
      BY <1>1, <2>3, <3>4, <3>5 DEF OneAnswer, InAt
    <3>7. Agreed'
      BY <1>1, <2>3 DEF Agreed, SockConnects, Pings, SockFree
    <3> QED
      BY <3>3, <3>6, <3>7 DEF SockSound
  <2> QED
    BY <2>5, <2>6 DEF Opens
<1> QED
  BY <1>2, <1>3

LEMMA SoundSocketEnds ==
  ASSUME SockTypes, SockSound, NEW s \in Socks, SocketEnds(s)
  PROVE  SockSound'
<1>1. /\ UNCHANGED <<listed, inStream, asking, kept, fate>> /\ socks[s] = "open" /\ socks'[s] = "ended"
      /\ \A t \in Socks : t # s => socks'[t] = socks[t]
  BY SockTypeFacts DEF SocketEnds
<1>2. CASE fate.late
  BY <1>1, <1>2 DEF SockSound
<1>3. CASE ~fate.late
  <2>1. OneAsk /\ OneAnswer /\ Agreed
    BY <1>3 DEF SockSound
  <2>2. \A t \in Socks : t # s => socks[t] = "free" /\ socks'[t] = "free"
    BY <1>1, <2>1 DEF OneAsk
  <2>3. ~In("open")' /\ ~In("opening")'
    BY <1>1, <2>2 DEF In
  <2>4. ~InAt("connect") /\ ~InAt("ping") /\ ~Failing /\ ~Lapsed(outbox)
    <3>1. In("open") /\ ~(\A t \in Socks : socks[t] = "free")
      BY <1>1 DEF In
    <3> QED
      BY <2>1, <3>1 DEF OneAsk, OneAnswer, Agreed
  <2>5. ~(asking \in {"look", "ping", "connect"} \/ Pings \/ SockFree)
    BY <1>1, <2>1 DEF Agreed, In
  <2>6. outbox' = outbox \/ Longer(outbox, outbox', "error")
    BY SockTypeFacts, OutOne DEF SocketEnds, Replies
  <2>7. Order(outbox') /\ (Told("connected")' => Told("connected"))
    BY <2>1, <2>4, <2>6, LongerOrder, LongerStream DEF OneAnswer, Told, Failing
  <2>8. OneAsk'
    BY <1>1, <2>1, <2>2 DEF OneAsk, In, InAt, SockConnects, Pings
  <2>9. OneAnswer'
    BY <1>1, <2>3, <2>4, <2>7 DEF OneAnswer, InAt
  <2>10. asking \in {"up", "closing", "found", "idle"} => QuietIn(outbox')
    BY <1>1, <2>1, <2>6, LongerStream DEF Agreed, In, Told
  <2>11. Agreed'
    BY <1>1, <2>1, <2>3, <2>5, <2>7, <2>10 DEF Agreed, Pings, SockFree
  <2> QED
    BY <2>8, <2>9, <2>11 DEF SockSound
<1> QED
  BY <1>2, <1>3

LEMMA SoundSocketCloses ==
  ASSUME SockTypes, SockSound, NEW s \in Socks, SocketCloses(s)
  PROVE  SockSound'
<1>1. /\ UNCHANGED <<inStream, asking, kept, fate>> /\ socks[s] = "ended" /\ socks'[s] = "free"
      /\ \A t \in Socks : t # s => socks'[t] = socks[t]
  BY SockTypeFacts DEF SocketCloses
<1>2. CASE fate.late
  BY <1>1, <1>2 DEF SockSound
<1>3. CASE ~fate.late
  <2>1. OneAsk /\ OneAnswer /\ Agreed
    BY <1>3 DEF SockSound
  <2>2. \A t \in Socks : socks'[t] = "free"
    BY <1>1, <2>1 DEF OneAsk
  <2>3. ~In("open")' /\ ~In("opening")' /\ ~InAt("connect")
    BY <1>1, <2>1, <2>2 DEF In, OneAsk
  <2>4. Longer(outbox, outbox', "disconnected")
    BY SockTypeFacts, OutOne DEF SocketCloses, Replies
  <2>5. /\ \A w : Contains(outbox', w) <=> Contains(outbox, w) \/ w = "disconnected"
        /\ Order(outbox') /\ (QuietIn(outbox) => QuietIn(outbox'))
    BY <2>1, <2>4, LongerOrder, LongerStream DEF OneAnswer, Failures
  <2>6. OneAsk'
    BY <1>1, <2>1, <2>2, <2>3 DEF OneAsk, In, InAt, SockConnects, Pings
  <2>7. OneAnswer'
    BY <1>1, <2>1, <2>3, <2>5 DEF OneAnswer, InAt, Failing, FailIn
  <2>8. Agreed'
    BY <1>1, <2>1, <2>3, <2>5 DEF Agreed, Pings, SockFree, Told, Failing, FailIn
  <2> QED
    BY <2>6, <2>7, <2>8 DEF SockSound
<1> QED
  BY <1>2, <1>3

LEMMA SoundSends ==
  ASSUME SockTypes, SockFacts, SockSound, SendCommand \/ Close
  PROVE  SockSound'
<1>1. UNCHANGED <<socks, listed, outbox, kept, fate>>
  BY DEF SendCommand, Close, sockPool
<1>2. CASE fate.late
  BY <1>1, <1>2 DEF SockSound
<1>3. CASE ~fate.late
  <2>1. OneAsk /\ OneAnswer /\ Agreed
    BY <1>3 DEF SockSound
  <2>2. CASE SendCommand
    <3>1. asking \in {"ping", "connect"} /\ inStream \in Seq(SockAsks) /\ inStream' = Append(inStream, asking)
      BY <2>2, SockTypeFacts DEF SendCommand
    <3>2. Longer(inStream, inStream', asking)
      BY <3>1, Grown DEF SockAsks
    <3>3. /\ \A w : Contains(inStream', w) <=> Contains(inStream, w) \/ w = asking
          /\ \A w : OneIn(inStream, w) /\ (asking = w => ~Contains(inStream, w)) => OneIn(inStream', w)
      BY <3>2, LongerStream
    <3>4. ~InAt("connect") /\ ~InAt("ping") /\ ~In("opening") /\ ~In("open") /\ ~Told("connected") /\ ~Failing
      BY <2>1, <3>1 DEF OneAsk, Agreed, SockConnects, Pings
    <3>5. \/ asking = "ping" /\ asking' = "pinging"
          \/ asking = "connect" /\ asking' = "connecting"
      BY <2>2 DEF SendCommand
    <3>6. asking = "connect" => \A t \in Socks : socks[t] = "free"
      BY <2>1 DEF OneAsk
    <3>7. OneAsk'
      BY <1>1, <2>1, <3>3, <3>4, <3>5, <3>6 DEF OneAsk, In, InAt, SockConnects, Pings
    <3>8. OneAnswer'
      BY <1>1, <2>1, <3>4 DEF OneAnswer, In, Told, Failing
    <3>9. Agreed'
      BY <1>1, <3>4, <3>5 DEF Agreed, In, Pings, SockFree, Told, Failing
    <3> QED
      BY <3>7, <3>8, <3>9 DEF SockSound
  <2>3. CASE Close
    <3>1. asking = "up" /\ asking' = "closing" /\ inStream' = Append(inStream, "end")
      BY <2>3 DEF Close
    <3>2. Longer(inStream, inStream', "end")
      BY <3>1, SockTypeFacts, Grown DEF SockAsks
    <3>3. /\ \A w : Contains(inStream', w) <=> Contains(inStream, w) \/ w = "end"
          /\ \A w : OneIn(inStream, w) /\ w # "end" => OneIn(inStream', w)
      BY <3>2, LongerStream
    <3>4. OneAsk'
      BY <1>1, <2>1, <3>1, <3>3 DEF OneAsk, In, InAt, SockConnects, Pings
    <3>5. OneAnswer'
      BY <1>1, <2>1, <3>3 DEF OneAnswer, In, InAt, Told, Failing
    <3>6. Agreed'
      BY <1>1, <2>1, <3>1 DEF Agreed, In, Told, Failing, Pings, SockFree
    <3> QED
      BY <3>4, <3>5, <3>6 DEF SockSound
  <2> QED
    BY <2>2, <2>3
<1> QED
  BY <1>2, <1>3

LEMMA SoundAsks ==
  ASSUME SockTypes, SockFacts, SockSound, Request \/ Look \/ Sent \/ CloseTimeout \/ Discovered
  PROVE  SockSound'
<1>1. UNCHANGED <<socks, listed, inStream, outbox, fate>>
  BY DEF Request, Look, Sent, CloseTimeout, Discovered, sockPool
<1>2. CASE fate.late
  BY <1>1, <1>2 DEF SockSound
<1>3. CASE ~fate.late
  <2>1. OneAsk /\ OneAnswer /\ Agreed
    BY <1>3 DEF SockSound
  <2>2. OneAnswer'
    BY <1>1, <2>1 DEF OneAnswer, In, InAt, Told, Failing
  <2>3. CASE Request
    <3>1. \/ SockFree /\ asking' = "look"
          \/ asking = "idle" /\ kept /\ asking' = "up"
      BY <2>3, SockTypeFacts DEF Request, SockFree
    <3>2. OneAsk'
      BY <1>1, <2>1, <3>1 DEF OneAsk, In, InAt, SockConnects, Pings, SockFree
    <3>3. Agreed'
      BY <1>1, <2>1, <3>1 DEF Agreed, In, Told, Failing, Pings, SockFree
    <3> QED
      BY <2>2, <3>2, <3>3 DEF SockSound
  <2>4. CASE Look
    <3>1. /\ asking = "look" /\ asking' = (IF listed THEN "ping" ELSE "connect")
          /\ ~InAt("connect") /\ ~InAt("ping") /\ ~In("opening")
      BY <2>1, <2>4 DEF Look, OneAsk, SockConnects, Pings
    <3>2. ~listed => \A s \in Socks : socks[s] = "free"
      BY <2>1, <3>1, SockTypeFacts DEF OneAsk, In, Stages
    <3>3. OneAsk'
      BY <1>1, <2>1, <3>1, <3>2 DEF OneAsk, In, InAt, SockConnects, Pings
    <3>4. Agreed'
      BY <1>1, <2>1, <3>1 DEF Agreed, In, Told, Failing, Pings, SockFree
    <3> QED
      BY <2>2, <3>3, <3>4 DEF SockSound
  <2>5. CASE Sent
    <3>1. \/ asking = "pinging" /\ asking' = "awaits ping"
          \/ asking = "connecting" /\ asking' = "awaits connect"
      BY <2>5 DEF Sent
    <3>2. OneAsk'
      BY <1>1, <2>1, <3>1 DEF OneAsk, In, InAt, SockConnects, Pings
    <3>3. Agreed'
      BY <1>1, <2>1, <3>1 DEF Agreed, In, Told, Failing, Pings, SockFree
    <3> QED
      BY <2>2, <3>2, <3>3 DEF SockSound
  <2>6. CASE CloseTimeout \/ Discovered
    <3>1. \/ asking = "closing" /\ asking' = "idle" /\ kept'
          \/ asking = "found" /\ asking' = "up"
      BY <2>6 DEF CloseTimeout, Discovered, SockFacts
    <3>2. OneAsk'
      BY <1>1, <2>1, <3>1 DEF OneAsk, In, InAt, SockConnects, Pings
    <3>3. Agreed'
      BY <1>1, <2>1, <3>1 DEF Agreed, In, Told, Failing, Pings, SockFree
    <3> QED
      BY <2>2, <3>2, <3>3 DEF SockSound
  <2> QED
    BY <2>3, <2>4, <2>5, <2>6
<1> QED
  BY <1>2, <1>3

\* The bridge gives up, and was waiting for an answer or goes off.
LEMMA SoundGivesUp ==
  ASSUME SockTypes, SockSound, ConnectTimeout \/ BridgeStops \/ CheckHeartbeat
  PROVE  SockSound'
<1>1. UNCHANGED <<socks, listed, inStream, outbox>> /\ (fate.late => fate'.late)
  BY SockTypeFacts DEF ConnectTimeout, BridgeStops, CheckHeartbeat, GivesUp, sockPool
<1>2. \/ fate'.late
      \/ asking' = "off" /\ ~SockConnects /\ ~Pings
      \/ UNCHANGED <<asking, kept>>
  BY SockTypeFacts DEF ConnectTimeout, BridgeStops, CheckHeartbeat, GivesUp, Awaits, SockConnects, Pings
<1>3. CASE fate'.late
  BY <1>3 DEF SockSound
<1>4. CASE ~fate'.late
  <2>1. OneAsk /\ OneAnswer /\ Agreed
    BY <1>1, <1>4 DEF SockSound
  <2>2. OneAnswer'
    BY <1>1, <2>1 DEF OneAnswer, In, InAt, Told, Failing
  <2>3. CASE asking' = "off" /\ ~SockConnects /\ ~Pings
    <3>1. OneAsk'
      BY <1>1, <2>1, <2>3 DEF OneAsk, In, InAt, SockConnects, Pings
    <3>2. Agreed'
      BY <2>3 DEF Agreed, Pings, SockFree
    <3> QED
      BY <2>2, <3>1, <3>2 DEF SockSound
  <2>4. CASE UNCHANGED <<asking, kept>>
    BY <1>1, <2>1, <2>2, <2>4 DEF SockSound, OneAsk, Agreed, In, InAt, Told, Failing, SockConnects, Pings, SockFree
  <2> QED
    BY <1>2, <1>4, <2>3, <2>4
<1> QED
  BY <1>3, <1>4

LEMMA SoundBridgeStarts ==
  ASSUME SockTypes, SockFacts, SockSound, BridgeStarts
  PROVE  SockSound'
<1>1. /\ UNCHANGED <<socks, listed, inStream, kept>> /\ outbox' = <<>> /\ fate'.late = fate.late
      /\ asking = "off" /\ asking' = (IF listed THEN "found" ELSE "idle")
  BY SockTypeFacts DEF BridgeStarts, sockPool
<1>2. CASE fate.late
  BY <1>1, <1>2 DEF SockSound
<1>3. CASE ~fate.late
  <2>1. OneAsk
    BY <1>3 DEF SockSound
  <2>2. OneAsk'
    BY <1>1, <2>1 DEF OneAsk, In, InAt, SockConnects, Pings
  <2>3. OneAnswer'
    BY <1>1, EmptyStream DEF OneAnswer, Told, Failing
  <2>4. ~listed => ~In("open")
    BY <2>1 DEF OneAsk, In
  <2>5. Agreed'
    BY <1>1, <2>4, EmptyStream DEF Agreed, In, Told, Failing, Pings, SockFree
  <2> QED
    BY <2>2, <2>3, <2>5 DEF SockSound
<1> QED
  BY <1>2, <1>3

LEMMA SoundReply ==
  ASSUME SockTypes, SockFacts, SockSound, HandleReply
  PROVE  SockSound'
<1>1. /\ UNCHANGED <<socks, listed, inStream>> /\ Shorter(outbox, outbox')
      /\ Head(outbox) = outbox[1] /\ Contains(outbox, outbox[1])
      /\ (fate.late => fate'.late)
      /\ asking \notin {"off", "look"}
  BY SockTypeFacts, Shrunk, ShorterStream DEF HandleReply, GivesUp, sockPool
<1>2. CASE fate'.late
  BY <1>2 DEF SockSound
<1>3. CASE ~fate'.late
  <2>1. OneAsk /\ OneAnswer /\ Agreed
    BY <1>1, <1>3 DEF SockSound
  <2>2. /\ \A w : Contains(outbox', w) => Contains(outbox, w)
        /\ Order(outbox') /\ (Lapsed(outbox') => Lapsed(outbox)) /\ (QuietIn(outbox) => QuietIn(outbox'))
    BY <1>1, <2>1, ShorterStream, ShorterOrder DEF OneAnswer
  <2>3. OneAnswer'
    BY <1>1, <2>1, <2>2 DEF OneAnswer, In, InAt, Told, Failing, FailIn
  <2>4. ASSUME UNCHANGED <<asking, kept>>
        PROVE  SockSound'
    <3>1. OneAsk'
      BY <1>1, <2>1, <2>4 DEF OneAsk, In, InAt, SockConnects, Pings
    <3>2. Agreed'
      BY <1>1, <2>1, <2>2, <2>4 DEF Agreed, In, Told, Failing, FailIn, Pings, SockFree
    <3> QED
      BY <2>3, <3>1, <3>2 DEF SockSound
  <2>5. CASE Head(outbox) = "connected" /\ OnConnected
    <3>1. CASE kept /\ asking \in Awaits
      <4>1. asking' = "up" /\ asking \in Awaits /\ Told("connected") /\ outbox[1] = "connected"
        BY <1>1, <2>5, <3>1 DEF OnConnected, Told
      <4>2. ~InAt("connect") /\ ~InAt("ping") /\ ~In("opening")
        BY <2>1, <4>1 DEF OneAsk, OneAnswer, Agreed, Awaits, Pings, SockConnects
      <4>3. /\ QuietIn(outbox') /\ ~Contains(outbox', "connected")
            /\ Contains(outbox', "disconnected") => ~In("open")
        BY <1>1, <2>1, <4>1, ShorterStream, ShorterOrder DEF OneAnswer
      <4>4. OneAsk'
        BY <1>1, <2>1, <4>1, <4>2 DEF OneAsk, In, InAt, SockConnects, Pings
      <4>5. Agreed'
        BY <1>1, <4>1, <4>3 DEF Agreed, In, Told, Pings, SockFree
      <4> QED
        BY <2>3, <4>4, <4>5 DEF SockSound
    <3>2. CASE ~(kept /\ asking \in Awaits)
      BY <2>4, <2>5, <3>2 DEF OnConnected
    <3> QED
      BY <3>1, <3>2
  <2>6. CASE Head(outbox) = "disconnected" /\ OnDisconnected
    <3>1. /\ ~kept' /\ Told("disconnected") /\ outbox[1] = "disconnected"
          /\ \/ asking \in {"up", "closing"} /\ asking' = "idle"
             \/ asking' = asking /\ asking \notin {"up", "closing"}
      BY <1>1, <2>6 DEF OnDisconnected, Told, SockFacts
    <3>2. OneAsk'
      BY <1>1, <2>1, <3>1 DEF OneAsk, In, InAt, SockConnects, Pings
    <3>3. QuietIn(outbox) => ~FailIn(outbox')
      BY <1>1, <3>1, ShorterStream
    <3>4. Agreed'
      <4>1. CASE asking \in {"up", "closing", "idle"}
        BY <1>1, <2>1, <2>2, <3>1, <3>3, <4>1 DEF Agreed, In, Told, Failing, Pings, SockFree
      <4>2. CASE asking \notin {"up", "closing", "idle"}
        BY <1>1, <2>1, <2>2, <3>1, <4>2 DEF Agreed, In, Told, Failing, FailIn, Pings, SockFree
      <4> QED
        BY <4>1, <4>2
    <3> QED
      BY <2>3, <3>2, <3>4 DEF SockSound
  <2>7. CASE Head(outbox) \in {"error", "not-connected"} /\ OnFailure(Head(outbox))
    <3>1. outbox[1] \in Failures /\ Failing
      BY <1>1, <2>7 DEF Failures, Failing, FailIn
    <3>2. ~FailIn(outbox') /\ ~Contains(outbox', "connected")
      BY <1>1, <2>1, <3>1, ShorterOrder DEF OneAnswer
    <3>3. ~In("opening") /\ ~InAt("connect") /\ ~InAt("ping") /\ ~In("open")
      BY <2>1, <3>1 DEF OneAnswer
    <3>4. CASE asking \in Awaits /\ asking' = "idle" /\ kept' = FALSE
      <4>1. OneAsk'
        BY <1>1, <2>1, <3>3, <3>4 DEF OneAsk, In, InAt, SockConnects, Pings
      <4>2. QuietIn(outbox')
        BY <3>2 DEF QuietIn, FailIn, Contains, Failures
      <4>3. Agreed'
        BY <1>1, <3>2, <3>3, <3>4, <4>2 DEF Agreed, In, Told, Failing, Pings, SockFree
      <4> QED
        BY <2>3, <4>1, <4>3 DEF SockSound
    <3>5. CASE asking = "up" /\ asking' = "closing" /\ UNCHANGED kept
      <4>1. OneAsk'
        BY <1>1, <2>1, <3>3, <3>5 DEF OneAsk, In, InAt, SockConnects, Pings
      <4>2. Agreed'
        BY <1>1, <2>1, <2>2, <3>5 DEF Agreed, In, Told, Failing, Pings, SockFree
      <4> QED
        BY <2>3, <4>1, <4>2 DEF SockSound
    <3> QED
      BY <2>4, <2>7, <3>4, <3>5 DEF OnFailure
  <2>8. CASE Head(outbox) = "poolclosing" /\ asking' = "off" /\ kept' = FALSE
    <3>1. ~SockConnects /\ ~Pings
      BY <1>3, <2>8, SockTypeFacts DEF HandleReply, GivesUp, Awaits, SockConnects, Pings
    <3>2. OneAsk'
      BY <1>1, <2>1, <2>8, <3>1 DEF OneAsk, In, InAt, SockConnects, Pings
    <3>3. Agreed'
      BY <2>8 DEF Agreed, Pings, SockFree
    <3> QED
      BY <2>3, <3>2, <3>3 DEF SockSound
  <2> QED
    BY <2>5, <2>6, <2>7, <2>8 DEF HandleReply
<1> QED
  BY <1>2, <1>3

LEMMA SoundKept ==
  ASSUME SockTypes, SockFacts, SockSound, [PoolNext]_poolVars
  PROVE  SockSound'
<1>1. CASE UNCHANGED poolVars
  BY <1>1, SoundSame DEF poolVars, sockPool
<1> QED
  BY <1>1, SoundReadQueue, SoundCommand, SoundPoolStops, SoundPoolStarts, SoundOpens,
     SoundSocketEnds, SoundSocketCloses, SoundSends, SoundAsks, SoundGivesUp,
     SoundBridgeStarts, SoundReply DEF PoolNext

------------------------------------------------------------------------------
LEMMA AnsweredStreams ==
  ASSUME NEW s, NEW t
  PROVE  /\ \A x : Longer(s, t, x) /\ Answered(s) /\ x # "connected" => Answered(t)
         /\ Longer(s, t, "disconnected") => Answered(t)
         /\ Shorter(s, t) /\ Answered(s) =>
              Answered(t) /\ (s[1] = "connected" => Contains(t, "disconnected"))
<1>1. ASSUME NEW x, Longer(s, t, x), Answered(s), x # "connected"
      PROVE  Answered(t)
  BY <1>1 DEF Answered, Longer
<1>2. ASSUME Longer(s, t, "disconnected")
      PROVE  Answered(t)
  <2>1. SUFFICES ASSUME NEW i \in 1..Len(t), t[i] = "connected"
                 PROVE  i < Len(t) /\ Len(t) \in 1..Len(t)
    BY <1>2 DEF Answered, Longer
  <2> QED
    BY <1>2, <2>1 DEF Longer
<1>3. ASSUME Shorter(s, t), Answered(s)
      PROVE  Answered(t) /\ (s[1] = "connected" => Contains(t, "disconnected"))
  <2>1. /\ Len(s) \in Nat \ {0} /\ Len(t) = Len(s) - 1
        /\ \A i \in 1..Len(t) : t[i] = s[i + 1]
    BY <1>3 DEF Shorter
  <2>2. ASSUME NEW i \in 1..Len(s), s[i] = "connected"
        PROVE  \E j \in 1..Len(t) : i < j + 1 /\ t[j] = "disconnected"
    <3>1. PICK j \in 1..Len(s) : i < j /\ s[j] = "disconnected"
      BY <1>3, <2>2 DEF Answered
    <3>2. j - 1 \in 1..Len(t) /\ i < (j - 1) + 1 /\ t[j - 1] = "disconnected"
      BY <2>1, <3>1
    <3> QED
      BY <3>2
  <2>3. Answered(t)
    <3>1. SUFFICES ASSUME NEW i \in 1..Len(t), t[i] = "connected"
                   PROVE  \E j \in 1..Len(t) : i < j /\ t[j] = "disconnected"
      BY DEF Answered
    <3>2. i + 1 \in 1..Len(s) /\ s[i + 1] = "connected"
      BY <2>1, <3>1
    <3>3. PICK j \in 1..Len(t) : i + 1 < j + 1 /\ t[j] = "disconnected"
      BY <2>2, <3>2
    <3> QED
      BY <2>1, <3>3
  <2>4. s[1] = "connected" => Contains(t, "disconnected")
    BY <2>1, <2>2 DEF Contains
  <2> QED
    BY <2>3, <2>4
<1> QED
  BY <1>1, <1>2, <1>3

LEMMA AlivePool ==
  ASSUME SockTypes, SockFacts, SockAlive,
         ReadQueue \/ HandleCommand \/ PoolStops \/ PoolStarts
  PROVE  SockAlive'
<1> USE SockTypeFacts
<1>1. CASE ReadQueue
  <2>1. UNCHANGED <<socks, asking, kept>> /\ (fate.untold => fate'.untold)
    BY <1>1 DEF ReadQueue, IdleIn, IdleOut, ReadOnIn, ReadOnOut, sockPool
  <2>2. SockGone' => outbox' = outbox \/ (outbox' = <<>> /\ ~Told("disconnected"))
    BY <1>1 DEF ReadQueue, IdleIn, IdleOut, ReadOnIn, ReadOnOut, SockGone, Told
  <2>3. Answered(<<>>)
    BY DEF Answered
  <2> QED
    BY <2>1, <2>2, <2>3 DEF SockAlive, SockGone, In, Told
<1>2. CASE HandleCommand
  <2>1. UNCHANGED <<asking, kept, fate>>
    BY <1>2 DEF HandleCommand
  <2>2. CASE HandleConnect
    <3>1. PICK s \in Socks : socks[s] = "free" /\ socks' = [socks EXCEPT ![s] = "opening"]
      BY <2>2 DEF HandleConnect, FreeSocket
    <3>2. SockGone' => SockGone
      BY <2>1, <3>1 DEF SockGone, In
    <3> QED
      BY <2>1, <2>2, <3>2 DEF HandleConnect, SockAlive, Told
  <2>3. CASE HandleEnd
    <3>1. SockGone' => SockGone
      BY <2>1, <2>3 DEF HandleEnd, SockGone, In, SockFacts
    <3> QED
      BY <2>1, <2>3, <3>1 DEF HandleEnd, SockAlive, Told
  <2>4. CASE HandlePing
    <3>1. UNCHANGED socks /\ (SockGone' => SockGone)
      BY <2>1, <2>4 DEF HandlePing, SockGone, In
    <3>2. CASE Out(<<"connected">>)
      <4>1. ~(held # NoSock /\ socks[held] = "open") => ~Out(<<"connected">>)
        <5>1. Out(<<"not-connected">>) => ~Out(<<"connected">>)
          BY OutOne DEF Longer, Replies
        <5>2. Out(<<"disconnected", "not-connected">>) => ~Out(<<"connected">>)
          <6>1. ASSUME Out(<<"disconnected", "not-connected">>)
                PROVE  Len(outbox') = Len(outbox) + 2
            BY <6>1, GrownTwice DEF Out, Longer, Replies
          <6> QED
            BY <6>1, OutOne DEF Longer, Replies
        <5> QED
          BY <2>4, <5>1, <5>2 DEF HandlePing
      <4> QED
        <5>1. held \in Socks /\ socks[held] = "open"
          BY <3>2, <4>1 DEF SockFacts
        <5>2. ~SockGone
          BY <5>1 DEF SockGone, In
        <5>3. ~SockGone'
          BY <3>1, <5>2
        <5> QED
          BY <5>3 DEF SockAlive
    <3>3. CASE Out(<<"not-connected">>)
      <4>1. Longer(outbox, outbox', "not-connected")
        BY <3>3, OutOne DEF Replies
      <4> QED
        BY <2>1, <3>1, <4>1, AnsweredStreams, LongerStream DEF SockAlive, Told
    <3>4. CASE Out(<<"disconnected", "not-connected">>)
      <4> DEFINE mid == Append(outbox, "disconnected")
      <4>1. Longer(outbox, mid, "disconnected") /\ Longer(mid, outbox', "not-connected")
        <5>1. /\ outbox \in Seq(Replies) /\ "disconnected" \in Replies /\ "not-connected" \in Replies
              /\ outbox' = outbox \o <<"disconnected", "not-connected">>
          BY <3>4 DEF Out, Replies
        <5> QED
          BY <5>1, GrownTwice
      <4> HIDE DEF mid
      <4>2. Answered(mid)
        BY <4>1, AnsweredStreams
      <4>3. Answered(outbox')
        BY <4>1, <4>2, AnsweredStreams
      <4>4. Contains(mid, "disconnected") /\ Contains(outbox', "disconnected")
        BY <4>1, LongerStream
      <4> QED
        BY <4>3, <4>4 DEF SockAlive, Told
    <3> QED
      BY <2>4, <3>2, <3>3, <3>4 DEF HandlePing
  <2> QED
    BY <1>2, <2>2, <2>3, <2>4 DEF HandleCommand
<1>3. CASE PoolStops \/ PoolStarts
  BY <1>3 DEF PoolStops, PoolStarts, SockFacts, SockAlive, SockGone
<1> QED
  BY <1>1, <1>2, <1>3

LEMMA AliveSocket ==
  ASSUME SockTypes, SockAlive, NEW s \in Socks, Opens(s) \/ SocketEnds(s) \/ SocketCloses(s)
  PROVE  SockAlive'
<1> USE SockTypeFacts
<1>1. UNCHANGED <<asking, kept, fate>>
  BY DEF Opens, SocketEnds, SocketCloses
<1>2. CASE Opens(s)
  <2>1. CASE socks' = [socks EXCEPT ![s] = "open"]
    BY <2>1 DEF SockAlive, SockGone, In
  <2>2. CASE socks' = [socks EXCEPT ![s] = "free"] /\ Out(<<"error">>)
    <3>1. Longer(outbox, outbox', "error")
      BY <2>2, OutOne DEF Replies
    <3>2. SockGone' => SockGone
      BY <1>1, <1>2, <2>2 DEF SockGone, In, Opens
    <3> QED
      BY <1>1, <3>1, <3>2, AnsweredStreams, LongerStream DEF SockAlive, Told
  <2> QED
    BY <1>2, <2>1, <2>2 DEF Opens
<1>3. CASE SocketEnds(s)
  BY <1>3 DEF SocketEnds, SockAlive, SockGone, In
<1>4. CASE SocketCloses(s)
  <2>1. Longer(outbox, outbox', "disconnected")
    BY <1>4, OutOne DEF SocketCloses, Replies
  <2> QED
    BY <2>1, AnsweredStreams, LongerStream DEF SockAlive, Told
<1> QED
  BY <1>2, <1>3, <1>4

LEMMA AliveBridge ==
  ASSUME SockTypes, SockFacts, SockAlive, BridgeSteps
  PROVE  SockAlive'
<1> USE SockTypeFacts
<1>1. CASE BridgeStarts
  <2>1. /\ UNCHANGED <<poolUp, socks, listed, kept>> /\ ~kept /\ outbox' = <<>> /\ fate'.untold = ~poolUp
        /\ asking' = "found" => listed
    BY <1>1 DEF BridgeStarts, SockFacts, sockPool
  <2>2. Answered(<<>>)
    BY DEF Answered
  <2>3. listed => ~SockGone'
    BY <2>1 DEF SockFacts, SockGone, In
  <2> QED
    BY <2>1, <2>2, <2>3 DEF SockAlive
<1>2. CASE ~BridgeStarts
  <2>1. UNCHANGED <<socks, outbox>> /\ fate'.untold = fate.untold
    BY <1>2 DEF BridgeSteps, Request, Look, SendCommand, Sent, ConnectTimeout, Close, CloseTimeout,
           CheckHeartbeat, BridgeStops, Discovered, GivesUp, sockPool
  <2>2. SockGone' => SockGone
    BY <2>1 DEF SockGone, In
  <2>3. /\ kept' /\ asking' \in {"up", "closing", "idle"} =>
             (kept /\ asking \in {"up", "closing", "idle"}) \/ asking = "found"
        /\ asking' = "found" => asking = "found"
    <3>1. CASE Request
      BY <3>1 DEF Request
    <3>2. CASE Look
      BY <3>2 DEF Look
    <3>3. CASE SendCommand
      BY <3>3 DEF SendCommand
    <3>4. CASE Sent
      BY <3>4 DEF Sent
    <3>5. CASE ConnectTimeout
      BY <3>5 DEF ConnectTimeout
    <3>6. CASE Close
      BY <3>6 DEF Close
    <3>7. CASE CloseTimeout
      BY <3>7 DEF CloseTimeout
    <3>8. CASE CheckHeartbeat
      BY <3>8 DEF CheckHeartbeat
    <3>9. CASE BridgeStops
      BY <3>9 DEF BridgeStops
    <3>10. CASE Discovered
      BY <3>10 DEF Discovered
    <3> QED
      BY <1>2, <3>1, <3>2, <3>3, <3>4, <3>5, <3>6, <3>7, <3>8, <3>9, <3>10 DEF BridgeSteps
  <2> QED
    BY <2>1, <2>2, <2>3 DEF SockAlive, Told
<1> QED
  BY <1>1, <1>2

LEMMA AliveReply ==
  ASSUME SockTypes, SockFacts, SockAlive, HandleReply
  PROVE  SockAlive'
<1> USE SockTypeFacts
<1>1. /\ UNCHANGED socks /\ Shorter(outbox, outbox') /\ Head(outbox) = outbox[1]
      /\ (fate.untold => fate'.untold)
  BY Shrunk DEF HandleReply, GivesUp, sockPool
<1>2. SockGone' => SockGone
  BY <1>1 DEF SockGone, In
<1>3. Answered(outbox) => Answered(outbox')
  BY <1>1, AnsweredStreams
<1>4. Head(outbox) # "disconnected" /\ Told("disconnected") => Told("disconnected")'
  BY <1>1, ShorterStream DEF Told
<1>5. CASE Head(outbox) = "connected" /\ OnConnected
  <2>1. Answered(outbox) => Told("disconnected")'
    BY <1>1, <1>5, AnsweredStreams DEF Told
  <2> QED
    BY <1>2, <1>3, <2>1 DEF SockAlive
<1>6. CASE Head(outbox) = "disconnected" /\ OnDisconnected
  <2>1. kept' = FALSE /\ (asking' = "found" => asking = "found")
    BY <1>6 DEF OnDisconnected
  <2>2. asking = "found" => ~SockGone'
    BY <1>6 DEF HandleReply, SockGone
  <2> QED
    BY <1>2, <1>3, <2>1, <2>2 DEF SockAlive
<1>7. CASE Head(outbox) \in {"error", "not-connected"} /\ OnFailure(Head(outbox))
  <2>1. /\ kept' /\ asking' \in {"up", "closing", "idle"} =>
             kept /\ asking \in {"up", "closing", "idle"}
        /\ asking' = "found" => asking = "found"
    BY <1>7 DEF OnFailure
  <2> QED
    BY <1>2, <1>3, <1>4, <1>7, <2>1 DEF SockAlive
<1>8. CASE asking' = "off" /\ kept' = FALSE
  BY <1>2, <1>3, <1>8 DEF SockAlive
<1> QED
  BY <1>5, <1>6, <1>7, <1>8 DEF HandleReply

LEMMA AliveKept ==
  ASSUME SockTypes, SockFacts, SockAlive, [PoolNext]_poolVars
  PROVE  SockAlive'
<1>1. CASE UNCHANGED poolVars
  BY <1>1 DEF poolVars, sockPool, SockAlive, SockGone, In, Told
<1> QED
  BY <1>1, AlivePool, AliveSocket, AliveBridge, AliveReply DEF PoolNext, BridgeSteps
------------------------------------------------------------------------------
LEMMA SockStart ==
  ASSUME PoolInit
  PROVE  SockInv
<1>1. SockTypes
  <2>1. <<>> \in Seq({"connect", "ping", "end"})
    BY EmptySeq
  <2>2. <<>> \in Seq({"connected", "disconnected", "not-connected", "error", "poolclosing"})
    BY EmptySeq
  <2>3. 0 \in 0..MaxMissed /\ 0 < MaxMissed
    BY PoolServiceAssumption
  <2> QED
    BY <2>1, <2>2, <2>3 DEF PoolInit, SockTypes, PoolTypeOK
<1>2. SockFacts
  BY DEF PoolInit, SockFacts, Live
<1>3. SockSound
  BY EmptyStream DEF PoolInit, SockSound, OneAsk, OneAnswer, Agreed, In, InAt, Told, Failing, SockConnects, Pings, SockFree
<1>4. SockAlive
  BY DEF PoolInit, SockAlive, Answered, SockGone
<1> QED
  BY <1>1, <1>2, <1>3, <1>4 DEF SockInv

LEMMA SockInvKept ==
  ASSUME SockInv, [PoolNext]_poolVars
  PROVE  SockInv'
  BY SockTypesKept, SockFactsKept, SoundKept, AliveKept DEF SockInv

LEMMA AtMostOneSock ==
  ASSUME NEW S, \A x, y \in S : x = y
  PROVE  Cardinality(S) = (IF S = {} THEN 0 ELSE 1)
<1>1. CASE S = {}
  BY <1>1, FS_EmptySet
<1>2. CASE S # {}
  <2>1. PICK x : S = {x}
    BY <1>2
  <2> QED
    BY <1>2, <2>1, FS_Singleton
<1> QED
  BY <1>1, <1>2

LEMMA SoundIsOneSocket ==
  ASSUME SockTypes, SockSound
  PROVE  OneSocket
<1> SUFFICES ASSUME ~fate.late
             PROVE  Cardinality(Live) + Cardinality({i \in DOMAIN inStream : inStream[i] = "connect"}) <= 1
  BY DEF OneSocket
<1> DEFINE sent == {i \in DOMAIN inStream : inStream[i] = "connect"}
<1>1. OneAsk /\ DOMAIN inStream = 1..Len(inStream)
  BY SockTypeFacts, LenProperties DEF SockSound
<1>2. /\ \A s, t \in Live : s = t
      /\ \A i, j \in sent : i = j
      /\ sent # {} => Live = {}
  BY <1>1 DEF OneAsk, Live, OneIn, InAt, Contains
<1> HIDE DEF sent
<1>3. /\ Cardinality(Live) = (IF Live = {} THEN 0 ELSE 1)
      /\ Cardinality(sent) = (IF sent = {} THEN 0 ELSE 1)
  BY <1>2, AtMostOneSock
<1>4. Cardinality(Live) + Cardinality(sent) <= 1
  BY <1>2, <1>3
<1> QED
  BY <1>4 DEF sent

LEMMA SockInvHolds == PoolServiceSpec => []SockInv
<1>1. PoolInit => SockInv
  BY SockStart
<1>2. SockInv /\ [PoolNext]_poolVars => SockInv'
  BY SockInvKept
<1> QED
  BY <1>1, <1>2, PTL DEF PoolServiceSpec

(***************************************************************************)
(* The data of the pool and of the bridge keep their form.                 *)
(***************************************************************************)
THEOREM PoolTyping == PoolServiceSpec => []PoolTypeOK
<1>1. SockInv => PoolTypeOK
  BY DEF SockInv, SockTypes
<1> QED
  BY <1>1, SockInvHolds, PTL

(***************************************************************************)
(* A second connection is opened for a client only after the bridge gave   *)
(* up waiting for an answer (pool-service: createOrGetIrcSocket).          *)
(***************************************************************************)
THEOREM OneSocketHolds == PoolServiceSpec => []OneSocket
<1>1. SockInv => OneSocket
  BY SoundIsOneSocket DEF SockInv
<1> QED
  BY <1>1, SockInvHolds, PTL

(***************************************************************************)
(* The bridge holds on to a connection that is gone only until it reads    *)
(* that it is, unless it was kept from reading it.                         *)
(***************************************************************************)
THEOREM NoGhostHolds == PoolServiceSpec => []NoGhost
<1>1. SockInv => NoGhost
  BY DEF SockInv, SockAlive, NoGhost, SockGone, In, Live, Told
<1> QED
  BY <1>1, SockInvHolds, PTL
------------------------------------------------------------------------------
\* Idents: users with a name and an address, given through two queues.
TryType == [pc : TryPcs, stored : BOOLEAN, cfg : Configs, found : Configs, suffix : Nat,
            name : Names]
CommandType == [pc : {"none", "store"}, cfg : Configs]
IdentsTypes == IdentsTypeOK /\ nameQueue \in Seq(People) /\ addrQueue \in Seq(People)

\* Who has, or is given, a name or an address.
Naming == {"probe", "name config", "store name"}
Named == {"address", "address queue", "address config", "store address", "store counter", "dials",
          "online", "up"}
Addressing == {"address config", "store address", "store counter"}
Addressed == Addressing \cup {"dials", "online", "up"}

\* One user at a time is given a name, and one an address: the first of the queue.
LineOf(u) ==
  /\ tries[u].pc \in Naming => nameQueue # <<>> /\ Head(nameQueue) = u
  /\ u \in ToSet(nameQueue) => tries[u].pc \in Naming \cup {"name queue"}
  /\ tries[u].pc \in Addressing => addrQueue # <<>> /\ Head(addrQueue) = u /\ counter # -1
  /\ u \in ToSet(addrQueue) => tries[u].pc \in Addressing \cup {"address queue"}
  /\ tries[u].pc \in Addressed => tries[u].cfg.addr # 0

\* A name that was given to a user is the name the store has of him.
NameIsHis(u) ==
  /\ rows[u].name # 0 => rows[u].exists
  /\ tries[u].cfg.name # 0 /\ tries[u].pc # "store name" => rows[u].name = tries[u].cfg.name
  /\ commands[u].cfg.name # 0 => rows[u].name = commands[u].cfg.name
  /\ tries[u].pc \in Named => rows[u].name = tries[u].name /\ tries[u].name # 0
  /\ tries[u].pc \in Naming => tries[u].name # 0
  /\ tries[u].pc = "store name" => /\ tries[u].found.name = tries[u].name
                                   /\ tries[u].cfg.name \in {0, tries[u].name}
  /\ tries[u].pc \in {"name queue", "probe", "name config"} => tries[u].cfg.name = 0
  /\ tries[u].pc = "store address" => tries[u].found.name = rows[u].name

NamesDiffer ==
  \A u, v \in People \ gone : u # v =>
    /\ rows[u].name # 0 => rows[u].name # rows[v].name
    /\ tries[u].pc \in {"name config", "store name"} => rows[v].name # tries[u].name

\* The addresses anything knows of a user, and those that outlive his connection.
Kept(u) == {rows[u].addr, commands[u].cfg.addr} \ {0}
Held(u) == {rows[u].addr, commands[u].cfg.addr, tries[u].cfg.addr, tries[u].found.addr} \ {0}

\* The counter of the store is behind for an address that is being given only.
Covered(u) ==
  \A x \in Held(u) :
    \/ x <= counted
    \/ /\ tries[u].pc \in Addressing /\ x <= counter
       /\ x \in Kept(u) => tries[u].pc = "store counter"
AddrsDiffer == \A u \in People : Covered(u) /\ \A v \in People : u # v => Held(u) \cap Held(v) = {}

IdentsInv ==
  /\ IdentsTypes /\ \A u \in People : LineOf(u)
  /\ \A u \in People \ gone : NameIsHis(u)
  /\ NamesDiffer
  /\ torn \/ AddrsDiffer
------------------------------------------------------------------------------
LEMMA IdentsTypeFacts ==
  ASSUME IdentsTypes
  PROVE  /\ rows \in [People -> Configs] /\ counted \in Nat /\ counter \in Nat \cup {-1}
         /\ counter # -1 => counted <= counter
         /\ tries \in [People -> TryType] /\ commands \in [People -> CommandType]
         /\ nameQueue \in Seq(People) /\ addrQueue \in Seq(People)
         /\ IsInjective(nameQueue) /\ IsInjective(addrQueue)
         /\ gone \subseteq People /\ torn \in BOOLEAN
         /\ \A u \in People : /\ rows[u] \in Configs /\ tries[u] \in TryType /\ commands[u] \in CommandType
                              /\ tries[u].cfg \in Configs /\ tries[u].found \in Configs
                              /\ commands[u].cfg \in Configs /\ StoredOf(u) \in Configs
<1>1. tries \in [People -> TryType] /\ commands \in [People -> CommandType] /\ rows \in [People -> Configs]
  BY DEF IdentsTypes, IdentsTypeOK, TryType, CommandType
<1>2. \A u \in People : /\ rows[u] \in Configs /\ tries[u].cfg \in Configs /\ tries[u].found \in Configs
                        /\ commands[u].cfg \in Configs
  BY <1>1 DEF TryType, CommandType
<1>3. \A u \in People : StoredOf(u) \in Configs
  BY <1>2 DEF StoredOf
<1> QED
  BY <1>1, <1>2, <1>3 DEF IdentsTypes, IdentsTypeOK

LEMMA IdentsTypeParts ==
  ASSUME rows' \in [People -> Configs], counted' \in Nat, counter' \in Nat \cup {-1},
         counter' # -1 => counted' <= counter',
         tries' \in [People -> TryType], commands' \in [People -> CommandType],
         nameQueue' \in Seq(People), addrQueue' \in Seq(People),
         IsInjective(nameQueue'), IsInjective(addrQueue'),
         gone' \subseteq People, torn' \in BOOLEAN
  PROVE  IdentsTypes'
<1>1. \A q \in Seq(People) : ToSet(q) \subseteq People
  BY ElementOfSeq, LenProperties DEF ToSet
<1> QED
  BY <1>1 DEF IdentsTypes, IdentsTypeOK, TryType, CommandType

\* Records, and their fields.
LEMMA ConfigWith ==
  \A c \in Configs, name \in Names, addr \in Nat :
    LET x == Config(c.exists, name, addr) IN
    x \in Configs /\ x.exists = c.exists /\ x.name = name /\ x.addr = addr
  BY DEF Config, Configs

LEMMA ConfigFacts ==
  \A exists \in BOOLEAN, name \in Names, addr \in Nat :
    LET x == Config(exists, name, addr) IN
    x \in Configs /\ x.exists = exists /\ x.name = name /\ x.addr = addr
  BY DEF Config, Configs

LEMMA ConfigParts ==
  \A x \in Configs : /\ x.exists \in BOOLEAN /\ x.name \in Names /\ x.addr \in Nat
                     /\ Existing(x) \in Configs /\ Existing(x).exists
                     /\ Existing(x).name = x.name /\ Existing(x).addr = x.addr
  BY DEF Config, Configs, Existing

LEMMA TryFacts ==
  \A pc \in TryPcs, stored \in BOOLEAN, cfg \in Configs, found \in Configs, suffix \in Nat,
     name \in Names :
    LET x == Try(pc, stored, cfg, found, suffix, name) IN
    /\ x \in TryType /\ x.pc = pc /\ x.stored = stored /\ x.cfg = cfg /\ x.found = found
    /\ x.suffix = suffix /\ x.name = name
  BY DEF Try, TryType

LEMMA TryParts ==
  \A x \in TryType : /\ x.pc \in TryPcs /\ x.stored \in BOOLEAN /\ x.cfg \in Configs /\ x.found \in Configs
                     /\ x.suffix \in Nat /\ x.name \in Names
  BY DEF TryType

LEMMA TryWith ==
  \A w \in TryType, p \in TryPcs, c \in Configs, f \in Configs :
    LET y == Try(p, w.stored, c, f, w.suffix, w.name) IN
    y \in TryType /\ y.pc = p /\ y.cfg = c /\ y.found = f /\ y.name = w.name
  BY DEF Try, TryType

LEMMA MovedFacts ==
  \A t \in TryType, pc \in TryPcs :
    LET x == Try(pc, t.stored, t.cfg, t.found, t.suffix, t.name) IN
    x \in TryType /\ x.pc = pc /\ x.cfg = t.cfg /\ x.found = t.found /\ x.name = t.name
  BY DEF Try, TryType

LEMMA SomeNames ==
  0 \in Names /\ 1 \in Names /\ \A n \in Nat : ~(n > MaxSuffix) => n + 2 \in Names
  BY IdentsAssumption DEF Names

LEMMA NoFacts ==
  /\ NoRow \in Configs /\ NoRow.exists = FALSE /\ NoRow.name = 0 /\ NoRow.addr = 0
  /\ NoTry \in TryType /\ NoTry.pc = "none" /\ NoTry.cfg = NoRow /\ NoTry.found = NoRow
  /\ NoCommand \in CommandType /\ NoCommand.cfg = NoRow
<1>1. NoRow \in Configs /\ NoRow.exists = FALSE /\ NoRow.name = 0 /\ NoRow.addr = 0
  BY SomeNames DEF NoRow, Config, Configs
<1>2. NoTry \in TryType /\ NoTry.pc = "none" /\ NoTry.cfg = NoRow /\ NoTry.found = NoRow
  <2>1. "none" \in TryPcs /\ 0 \in Nat /\ 0 \in Names
    BY SomeNames DEF TryPcs
  <2> QED
    BY <1>1, <2>1 DEF NoTry, NewTry, Try, TryType
<1>3. NoCommand \in CommandType /\ NoCommand.cfg = NoRow
  BY <1>1 DEF NoCommand, CommandType
<1> QED
  BY <1>1, <1>2, <1>3

LEMMA NewTryFacts ==
  \A pc \in TryPcs, stored \in BOOLEAN, cfg \in Configs :
    LET x == NewTry(pc, stored, cfg) IN
    x \in TryType /\ x.pc = pc /\ x.cfg = cfg /\ x.found = NoRow
<1>1. 0 \in Nat /\ 0 \in Names
  BY SomeNames
<1> QED
  BY <1>1, NoFacts DEF NewTry, Try, TryType

\* The queues.
LEMMA TailLine ==
  ASSUME NEW q \in Seq(People), q # <<>>, IsInjective(q)
  PROVE  /\ Tail(q) \in Seq(People) /\ IsInjective(Tail(q)) /\ Head(q) \in People
         /\ ToSet(Tail(q)) = ToSet(q) \ {Head(q)}
<1>1. /\ Head(q) \in People /\ Tail(q) \in Seq(People) /\ Len(Tail(q)) = Len(q) - 1 /\ Len(q) \in Nat \ {0}
      /\ Head(q) = q[1] /\ \A i \in 1..Len(Tail(q)) : Tail(q)[i] = q[i + 1]
  BY HeadTailProperties, EmptySeq
<1>2. DOMAIN q = 1..Len(q) /\ DOMAIN Tail(q) = 1..Len(Tail(q))
  BY <1>1, LenProperties
<1>3. \A i \in DOMAIN Tail(q) : i + 1 \in DOMAIN q /\ Tail(q)[i] = q[i + 1]
  BY <1>1, <1>2
<1>4. IsInjective(Tail(q))
  <2>1. SUFFICES ASSUME NEW i \in DOMAIN Tail(q), NEW j \in DOMAIN Tail(q), Tail(q)[i] = Tail(q)[j]
                 PROVE  i = j
    BY DEF IsInjective
  <2>2. i + 1 = j + 1
    BY <1>3, <2>1 DEF IsInjective
  <2> QED
    BY <1>1, <1>2, <2>2
<1>5. ASSUME NEW x \in ToSet(Tail(q))
      PROVE  x \in ToSet(q) /\ x # Head(q)
  <2>1. PICK i \in DOMAIN Tail(q) : Tail(q)[i] = x
    BY DEF ToSet
  <2>2. q[i + 1] = x /\ i + 1 \in DOMAIN q /\ i + 1 # 1 /\ 1 \in DOMAIN q
    BY <1>1, <1>2, <1>3, <2>1
  <2> QED
    BY <1>1, <2>2 DEF ToSet, IsInjective
<1>6. ASSUME NEW x \in ToSet(q), x # Head(q)
      PROVE  x \in ToSet(Tail(q))
  <2>1. PICK i \in DOMAIN q : q[i] = x
    BY DEF ToSet
  <2>2. i - 1 \in DOMAIN Tail(q) /\ Tail(q)[i - 1] = x
    BY <1>1, <1>2, <1>6, <2>1
  <2> QED
    BY <2>2 DEF ToSet
<1> QED
  BY <1>1, <1>4, <1>5, <1>6

LEMMA LongerLine ==
  ASSUME NEW q \in Seq(People), IsInjective(q), NEW u \in People, u \notin ToSet(q)
  PROVE  /\ Append(q, u) \in Seq(People) /\ IsInjective(Append(q, u)) /\ Append(q, u) # <<>>
         /\ ToSet(Append(q, u)) = ToSet(q) \cup {u}
         /\ q # <<>> => Head(Append(q, u)) = Head(q)
<1> DEFINE a == Append(q, u)
<1>1. /\ a \in Seq(People) /\ Len(a) = Len(q) + 1 /\ Len(q) \in Nat /\ a[Len(q) + 1] = u
      /\ \A i \in 1..Len(q) : a[i] = q[i]
  BY AppendProperties, LenProperties
<1>2. DOMAIN q = 1..Len(q) /\ DOMAIN a = 1..Len(a)
  BY <1>1, LenProperties
<1>3. a # <<>> /\ (q # <<>> => Head(a) = Head(q))
  BY AppendProperties, <1>1, HeadTailProperties, EmptySeq
<1> HIDE DEF a
<1>4. DOMAIN a = DOMAIN q \cup {Len(q) + 1}
  BY <1>1, <1>2
<1>5. ToSet(a) = ToSet(q) \cup {u}
  BY <1>1, <1>2, <1>4 DEF ToSet
<1>6. IsInjective(a)
  <2>1. \A i \in DOMAIN q : a[i] = q[i] /\ q[i] # u
    BY <1>1, <1>2 DEF ToSet
  <2> QED
    BY <1>1, <1>4, <2>1 DEF IsInjective
<1> QED
  BY <1>1, <1>3, <1>5, <1>6 DEF a
------------------------------------------------------------------------------
\* What a step for one user leaves alone.
Others(u) ==
  \A v \in People : v # u => rows'[v] = rows[v] /\ tries'[v] = tries[v] /\ commands'[v] = commands[v]
Turns(u) ==
  /\ \A v \in People : v # u =>
       /\ nameQueue # <<>> /\ Head(nameQueue) = v => nameQueue' # <<>> /\ Head(nameQueue') = v
       /\ v \in ToSet(nameQueue') => v \in ToSet(nameQueue)
       /\ addrQueue # <<>> /\ Head(addrQueue) = v => addrQueue' # <<>> /\ Head(addrQueue') = v
       /\ v \in ToSet(addrQueue') => v \in ToSet(addrQueue)
  /\ counter # -1 => counter' # -1

LEMMA LineKept ==
  ASSUME NEW u \in People, \A v \in People : LineOf(v), Others(u), Turns(u), LineOf(u)'
  PROVE  \A v \in People : LineOf(v)'
<1>1. SUFFICES ASSUME NEW v \in People, v # u
               PROVE  LineOf(v)'
  OBVIOUS
<1>2. tries'[v] = tries[v] /\ LineOf(v)
  BY <1>1 DEF Others
<1> QED
  BY <1>1, <1>2 DEF LineOf, Turns

LEMMA HisKept ==
  ASSUME NEW u \in People, \A v \in People \ gone : NameIsHis(v), Others(u), gone \subseteq gone',
         u \notin gone' => NameIsHis(u)'
  PROVE  \A v \in People \ gone' : NameIsHis(v)'
<1>1. SUFFICES ASSUME NEW v \in People \ gone', v # u
               PROVE  NameIsHis(v)'
  OBVIOUS
<1>2. tries'[v] = tries[v] /\ rows'[v] = rows[v] /\ commands'[v] = commands[v] /\ NameIsHis(v)
  BY <1>1 DEF Others
<1> QED
  BY <1>2 DEF NameIsHis

LEMMA NamesKept ==
  ASSUME NEW u \in People, NamesDiffer, Others(u), gone \subseteq gone',
         u \notin gone' =>
           /\ rows'[u].name = rows[u].name
           /\ tries'[u].pc \in {"name config", "store name"} =>
                tries[u].pc \in {"name config", "store name"} /\ tries'[u].name = tries[u].name
  PROVE  NamesDiffer'
<1>1. SUFFICES ASSUME NEW v \in People \ gone', NEW w \in People \ gone', v # w
               PROVE  /\ rows'[v].name # 0 => rows'[v].name # rows'[w].name
                      /\ tries'[v].pc \in {"name config", "store name"} => rows'[w].name # tries'[v].name
  BY DEF NamesDiffer
<1>2. \A x \in People \ gone' :
        /\ rows'[x].name = rows[x].name
        /\ tries'[x].pc \in {"name config", "store name"} =>
             tries[x].pc \in {"name config", "store name"} /\ tries'[x].name = tries[x].name
  BY DEF Others
<1>3. v \in People \ gone /\ w \in People \ gone
  BY <1>1
<1>4. /\ rows[v].name # 0 => rows[v].name # rows[w].name
      /\ tries[v].pc \in {"name config", "store name"} => rows[w].name # tries[v].name
  BY <1>1, <1>3 DEF NamesDiffer
<1> QED
  BY <1>1, <1>2, <1>4

\* A step only moves the addresses of its user, or gives a new one.
LEMMA AddrsKept ==
  ASSUME IdentsTypes, IdentsTypes', NEW u \in People, AddrsDiffer, Others(u), counted <= counted', counter <= counter',
         Covered(u)', \A x \in Held(u)' : x \in Held(u) \/ (x > counted /\ x > counter)
  PROVE  AddrsDiffer'
<1>1. \A v \in People : v # u => Held(v)' = Held(v) /\ Kept(v)' = Kept(v)
  BY DEF Others, Held, Kept
<1>2. \A v \in People : Held(v) \subseteq Nat
  BY IdentsTypeFacts, ConfigParts DEF Held
<1>3. counted \in Nat /\ counted' \in Nat /\ counter \in Int /\ counter' \in Int
  BY IdentsTypeFacts DEF IdentsTypes, IdentsTypeOK
<1>4. ASSUME NEW v \in People, v # u
      PROVE  Covered(v)'
  <2>1. tries'[v] = tries[v] /\ Held(v)' = Held(v) /\ Kept(v)' = Kept(v) /\ Covered(v)
    BY <1>1, <1>4 DEF Others, AddrsDiffer
  <2>2. SUFFICES ASSUME NEW x \in Held(v)
                 PROVE  \/ x <= counted'
                        \/ /\ tries[v].pc \in Addressing /\ x <= counter'
                           /\ x \in Kept(v) => tries[v].pc = "store counter"
    BY <2>1 DEF Covered
  <2>3. x \in Int
    BY <1>2
  <2>4. x <= counted => x <= counted'
    BY <1>3, <2>3
  <2>5. x <= counter => x <= counter'
    BY <1>3, <2>3
  <2> QED
    BY <2>1, <2>4, <2>5 DEF Covered
<1>5. ASSUME NEW v \in People, v # u
      PROVE  Held(u)' \cap Held(v) = {}
  <2>1. SUFFICES ASSUME NEW x \in Held(v), x > counted, x > counter
                 PROVE  FALSE
    BY <1>5 DEF AddrsDiffer
  <2>2. x \in Int
    BY <1>2
  <2>3. x <= counted \/ x <= counter
    BY <1>5 DEF AddrsDiffer, Covered
  <2> QED
    BY <1>3, <2>1, <2>2, <2>3
<1>6. ASSUME NEW v \in People, NEW w \in People, v # w
      PROVE  Held(v)' \cap Held(w)' = {}
  <2>1. CASE v = u
    BY <1>1, <1>5, <1>6, <2>1
  <2>2. CASE w = u
    BY <1>1, <1>5, <1>6, <2>2
  <2>3. CASE v # u /\ w # u
    BY <1>1, <1>6, <2>3 DEF AddrsDiffer
  <2> QED
    BY <2>1, <2>2, <2>3
<1> QED
  BY <1>4, <1>6 DEF AddrsDiffer

\* The configuration is overwritten.
LEMMA WritesFacts ==
  ASSUME IdentsTypes, NEW u \in People, NEW cfg \in Configs, Writes(u, cfg)
  PROVE  /\ rows' \in [People -> Configs] /\ rows'[u].exists /\ rows'[u].name = cfg.name /\ rows'[u].addr = cfg.addr
         /\ \A v \in People : v # u => rows'[v] = rows[v]
         /\ gone \subseteq gone' /\ gone' \subseteq People
         /\ u \notin gone' => u \notin gone /\ rows[u].name \in {0, cfg.name}
<1>1. rows' = [rows EXCEPT ![u] = Existing(cfg)]
  BY DEF Writes
<1>2. rows' \in [People -> Configs] /\ rows'[u] = Existing(cfg) /\ \A v \in People : v # u => rows'[v] = rows[v]
  BY <1>1, IdentsTypeFacts, ConfigParts
<1>3. gone' = IF rows[u].name \notin {0, cfg.name} THEN gone \cup {u} ELSE gone
  BY DEF Writes
<1> QED
  BY <1>2, <1>3, ConfigParts, IdentsTypeFacts

LEMMA TriesTo ==
  ASSUME IdentsTypes, NEW u \in People, NEW x \in TryType, tries' = [tries EXCEPT ![u] = x]
  PROVE  /\ tries' \in [People -> TryType] /\ tries'[u] = x
         /\ \A v \in People : v # u => tries'[v] = tries[v]
  BY IdentsTypeFacts

LEMMA TryGoesFacts ==
  ASSUME IdentsTypes, NEW u \in People, NEW pc \in TryPcs, TryGoes(u, pc)
  PROVE  /\ tries' \in [People -> TryType] /\ tries'[u].pc = pc /\ tries'[u].cfg = tries[u].cfg
         /\ tries'[u].found = tries[u].found /\ tries'[u].name = tries[u].name
         /\ \A v \in People : v # u => tries'[v] = tries[v]
<1> DEFINE t == tries[u]
           x == Try(pc, t.stored, t.cfg, t.found, t.suffix, t.name)
<1>1. tries' = [tries EXCEPT ![u] = x]
  BY DEF TryGoes
<1>2. t \in TryType
  BY IdentsTypeFacts
<1>3. x \in TryType /\ x.pc = pc /\ x.cfg = t.cfg /\ x.found = t.found /\ x.name = t.name
  BY <1>2, TryFacts, TryParts
<1> HIDE DEF x
<1> QED
  BY <1>1, <1>3, TriesTo

\* Steps that end at the invariant for one user.
LEMMA IdentsStep ==
  ASSUME IdentsInv, NEW u \in People, IdentsTypes', Others(u), Turns(u), gone \subseteq gone', torn' = torn,
         counted <= counted', counter <= counter', LineOf(u)', u \notin gone' => NameIsHis(u)', NamesDiffer',
         AddrsDiffer => Covered(u)' /\ \A x \in Held(u)' : x \in Held(u) \/ (x > counted /\ x > counter)
  PROVE  IdentsInv'
<1>1. (\A v \in People : LineOf(v)') /\ \A v \in People \ gone' : NameIsHis(v)'
  BY LineKept, HisKept DEF IdentsInv
<1>2. AddrsDiffer => AddrsDiffer'
  BY AddrsKept DEF IdentsInv
<1> QED
  BY <1>1, <1>2 DEF IdentsInv

LEMMA CountTypes ==
  ASSUME IdentsTypes
  PROVE  /\ counted \in Nat /\ counter \in Nat \cup {-1} /\ counter \in Int
         /\ counter # -1 => counted <= counter
  BY DEF IdentsTypes, IdentsTypeOK

LEMMA CountsKept ==
  ASSUME IdentsTypes, counted' = counted, counter' = counter
  PROVE  counted <= counted' /\ counter <= counter'
<1>1. counted \in Int /\ counter \in Int
  BY DEF IdentsTypes, IdentsTypeOK
<1> QED
  BY <1>1

LEMMA SameTurns ==
  ASSUME NEW u, UNCHANGED queuesOfIdents, counter # -1 => counter' # -1
  PROVE  Turns(u)
  BY DEF queuesOfIdents, Turns

\* A connection starts.
LEMMA DialStep ==
  ASSUME IdentsInv, NEW u \in People, NEW cfg \in {rows[u], StoredOf(u)}, NEW stored \in BOOLEAN,
         tries[u].pc \in {"none", "up"}, cfg = rows[u] \/ tries[u].pc = "up",
         tries' = [tries EXCEPT ![u] = NewTry("names", stored, cfg)],
         UNCHANGED <<rows, counted, queuesOfIdents, counter, commands, gone, torn>>
  PROVE  IdentsInv'
<1>1. IdentsTypes /\ LineOf(u) /\ NamesDiffer /\ cfg \in Configs
  BY IdentsTypeFacts DEF IdentsInv
<1> DEFINE x == NewTry("names", stored, cfg)
<1>2. x \in TryType /\ x.pc = "names" /\ x.cfg = cfg /\ x.found = NoRow
  <2>1. "names" \in TryPcs
    BY DEF TryPcs
  <2> HIDE DEF x
  <2>2. x = NewTry("names", stored, cfg)
    BY DEF x
  <2> QED
    BY <1>1, <2>1, <2>2, NewTryFacts
<1> HIDE DEF x
<1>3. tries' \in [People -> TryType] /\ tries'[u] = x /\ \A v \in People : v # u => tries'[v] = tries[v]
  BY <1>1, <1>2, TriesTo DEF x
<1>4. IdentsTypes'
  BY <1>1, <1>3, IdentsTypeFacts, IdentsTypeParts DEF queuesOfIdents
<1>5. Others(u) /\ Turns(u)
  BY <1>3, SameTurns DEF Others
<1>6. LineOf(u)'
  BY <1>1, <1>2, <1>3 DEF LineOf, Naming, Addressing, Addressed, queuesOfIdents
<1>7. u \notin gone' => NameIsHis(u)'
  <2>1. SUFFICES ASSUME NameIsHis(u)
                 PROVE  NameIsHis(u)'
    BY DEF IdentsInv
  <2>2. cfg.name # 0 => rows[u].name = cfg.name
    BY <2>1 DEF NameIsHis, StoredOf
  <2> QED
    BY <1>2, <1>3, <2>1, <2>2 DEF NameIsHis, Named, Naming
<1>8. NamesDiffer'
  BY <1>1, <1>2, <1>3, <1>5, NamesKept
<1>9. Held(u)' \subseteq Held(u) /\ Kept(u)' = Kept(u)
  BY <1>2, <1>3, NoFacts DEF Held, Kept, StoredOf
<1>10. AddrsDiffer => Covered(u)'
  <2>1. SUFFICES ASSUME AddrsDiffer, NEW x0 \in Held(u)'
                 PROVE  x0 <= counted
    BY DEF Covered
  <2>2. x0 \in Held(u) /\ Covered(u) /\ tries[u].pc \notin Addressing
    BY <1>9, <2>1 DEF AddrsDiffer, Addressing
  <2> QED
    BY <2>2 DEF Covered
<1>11. counted <= counted' /\ counter <= counter'
  BY <1>1, CountsKept
<1> QED
  BY <1>4, <1>5, <1>6, <1>7, <1>8, <1>9, <1>10, <1>11, IdentsStep

\* A connection ends.
LEMMA HangUpStep ==
  ASSUME IdentsInv, NEW u \in People, tries' = [tries EXCEPT ![u] = NoTry],
         \/ tries[u].pc \in {"dials", "up"} /\ UNCHANGED queuesOfIdents
         \/ tries[u].pc = "probe" /\ NameTurn(u) /\ NameDone /\ addrQueue' = addrQueue,
         UNCHANGED <<rows, counted, counter, commands, gone, torn>>
  PROVE  IdentsInv'
<1>1. IdentsTypes /\ LineOf(u) /\ NamesDiffer
  BY DEF IdentsInv
<1>2. tries' \in [People -> TryType] /\ tries'[u] = NoTry /\ \A v \in People : v # u => tries'[v] = tries[v]
  BY <1>1, NoFacts, TriesTo
<1>3. /\ nameQueue' \in Seq(People) /\ IsInjective(nameQueue') /\ addrQueue' = addrQueue
      /\ u \notin ToSet(nameQueue') /\ u \notin ToSet(addrQueue')
      /\ Turns(u)
  <2>1. CASE tries[u].pc \in {"dials", "up"} /\ UNCHANGED queuesOfIdents
    <3>1. u \notin ToSet(nameQueue) /\ u \notin ToSet(addrQueue)
      BY <1>1, <2>1 DEF LineOf, Naming, Addressing
    <3> QED
      BY <1>1, <2>1, <3>1, IdentsTypeFacts, SameTurns DEF queuesOfIdents
  <2>2. CASE tries[u].pc = "probe" /\ NameTurn(u) /\ NameDone /\ addrQueue' = addrQueue
    <3>1. u \notin ToSet(addrQueue) /\ nameQueue # <<>> /\ Head(nameQueue) = u /\ nameQueue' = Tail(nameQueue)
      BY <1>1, <2>2 DEF LineOf, Addressing, NameTurn, NameDone
    <3>2. /\ nameQueue' \in Seq(People) /\ IsInjective(nameQueue')
          /\ ToSet(nameQueue') = ToSet(nameQueue) \ {u}
      BY <1>1, <3>1, IdentsTypeFacts, TailLine
    <3> QED
      BY <2>2, <3>1, <3>2 DEF Turns
  <2> QED
    BY <2>1, <2>2
<1>4. IdentsTypes'
  BY <1>1, <1>2, <1>3, IdentsTypeFacts, IdentsTypeParts
<1>5. Others(u)
  BY <1>2 DEF Others
<1>6. LineOf(u)'
  BY <1>2, <1>3, NoFacts DEF LineOf, Naming, Addressing, Addressed
<1>7. u \notin gone' => NameIsHis(u)'
  BY <1>2, NoFacts DEF IdentsInv, NameIsHis, Named, Naming
<1>8. NamesDiffer'
  BY <1>1, <1>2, <1>5, NoFacts, NamesKept
<1>9. Held(u)' \subseteq Held(u) /\ Kept(u)' = Kept(u)
  BY <1>2, NoFacts DEF Held, Kept
<1>10. AddrsDiffer => Covered(u)'
  <2>1. tries[u].pc \notin Addressing
    BY DEF Addressing
  <2> QED
    BY <1>9, <2>1 DEF Covered, AddrsDiffer
<1>11. counted <= counted' /\ counter <= counter'
  BY <1>1, CountsKept
<1> QED
  BY <1>3, <1>4, <1>5, <1>6, <1>7, <1>8, <1>9, <1>10, <1>11, IdentsStep

\* A step of a connection that stores nothing and changes none of its addresses.
LEMMA PlainStep ==
  ASSUME IdentsInv, NEW u \in People, NEW x \in TryType, tries' = [tries EXCEPT ![u] = x],
         x.cfg.addr = tries[u].cfg.addr, x.found \in {tries[u].found, NoRow} \/ x.found.addr \in Held(u) \cup {0},
         tries[u].pc \in Addressing => x.pc \in Addressing /\ (tries[u].pc = "store counter" => x.pc = "store counter"),
         UNCHANGED <<rows, counted, counter, commands, gone, torn>>,
         nameQueue' \in Seq(People), addrQueue' \in Seq(People),
         IsInjective(nameQueue'), IsInjective(addrQueue'),
         Turns(u), LineOf(u)', NameIsHis(u) => NameIsHis(u)', NamesDiffer'
  PROVE  IdentsInv'
<1>1. IdentsTypes
  BY DEF IdentsInv
<1>2. tries' \in [People -> TryType] /\ tries'[u] = x /\ \A v \in People : v # u => tries'[v] = tries[v]
  BY <1>1, TriesTo
<1>3. IdentsTypes'
  BY <1>1, <1>2, IdentsTypeFacts, IdentsTypeParts
<1>4. Others(u)
  BY <1>2 DEF Others
<1>5. u \notin gone' => NameIsHis(u)'
  BY DEF IdentsInv
<1>6. Held(u)' \subseteq Held(u) /\ Kept(u)' = Kept(u)
  BY <1>2, NoFacts DEF Held, Kept
<1>7. AddrsDiffer => Covered(u)'
  <2>1. SUFFICES ASSUME Covered(u), NEW a \in Held(u)
                 PROVE  \/ a <= counted
                        \/ /\ x.pc \in Addressing /\ a <= counter
                           /\ a \in Kept(u) => x.pc = "store counter"
    BY <1>2, <1>6 DEF AddrsDiffer, Covered
  <2> QED
    BY <2>1 DEF Covered
<1>8. counted <= counted' /\ counter <= counter'
  BY <1>1, CountsKept
<1> QED
  BY <1>3, <1>4, <1>5, <1>6, <1>7, <1>8, IdentsStep

\* A step of a connection that stores nothing and leaves the queues.
LEMMA AloneStep ==
  ASSUME IdentsInv, NEW u \in People, NEW x \in TryType, tries' = [tries EXCEPT ![u] = x],
         x.cfg.addr = tries[u].cfg.addr, x.found \in {tries[u].found, NoRow} \/ x.found.addr \in Held(u) \cup {0},
         tries[u].pc \in Addressing => x.pc \in Addressing /\ (tries[u].pc = "store counter" => x.pc = "store counter"),
         UNCHANGED <<rows, counted, counter, commands, gone, torn, queuesOfIdents>>,
         LineOf(u)', NameIsHis(u) => NameIsHis(u)', NamesDiffer'
  PROVE  IdentsInv'
<1>1. Turns(u)
  BY SameTurns
<1>2. /\ nameQueue' \in Seq(People) /\ addrQueue' \in Seq(People)
      /\ IsInjective(nameQueue') /\ IsInjective(addrQueue')
  BY IdentsTypeFacts DEF IdentsInv, queuesOfIdents
<1> QED
  BY <1>1, <1>2, PlainStep
------------------------------------------------------------------------------
\* The actions.
LEMMA XDial ==
  ASSUME IdentsInv, NEW u \in People, Dial(u)
  PROVE  IdentsInv'
<1>1. rows[u].exists \in BOOLEAN
  BY IdentsTypeFacts, ConfigParts DEF IdentsInv
<1> QED
  BY <1>1, DialStep DEF Dial, TryAt

LEMMA XDisconnects ==
  ASSUME IdentsInv, NEW u \in People, Disconnects(u)
  PROVE  IdentsInv'
<1>1. CASE tries' = [tries EXCEPT ![u] = NoTry]
  BY <1>1, HangUpStep DEF Disconnects, TryAt
<1>2. CASE tries' = [tries EXCEPT ![u] = NewTry("names", TRUE, StoredOf(u))]
  BY <1>2, DialStep DEF Disconnects, TryAt
<1> QED
  BY <1>1, <1>2 DEF Disconnects

LEMMA XOnline ==
  ASSUME IdentsInv, NEW u \in People, Online(u)
  PROVE  IdentsInv'
<1>1. CASE tries' = [tries EXCEPT ![u] = NoTry]
  BY <1>1, HangUpStep DEF Online, TryAt
<1>2. CASE TryGoes(u, IF tries[u].stored THEN "up" ELSE "online")
  <2> DEFINE t == tries[u]
             pc == IF t.stored THEN "up" ELSE "online"
             x == Try(pc, t.stored, t.cfg, t.found, t.suffix, t.name)
  <2>1. tries' = [tries EXCEPT ![u] = x] /\ t.pc = "dials" /\ IdentsTypes /\ LineOf(u) /\ NamesDiffer
    BY <1>2 DEF TryGoes, Online, TryAt, IdentsInv
  <2>2. pc \in TryPcs /\ pc \in {"up", "online"} /\ t \in TryType
    BY <2>1, IdentsTypeFacts DEF TryPcs
  <2> HIDE DEF pc
  <2>3. x \in TryType /\ x.pc = pc /\ x.cfg = t.cfg /\ x.found = t.found /\ x.name = t.name
    BY <2>2, TryFacts, TryParts
  <2> HIDE DEF x
  <2>4. tries'[u] = x /\ \A v \in People : v # u => tries'[v] = tries[v]
    BY <2>1, <2>3, TriesTo
  <2>5. UNCHANGED <<rows, counted, queuesOfIdents, counter, commands, gone, torn>>
    BY DEF Online
  <2>6. LineOf(u)'
    BY <2>1, <2>2, <2>3, <2>4, <2>5 DEF LineOf, Naming, Addressing, Addressed, queuesOfIdents
  <2>7. NameIsHis(u) => NameIsHis(u)'
    BY <2>1, <2>2, <2>3, <2>4, <2>5 DEF NameIsHis, Named, Naming
  <2>8. NamesDiffer'
    BY <2>1, <2>2, <2>3, <2>4, <2>5, NamesKept DEF Others
  <2> QED
    BY <2>1, <2>2, <2>3, <2>5, <2>6, <2>7, <2>8, AloneStep DEF Addressing
<1> QED
  BY <1>1, <1>2 DEF Online

LEMMA XGetIrcNames ==
  ASSUME IdentsInv, NEW u \in People, GetIrcNames(u)
  PROVE  IdentsInv'
<1> DEFINE t == tries[u]
<1>1. /\ t.pc = "names" /\ IdentsTypes /\ LineOf(u) /\ NamesDiffer /\ t \in TryType /\ t.cfg \in Configs
      /\ UNCHANGED <<rows, counted, addrQueue, counter, commands, gone, torn>>
  BY IdentsTypeFacts DEF GetIrcNames, TryAt, IdentsInv
<1>2. CASE t.cfg.name # 0
  <2> DEFINE x == Try("address", t.stored, t.cfg, t.found, t.suffix, t.cfg.name)
  <2>1. tries' = [tries EXCEPT ![u] = x] /\ UNCHANGED queuesOfIdents
    BY <1>1, <1>2 DEF GetIrcNames, queuesOfIdents
  <2>2. "address" \in TryPcs
    BY DEF TryPcs
  <2>3. x \in TryType /\ x.pc = "address" /\ x.cfg = t.cfg /\ x.found = t.found /\ x.name = t.cfg.name
    <3>1. /\ t.stored \in BOOLEAN /\ t.cfg \in Configs /\ t.found \in Configs /\ t.suffix \in Nat
          /\ t.cfg.name \in Names
      BY <1>1, TryParts, ConfigParts
    <3> QED
      BY <2>2, <3>1, TryFacts
  <2> HIDE DEF x
  <2>4. tries'[u] = x /\ \A v \in People : v # u => tries'[v] = tries[v]
    BY <1>1, <2>1, <2>3, TriesTo
  <2>6. LineOf(u)'
    BY <1>1, <2>1, <2>3, <2>4 DEF LineOf, Naming, Addressing, Addressed, queuesOfIdents
  <2>7. NameIsHis(u) => NameIsHis(u)'
    BY <1>1, <1>2, <2>3, <2>4 DEF NameIsHis, Named, Naming
  <2>8. NamesDiffer'
    BY <1>1, <2>3, <2>4, NamesKept DEF Others
  <2> QED
    BY <1>1, <2>1, <2>3, <2>6, <2>7, <2>8, AloneStep DEF Addressing
<1>3. CASE t.cfg.name = 0
  <2> DEFINE x == Try("name queue", t.stored, t.cfg, t.found, t.suffix, t.name)
  <2>1. tries' = [tries EXCEPT ![u] = x] /\ nameQueue' = Append(nameQueue, u)
    BY <1>1, <1>3 DEF GetIrcNames, TryGoes
  <2>2. "name queue" \in TryPcs
    BY DEF TryPcs
  <2>3. x \in TryType /\ x.pc = "name queue" /\ x.cfg = t.cfg /\ x.found = t.found /\ x.name = t.name
    BY <1>1, <2>2, MovedFacts
  <2> HIDE DEF x
  <2>4. tries'[u] = x /\ \A v \in People : v # u => tries'[v] = tries[v]
    BY <1>1, <2>1, <2>3, TriesTo
  <2>5. /\ nameQueue' \in Seq(People) /\ IsInjective(nameQueue') /\ nameQueue' # <<>>
        /\ ToSet(nameQueue') = ToSet(nameQueue) \cup {u} /\ u \notin ToSet(nameQueue)
        /\ nameQueue # <<>> => Head(nameQueue') = Head(nameQueue)
    <3>1. u \notin ToSet(nameQueue)
      BY <1>1 DEF LineOf, Naming
    <3> QED
      BY <1>1, <2>1, <3>1, IdentsTypeFacts, LongerLine
  <2>6. LineOf(u)'
    BY <1>1, <2>1, <2>3, <2>4 DEF LineOf, Naming, Addressing, Addressed
  <2>7. NameIsHis(u) => NameIsHis(u)'
    BY <1>1, <1>3, <2>3, <2>4 DEF NameIsHis, Named, Naming
  <2>8. NamesDiffer'
    BY <1>1, <2>3, <2>4, NamesKept DEF Others
  <2>9. Turns(u)
    BY <1>1, <2>5 DEF Turns
  <2>10. addrQueue' \in Seq(People) /\ IsInjective(addrQueue')
    BY <1>1, IdentsTypeFacts
  <2> QED
    BY <1>1, <2>1, <2>3, <2>5, <2>6, <2>7, <2>8, <2>9, <2>10, PlainStep DEF Addressing
<1> QED
  BY <1>2, <1>3

LEMMA XGenerate ==
  ASSUME IdentsInv, NEW u \in People, Generate(u)
  PROVE  IdentsInv'
<1> DEFINE t == tries[u]
<1>1. /\ t.pc = "address" /\ IdentsTypes /\ LineOf(u) /\ NamesDiffer /\ t \in TryType /\ t.cfg \in Configs
      /\ UNCHANGED <<rows, counted, nameQueue, counter, commands, gone, torn>>
  BY IdentsTypeFacts DEF Generate, TryAt, IdentsInv
<1>2. CASE t.cfg.addr # 0
  <2> DEFINE x == Try("dials", t.stored, t.cfg, t.found, t.suffix, t.name)
  <2>1. tries' = [tries EXCEPT ![u] = x] /\ UNCHANGED queuesOfIdents
    BY <1>1, <1>2 DEF Generate, queuesOfIdents, TryGoes
  <2>2. "dials" \in TryPcs
    BY DEF TryPcs
  <2>3. x \in TryType /\ x.pc = "dials" /\ x.cfg = t.cfg /\ x.found = t.found /\ x.name = t.name
    BY <1>1, <2>2, MovedFacts
  <2> HIDE DEF x
  <2>4. tries'[u] = x /\ \A v \in People : v # u => tries'[v] = tries[v]
    BY <1>1, <2>1, <2>3, TriesTo
  <2>6. LineOf(u)'
    BY <1>1, <1>2, <2>1, <2>3, <2>4 DEF LineOf, Naming, Addressing, Addressed, queuesOfIdents
  <2>7. NameIsHis(u) => NameIsHis(u)'
    BY <1>1, <2>3, <2>4 DEF NameIsHis, Named, Naming
  <2>8. NamesDiffer'
    BY <1>1, <2>3, <2>4, NamesKept DEF Others
  <2> QED
    BY <1>1, <2>1, <2>3, <2>6, <2>7, <2>8, AloneStep DEF Addressing
<1>3. CASE t.cfg.addr = 0
  <2> DEFINE x == Try("address queue", t.stored, t.cfg, t.found, t.suffix, t.name)
  <2>1. tries' = [tries EXCEPT ![u] = x] /\ addrQueue' = Append(addrQueue, u)
    BY <1>1, <1>3 DEF Generate, TryGoes
  <2>2. "address queue" \in TryPcs
    BY DEF TryPcs
  <2>3. x \in TryType /\ x.pc = "address queue" /\ x.cfg = t.cfg /\ x.found = t.found /\ x.name = t.name
    BY <1>1, <2>2, MovedFacts
  <2> HIDE DEF x
  <2>4. tries'[u] = x /\ \A v \in People : v # u => tries'[v] = tries[v]
    BY <1>1, <2>1, <2>3, TriesTo
  <2>5. /\ addrQueue' \in Seq(People) /\ IsInjective(addrQueue') /\ addrQueue' # <<>>
        /\ ToSet(addrQueue') = ToSet(addrQueue) \cup {u} /\ u \notin ToSet(addrQueue)
        /\ addrQueue # <<>> => Head(addrQueue') = Head(addrQueue)
    <3>1. u \notin ToSet(addrQueue)
      BY <1>1 DEF LineOf, Addressing
    <3> QED
      BY <1>1, <2>1, <3>1, IdentsTypeFacts, LongerLine
  <2>6. LineOf(u)'
    BY <1>1, <2>1, <2>3, <2>4 DEF LineOf, Naming, Addressing, Addressed
  <2>7. NameIsHis(u) => NameIsHis(u)'
    BY <1>1, <1>3, <2>3, <2>4 DEF NameIsHis, Named, Naming
  <2>8. NamesDiffer'
    BY <1>1, <2>3, <2>4, NamesKept DEF Others
  <2>9. Turns(u)
    BY <1>1, <2>5 DEF Turns
  <2>10. nameQueue' \in Seq(People) /\ IsInjective(nameQueue')
    BY <1>1, IdentsTypeFacts
  <2> QED
    BY <1>1, <2>1, <2>3, <2>5, <2>6, <2>7, <2>8, <2>9, <2>10, PlainStep DEF Addressing
<1> QED
  BY <1>2, <1>3

LEMMA XGetSuffix ==
  ASSUME IdentsInv, NEW u \in People, GetSuffix(u)
  PROVE  IdentsInv'
<1> DEFINE t == tries[u]
           n == Cardinality({v \in People : rows[v].name # 0})
           x == Try("probe", t.stored, t.cfg, t.found, n, 1)
<1>1. /\ t.pc = "name queue" /\ IdentsTypes /\ LineOf(u) /\ NamesDiffer /\ t \in TryType /\ t.cfg \in Configs
      /\ UNCHANGED <<rows, counted, queuesOfIdents, counter, commands, gone, torn>> /\ NameTurn(u)
      /\ tries' = [tries EXCEPT ![u] = x]
  BY IdentsTypeFacts DEF GetSuffix, TryAt, IdentsInv
<1>2. n \in Nat
  <2>1. IsFiniteSet({v \in People : rows[v].name # 0})
    BY IdentsAssumption, FS_Subset
  <2> QED
    BY <2>1, FS_CardinalityType
<1>3. "probe" \in TryPcs /\ 1 \in Names
  BY SomeNames DEF TryPcs
<1> HIDE DEF n
<1>4. x \in TryType /\ x.pc = "probe" /\ x.cfg = t.cfg /\ x.found = t.found /\ x.name = 1
  <2>1. t.stored \in BOOLEAN /\ t.cfg \in Configs /\ t.found \in Configs
    BY <1>1, TryParts
  <2> QED
    BY <1>2, <1>3, <2>1, TryFacts
<1> HIDE DEF x
<1>5. tries'[u] = x /\ \A v \in People : v # u => tries'[v] = tries[v]
  BY <1>1, <1>4, TriesTo
<1>6. LineOf(u)'
  BY <1>1, <1>4, <1>5 DEF LineOf, Naming, Addressing, Addressed, queuesOfIdents, NameTurn
<1>7. NameIsHis(u) => NameIsHis(u)'
  <2>1. x.name # 0
    BY <1>4
  <2>3. rows' = rows /\ commands' = commands
    BY <1>1
  <2>2. x.pc = "probe" /\ x.cfg = t.cfg /\ t.pc = "name queue"
    BY <1>1, <1>4
  <2> QED
    BY <1>5, <2>1, <2>2, <2>3 DEF NameIsHis, Named, Naming
<1>8. NamesDiffer'
  BY <1>1, <1>4, <1>5, NamesKept DEF Others
<1> QED
  BY <1>1, <1>4, <1>6, <1>7, <1>8, AloneStep DEF Addressing

LEMMA XProbe ==
  ASSUME IdentsInv, NEW u \in People, Probe(u)
  PROVE  IdentsInv'
<1> DEFINE t == tries[u]
           owners == {v \in People : rows[v].name = t.name}
<1>1. /\ t.pc = "probe" /\ IdentsTypes /\ LineOf(u) /\ NamesDiffer /\ t \in TryType /\ t.cfg \in Configs
      /\ UNCHANGED <<rows, counted, addrQueue, counter, commands, gone, torn>> /\ NameTurn(u)
  BY IdentsTypeFacts DEF Probe, TryAt, IdentsInv
<1>2. CASE (owners \ {u} = {} \/ u \in owners) /\ TryGoes(u, "name config") /\ UNCHANGED nameQueue
  <2> DEFINE x == Try("name config", t.stored, t.cfg, t.found, t.suffix, t.name)
  <2>1. tries' = [tries EXCEPT ![u] = x] /\ UNCHANGED queuesOfIdents
    BY <1>1, <1>2 DEF queuesOfIdents, TryGoes
  <2>2. "name config" \in TryPcs
    BY DEF TryPcs
  <2>3. x \in TryType /\ x.pc = "name config" /\ x.cfg = t.cfg /\ x.found = t.found /\ x.name = t.name
    BY <1>1, <2>2, MovedFacts
  <2> HIDE DEF x
  <2>4. tries'[u] = x /\ \A v \in People : v # u => tries'[v] = tries[v]
    BY <1>1, <2>1, <2>3, TriesTo
  <2>6. LineOf(u)'
    BY <1>1, <2>1, <2>3, <2>4 DEF LineOf, Naming, Addressing, Addressed, queuesOfIdents
  <2>7. NameIsHis(u) => NameIsHis(u)'
    BY <1>1, <2>3, <2>4 DEF NameIsHis, Named, Naming
  <2>8. NamesDiffer'
    <3>1. SUFFICES ASSUME NEW v \in People \ gone, NEW w \in People \ gone, v # w
                   PROVE  /\ rows[v].name # 0 => rows[v].name # rows[w].name
                          /\ tries'[v].pc \in {"name config", "store name"} => rows[w].name # tries'[v].name
      BY <1>1 DEF NamesDiffer
    <3>2. /\ rows[v].name # 0 => rows[v].name # rows[w].name
          /\ tries[v].pc \in {"name config", "store name"} => rows[w].name # tries[v].name
      BY <1>1, <3>1 DEF NamesDiffer
    <3>3. CASE v # u
      BY <2>4, <3>2, <3>3
    <3>4. CASE v = u
      <4>1. t.name # 0
        BY <1>1, <3>4 DEF IdentsInv, NameIsHis, Naming
      <4>2. rows[w].name # t.name
        BY <1>2, <3>1, <3>2, <3>4, <4>1
      <4> QED
        BY <2>3, <2>4, <3>2, <3>4, <4>2
    <3> QED
      BY <3>3, <3>4
  <2> QED
    BY <1>1, <2>1, <2>3, <2>6, <2>7, <2>8, AloneStep DEF Addressing
<1>3. CASE t.suffix > MaxSuffix /\ tries' = [tries EXCEPT ![u] = NoTry] /\ NameDone
  BY <1>1, <1>3, HangUpStep
<1>4. CASE /\ ~(t.suffix > MaxSuffix) /\ UNCHANGED nameQueue
           /\ tries' = [tries EXCEPT ![u] = Try("probe", t.stored, t.cfg, t.found, t.suffix + 1, t.suffix + 2)]
  <2> DEFINE x == Try("probe", t.stored, t.cfg, t.found, t.suffix + 1, t.suffix + 2)
  <2>1. tries' = [tries EXCEPT ![u] = x] /\ UNCHANGED queuesOfIdents
    BY <1>1, <1>4 DEF queuesOfIdents
  <2>2. "probe" \in TryPcs
    BY DEF TryPcs
  <2>5. t.suffix \in Nat
    BY <1>1, TryParts
  <2>9. t.suffix + 1 \in Nat /\ t.suffix + 2 \in Names /\ t.suffix + 2 # 0
    BY <1>4, <2>5, SomeNames
  <2>3. x \in TryType /\ x.pc = "probe" /\ x.cfg = t.cfg /\ x.found = t.found /\ x.name = t.suffix + 2
    <3>1. t.stored \in BOOLEAN /\ t.cfg \in Configs /\ t.found \in Configs
      BY <1>1, TryParts
    <3> QED
      BY <2>2, <2>9, <3>1, TryFacts
  <2> HIDE DEF x
  <2>4. tries'[u] = x /\ \A v \in People : v # u => tries'[v] = tries[v]
    BY <1>1, <2>1, <2>3, TriesTo
  <2>6. LineOf(u)'
    BY <1>1, <2>1, <2>3, <2>4 DEF LineOf, Naming, Addressing, Addressed, queuesOfIdents
  <2>7. NameIsHis(u) => NameIsHis(u)'
    BY <1>1, <2>3, <2>4, <2>9 DEF NameIsHis, Named, Naming
  <2>8. NamesDiffer'
    BY <1>1, <2>3, <2>4, NamesKept DEF Others
  <2> QED
    BY <1>1, <2>1, <2>3, <2>6, <2>7, <2>8, AloneStep DEF Addressing
<1> QED
  BY <1>2, <1>3, <1>4 DEF Probe

LEMMA XNameConfig ==
  ASSUME IdentsInv, NEW u \in People, NameConfig(u)
  PROVE  IdentsInv'
<1> DEFINE t == tries[u]
           cfg == IF rows[u].exists THEN t.cfg ELSE Config(t.cfg.exists, t.name, t.cfg.addr)
           found == Config(StoredOf(u).exists, t.name, StoredOf(u).addr)
           x == Try("store name", t.stored, cfg, found, t.suffix, t.name)
<1>1. /\ t.pc = "name config" /\ IdentsTypes /\ LineOf(u) /\ NamesDiffer /\ t \in TryType /\ t.cfg \in Configs
      /\ UNCHANGED <<rows, counted, queuesOfIdents, counter, commands, gone, torn>> /\ NameTurn(u)
      /\ StoredOf(u) \in Configs /\ rows[u] \in Configs
  BY IdentsTypeFacts DEF NameConfig, TryAt, IdentsInv
<1>2. tries' = [tries EXCEPT ![u] = x]
  BY DEF NameConfig
<1>3. t.name \in Names /\ t.cfg.addr \in Nat /\ StoredOf(u).addr \in Nat
  BY <1>1, TryParts, ConfigParts
<1>12. t.cfg \in Configs /\ StoredOf(u) \in Configs
  BY <1>1
<1>4. /\ cfg \in Configs /\ cfg.addr = t.cfg.addr
      /\ cfg.name = IF rows[u].exists THEN t.cfg.name ELSE t.name
  <2>1. CASE rows[u].exists
    BY <1>1, <2>1
  <2>2. CASE ~rows[u].exists
    BY <1>3, <1>12, <2>2, ConfigWith
  <2> QED
    BY <2>1, <2>2
<1>5. found \in Configs /\ found.name = t.name /\ found.addr = StoredOf(u).addr
  BY <1>3, <1>12, ConfigWith
<1>13. t \in TryType
  BY <1>1
<1> HIDE DEF cfg, found
<1> HIDE DEF x
<1>6. /\ x \in TryType /\ x.pc = "store name" /\ x.cfg = cfg /\ x.found = found /\ x.name = t.name
  <2>1. "store name" \in TryPcs
    BY DEF TryPcs
  <2>2. cfg \in Configs /\ found \in Configs
    BY <1>4, <1>5
  <2>3. x = Try("store name", t.stored, cfg, found, t.suffix, t.name)
    BY DEF x
  <2> QED
    <3>1. x \in TryType
      BY <2>1, <2>2, <1>13, <2>3, TryWith
    <3>2. x.pc = "store name" /\ x.cfg = cfg /\ x.found = found /\ x.name = t.name
      BY <2>3 DEF Try
    <3> QED
      BY <3>1, <3>2
<1>7. tries'[u] = x /\ \A v \in People : v # u => tries'[v] = tries[v]
  BY <1>1, <1>2, <1>6, TriesTo DEF x
<1>8. LineOf(u)'
  BY <1>1, <1>6, <1>7 DEF LineOf, Naming, Addressing, Addressed, queuesOfIdents
<1>9. NameIsHis(u) => NameIsHis(u)'
  <2>1. SUFFICES ASSUME NameIsHis(u)
                 PROVE  NameIsHis(u)'
    OBVIOUS
  <2>2. t.name # 0 /\ t.cfg.name = 0
    BY <1>1, <2>1 DEF NameIsHis, Naming
  <2>3. cfg.name \in {0, t.name}
    BY <1>4, <2>2
  <2>4. rows' = rows /\ commands' = commands
    BY <1>1
  <2> QED
    BY <1>5, <1>6, <1>7, <2>1, <2>2, <2>3, <2>4 DEF NameIsHis, Named, Naming
<1>10. NamesDiffer'
  BY <1>1, <1>6, <1>7, NamesKept DEF Others
<1>11. found.addr \in Held(u) \cup {0}
  BY <1>5 DEF StoredOf, Held
<1> QED
  BY <1>1, <1>2, <1>4, <1>6, <1>8, <1>9, <1>10, <1>11, AloneStep DEF Addressing, x

LEMMA XAddrConfig ==
  ASSUME IdentsInv, NEW u \in People, AddrConfig(u)
  PROVE  IdentsInv'
<1> DEFINE t == tries[u]
           found == Config(StoredOf(u).exists, StoredOf(u).name, t.cfg.addr)
           x == Try("store address", t.stored, t.cfg, found, t.suffix, t.name)
<1>1. /\ t.pc = "address config" /\ IdentsTypes /\ LineOf(u) /\ NamesDiffer /\ t \in TryType /\ t.cfg \in Configs
      /\ UNCHANGED <<rows, counted, queuesOfIdents, counter, commands, gone, torn>> /\ AddrTurn(u)
      /\ StoredOf(u) \in Configs /\ rows[u] \in Configs
  BY IdentsTypeFacts DEF AddrConfig, TryAt, IdentsInv
<1>2. tries' = [tries EXCEPT ![u] = x]
  BY DEF AddrConfig
<1>3. StoredOf(u).name \in Names /\ t.cfg.addr \in Nat
  BY <1>1, TryParts, ConfigParts
<1>4. t \in TryType /\ t.cfg \in Configs /\ StoredOf(u) \in Configs
  BY <1>1
<1>5. found \in Configs /\ found.name = StoredOf(u).name /\ found.addr = t.cfg.addr
  BY <1>3, <1>4, ConfigWith
<1> HIDE DEF found
<1> HIDE DEF x
<1>6. /\ x \in TryType /\ x.pc = "store address" /\ x.cfg = t.cfg /\ x.found = found /\ x.name = t.name
  <2>1. "store address" \in TryPcs
    BY DEF TryPcs
  <2>2. found \in Configs
    BY <1>5
  <2>3. x = Try("store address", t.stored, t.cfg, found, t.suffix, t.name)
    BY DEF x
  <2> QED
    <3>1. x \in TryType
      BY <1>4, <2>1, <2>2, <2>3, TryWith
    <3>2. x.pc = "store address" /\ x.cfg = t.cfg /\ x.found = found /\ x.name = t.name
      BY <2>3 DEF Try
    <3> QED
      BY <3>1, <3>2
<1>7. tries'[u] = x /\ \A v \in People : v # u => tries'[v] = tries[v]
  BY <1>1, <1>2, <1>6, TriesTo DEF x
<1>8. LineOf(u)'
  BY <1>1, <1>6, <1>7 DEF LineOf, Naming, Addressing, Addressed, queuesOfIdents
<1>9. NameIsHis(u) => NameIsHis(u)'
  <2>1. SUFFICES ASSUME NameIsHis(u)
                 PROVE  NameIsHis(u)'
    OBVIOUS
  <2>2. rows[u].name = t.name /\ t.name # 0 /\ rows[u].exists
    BY <1>1, <2>1 DEF NameIsHis, Named
  <2>3. found.name = rows[u].name
    BY <1>5, <2>2 DEF StoredOf
  <2>4. rows' = rows /\ commands' = commands
    BY <1>1
  <2> QED
    BY <1>1, <1>6, <1>7, <2>1, <2>2, <2>3, <2>4 DEF NameIsHis, Named, Naming
<1>10. NamesDiffer'
  BY <1>1, <1>6, <1>7, NamesKept DEF Others
<1>11. found.addr \in Held(u) \cup {0}
  BY <1>5 DEF Held
<1>12. x.cfg.addr = t.cfg.addr /\ x.found.addr \in Held(u) \cup {0} /\ x.pc \in Addressing
       /\ t.pc # "store counter"
  BY <1>1, <1>6, <1>11 DEF Addressing
<1> QED
  BY <1>1, <1>2, <1>6, <1>8, <1>9, <1>10, <1>12, AloneStep DEF x

LEMMA XStoreName ==
  ASSUME IdentsInv, NEW u \in People, StoreName(u)
  PROVE  IdentsInv'
<1> DEFINE t == tries[u]
<1>1. /\ t.pc = "store name" /\ IdentsTypes /\ LineOf(u) /\ NamesDiffer /\ t.found \in Configs
      /\ UNCHANGED <<counted, addrQueue, counter, commands, torn>> /\ NameTurn(u)
      /\ Writes(u, t.found) /\ TryGoes(u, "address") /\ NameDone
  BY IdentsTypeFacts DEF StoreName, TryAt, IdentsInv
<1>2. "address" \in TryPcs
  BY DEF TryPcs
<1>3. /\ rows' \in [People -> Configs] /\ rows'[u].exists /\ rows'[u].name = t.found.name
      /\ rows'[u].addr = t.found.addr
      /\ \A v \in People : v # u => rows'[v] = rows[v]
      /\ gone \subseteq gone' /\ gone' \subseteq People
      /\ u \notin gone' => u \notin gone /\ rows[u].name \in {0, t.found.name}
  BY <1>1, WritesFacts
<1>4. /\ tries' \in [People -> TryType] /\ tries'[u].pc = "address" /\ tries'[u].cfg = t.cfg
      /\ tries'[u].found = t.found /\ tries'[u].name = t.name
      /\ \A v \in People : v # u => tries'[v] = tries[v]
  BY <1>1, <1>2, TryGoesFacts
<1>5. nameQueue # <<>> /\ Head(nameQueue) = u /\ nameQueue' = Tail(nameQueue)
  BY <1>1 DEF NameTurn, NameDone
<1>6. /\ nameQueue' \in Seq(People) /\ IsInjective(nameQueue')
      /\ ToSet(nameQueue') = ToSet(nameQueue) \ {u}
  BY <1>1, <1>5, IdentsTypeFacts, TailLine
<1>7. IdentsTypes'
  BY <1>1, <1>3, <1>4, <1>6, IdentsTypeFacts, IdentsTypeParts
<1>8. Others(u) /\ Turns(u)
  BY <1>1, <1>3, <1>4, <1>5, <1>6 DEF Others, Turns
<1>9. LineOf(u)'
  <2>1. u \notin ToSet(addrQueue)
    BY <1>1 DEF LineOf, Addressing
  <2> QED
    BY <1>1, <1>4, <1>6, <2>1 DEF LineOf, Naming, Addressing, Addressed
<1>10. u \notin gone' => NameIsHis(u)'
  <2>1. SUFFICES ASSUME u \notin gone'
                 PROVE  NameIsHis(u)'
    OBVIOUS
  <2>2. NameIsHis(u) /\ rows[u].name \in {0, t.found.name}
    BY <1>3, <2>1 DEF IdentsInv
  <2>3. t.found.name = t.name /\ t.cfg.name \in {0, t.name} /\ t.name # 0
    BY <1>1, <2>2 DEF NameIsHis, Naming
  <2> QED
    BY <1>1, <1>3, <1>4, <2>2, <2>3 DEF NameIsHis, Named, Naming
<1>11. NamesDiffer'
  <2>1. SUFFICES ASSUME NEW v \in People \ gone', NEW w \in People \ gone', v # w
                 PROVE  /\ rows'[v].name # 0 => rows'[v].name # rows'[w].name
                        /\ tries'[v].pc \in {"name config", "store name"} => rows'[w].name # tries'[v].name
    BY DEF NamesDiffer
  <2>2. v \in People \ gone /\ w \in People \ gone
    BY <1>3, <2>1
  <2>3. \A a, b \in People \ gone : a # b =>
          /\ rows[a].name # 0 => rows[a].name # rows[b].name
          /\ tries[a].pc \in {"name config", "store name"} => rows[b].name # tries[a].name
    BY <1>1 DEF NamesDiffer
  <2>4. u \notin gone => t.found.name = t.name /\ t.name # 0
    BY <1>1 DEF IdentsInv, NameIsHis, Naming
  <2>5. CASE v = u
    <3>1. rows'[w] = rows[w] /\ rows'[u].name = t.name /\ rows[w].name # t.name
      BY <1>1, <1>3, <2>1, <2>2, <2>3, <2>4, <2>5
    <3>2. tries'[u].pc = "address"
      BY <1>4
    <3> QED
      BY <2>5, <3>1, <3>2
  <2>6. CASE w = u
    <3>1. rows'[v] = rows[v] /\ tries'[v] = tries[v] /\ rows'[u].name = t.name /\ rows[v].name # t.name
      BY <1>1, <1>3, <1>4, <2>1, <2>2, <2>3, <2>4, <2>6
    <3>2. tries[v].pc \notin {"name config", "store name"}
      <4>1. LineOf(v)
        BY DEF IdentsInv
      <4> QED
        BY <1>5, <2>1, <2>6, <4>1 DEF LineOf, Naming
    <3> QED
      BY <2>6, <3>1, <3>2
  <2>7. CASE v # u /\ w # u
    <3>1. rows'[v] = rows[v] /\ rows'[w] = rows[w] /\ tries'[v] = tries[v]
      BY <1>3, <1>4, <2>1, <2>7
    <3> QED
      BY <2>1, <2>2, <2>3, <3>1
  <2> QED
    BY <2>5, <2>6, <2>7
<1>12. Held(u)' \subseteq Held(u)
  BY <1>1, <1>3, <1>4 DEF Held
<1>13. AddrsDiffer => Covered(u)'
  BY <1>1, <1>12 DEF AddrsDiffer, Covered, Addressing
<1>14. counted <= counted' /\ counter <= counter'
  BY <1>1, CountsKept
<1> QED
  BY <1>1, <1>3, <1>7, <1>8, <1>9, <1>10, <1>11, <1>12, <1>13, <1>14, IdentsStep

LEMMA XCount ==
  ASSUME IdentsInv, NEW u \in People, Count(u)
  PROVE  IdentsInv'
<1> DEFINE t == tries[u]
           next == IF counter = -1 THEN counted + 1 ELSE counter + 1
           cfg == Config(t.cfg.exists, t.cfg.name, next)
           x == Try("address config", t.stored, cfg, t.found, t.suffix, t.name)
<1>1. /\ t.pc = "address queue" /\ IdentsTypes /\ LineOf(u) /\ NamesDiffer /\ t \in TryType
      /\ UNCHANGED <<rows, counted, queuesOfIdents, commands, gone, torn>> /\ AddrTurn(u)
      /\ t.cfg \in Configs /\ t.found \in Configs
  BY IdentsTypeFacts DEF Count, TryAt, IdentsInv
<1>2. tries' = [tries EXCEPT ![u] = x] /\ counter' = next
  BY DEF Count
<1>3. next \in Nat /\ next # 0 /\ next # -1 /\ next > counted /\ next > counter
  <2>1. counted \in Nat /\ counter \in Nat \cup {-1} /\ (counter # -1 => counted <= counter)
    BY <1>1 DEF IdentsTypes, IdentsTypeOK
  <2> QED
    BY <2>1
<1> HIDE DEF next
<1>4. t.cfg.name \in Names
  BY <1>1, ConfigParts
<1>5. cfg \in Configs /\ cfg.name = t.cfg.name /\ cfg.addr = next
  <2>1. next \in Nat /\ t.cfg \in Configs
    BY <1>1, <1>3
  <2> QED
    BY <1>4, <2>1, ConfigWith
<1> HIDE DEF cfg, x
<1>6. x \in TryType /\ x.pc = "address config" /\ x.cfg = cfg /\ x.found = t.found /\ x.name = t.name
  <2>1. "address config" \in TryPcs
    BY DEF TryPcs
  <2>2. x = Try("address config", t.stored, cfg, t.found, t.suffix, t.name)
    BY DEF x
  <2>3. x \in TryType
    BY <1>1, <1>5, <2>1, <2>2, TryWith
  <2>4. x.pc = "address config" /\ x.cfg = cfg /\ x.found = t.found /\ x.name = t.name
    BY <2>2 DEF Try
  <2> QED
    BY <2>3, <2>4
<1>7. tries' \in [People -> TryType] /\ tries'[u] = x /\ \A v \in People : v # u => tries'[v] = tries[v]
  BY <1>1, <1>2, <1>6, TriesTo
<1>8. IdentsTypes'
  <2>1. counter' \in Nat /\ counted' \in Nat /\ counted' <= counter'
    <3>1. counter' = next /\ counted' = counted /\ counted \in Nat
      BY <1>1, <1>2, CountTypes
    <3> QED
      BY <1>3, <3>1
  <2> QED
    BY <1>1, <1>7, <2>1, IdentsTypeFacts, IdentsTypeParts DEF queuesOfIdents
<1>9. counted <= counted' /\ counter <= counter'
  <2>1. counted \in Nat /\ counter \in Int
    BY <1>1, CountTypes
  <2>2. counter' = next /\ counted' = counted
    BY <1>1, <1>2
  <2> QED
    BY <1>3, <2>1, <2>2
<1>10. Others(u) /\ Turns(u)
  BY <1>1, <1>2, <1>3, <1>7, SameTurns DEF Others
<1>11. LineOf(u)'
  BY <1>1, <1>2, <1>3, <1>5, <1>6, <1>7 DEF LineOf, Naming, Addressing, Addressed, queuesOfIdents, AddrTurn
<1>12. u \notin gone' => NameIsHis(u)'
  <2>1. SUFFICES ASSUME NameIsHis(u)
                 PROVE  NameIsHis(u)'
    BY <1>1 DEF IdentsInv
  <2>2. rows' = rows /\ commands' = commands
    BY <1>1
  <2> QED
    BY <1>1, <1>5, <1>6, <1>7, <2>1, <2>2 DEF NameIsHis, Named, Naming
<1>13. NamesDiffer'
  BY <1>1, <1>6, <1>7, <1>10, NamesKept
<1>14. Kept(u)' = Kept(u) /\ Held(u)' \subseteq Held(u) \cup {next} /\ Kept(u) \subseteq Held(u)
  BY <1>1, <1>5, <1>6, <1>7 DEF Held, Kept
<1>15. ASSUME AddrsDiffer
       PROVE  Covered(u)' /\ \A a \in Held(u)' : a \in Held(u) \/ (a > counted /\ a > counter)
  <2>1. \A a \in Held(u) : a <= counted
    BY <1>1, <1>15 DEF AddrsDiffer, Covered, Addressing
  <2>2. next \notin Held(u)
    <3>1. counted \in Nat
      BY <1>1 DEF IdentsTypes, IdentsTypeOK
    <3> QED
      BY <1>3, <2>1, <3>1
  <2>3. next <= counter'
    BY <1>2, <1>3
  <2>4. x.pc \in Addressing
    BY <1>6 DEF Addressing
  <2> QED
    BY <1>1, <1>2, <1>3, <1>7, <1>14, <2>1, <2>2, <2>3, <2>4 DEF Covered
<1> QED
  BY <1>1, <1>8, <1>9, <1>10, <1>11, <1>12, <1>13, <1>15, IdentsStep

LEMMA XStoreAddr ==
  ASSUME IdentsInv, NEW u \in People, StoreAddr(u)
  PROVE  IdentsInv'
<1> DEFINE t == tries[u]
<1>1. /\ t.pc = "store address" /\ IdentsTypes /\ LineOf(u) /\ NamesDiffer /\ t.found \in Configs
      /\ UNCHANGED <<counted, queuesOfIdents, counter, commands, torn>>
      /\ Writes(u, t.found) /\ TryGoes(u, "store counter")
  BY IdentsTypeFacts DEF StoreAddr, TryAt, IdentsInv
<1>2. "store counter" \in TryPcs
  BY DEF TryPcs
<1>3. /\ rows' \in [People -> Configs] /\ rows'[u].exists /\ rows'[u].name = t.found.name
      /\ rows'[u].addr = t.found.addr
      /\ \A v \in People : v # u => rows'[v] = rows[v]
      /\ gone \subseteq gone' /\ gone' \subseteq People
      /\ u \notin gone' => u \notin gone /\ rows[u].name \in {0, t.found.name}
  BY <1>1, WritesFacts
<1>4. /\ tries' \in [People -> TryType] /\ tries'[u].pc = "store counter" /\ tries'[u].cfg = t.cfg
      /\ tries'[u].found = t.found /\ tries'[u].name = t.name
      /\ \A v \in People : v # u => tries'[v] = tries[v]
  BY <1>1, <1>2, TryGoesFacts
<1>7. IdentsTypes'
  BY <1>1, <1>3, <1>4, IdentsTypeFacts, IdentsTypeParts DEF queuesOfIdents
<1>8. Others(u) /\ Turns(u)
  BY <1>1, <1>3, <1>4, SameTurns DEF Others
<1>9. LineOf(u)'
  BY <1>1, <1>4 DEF LineOf, Naming, Addressing, Addressed, queuesOfIdents
<1>10. u \notin gone' => NameIsHis(u)' /\ rows'[u].name = rows[u].name
  <2>1. SUFFICES ASSUME u \notin gone'
                 PROVE  NameIsHis(u)' /\ rows'[u].name = rows[u].name
    OBVIOUS
  <2>2. NameIsHis(u)
    BY <1>3, <2>1 DEF IdentsInv
  <2>3. t.found.name = rows[u].name
    BY <1>1, <2>2 DEF NameIsHis
  <2> QED
    BY <1>1, <1>3, <1>4, <2>2, <2>3 DEF NameIsHis, Named, Naming
<1>11. NamesDiffer'
  BY <1>1, <1>3, <1>4, <1>8, <1>10, NamesKept
<1>12. Held(u)' \subseteq Held(u)
  BY <1>1, <1>3, <1>4 DEF Held
<1>13. AddrsDiffer => Covered(u)'
  BY <1>1, <1>4, <1>12 DEF AddrsDiffer, Covered, Addressing
<1>14. counted <= counted' /\ counter <= counter'
  BY <1>1, CountsKept
<1> QED
  BY <1>1, <1>3, <1>7, <1>8, <1>9, <1>10, <1>11, <1>12, <1>13, <1>14, IdentsStep

LEMMA XStoreCounter ==
  ASSUME IdentsInv, NEW u \in People, StoreCounter(u)
  PROVE  IdentsInv'
<1> DEFINE t == tries[u]
<1>1. /\ t.pc = "store counter" /\ IdentsTypes /\ LineOf(u) /\ NamesDiffer /\ AddrTurn(u)
      /\ UNCHANGED <<rows, nameQueue, counter, commands, gone, torn>> /\ counted' = counter
      /\ TryGoes(u, "dials") /\ addrQueue' = Tail(addrQueue)
  BY IdentsTypeFacts DEF StoreCounter, TryAt, IdentsInv
<1>2. "dials" \in TryPcs
  BY DEF TryPcs
<1>3. /\ tries' \in [People -> TryType] /\ tries'[u].pc = "dials" /\ tries'[u].cfg = t.cfg
      /\ tries'[u].found = t.found /\ tries'[u].name = t.name
      /\ \A v \in People : v # u => tries'[v] = tries[v]
  BY <1>1, <1>2, TryGoesFacts
<1>4. counter # -1 /\ t.cfg.addr # 0
  BY <1>1 DEF LineOf, Addressing, Addressed
<1>5. counter \in Nat /\ counted \in Nat /\ counted <= counter
  BY <1>1, <1>4, CountTypes
<1>6. counted <= counted' /\ counter <= counter'
  <2>1. counted' = counter /\ counter' = counter
    BY <1>1
  <2> QED
    BY <1>5, <2>1
<1>7. addrQueue # <<>> /\ Head(addrQueue) = u
  BY <1>1 DEF AddrTurn
<1>8. /\ addrQueue' \in Seq(People) /\ IsInjective(addrQueue')
      /\ ToSet(addrQueue') = ToSet(addrQueue) \ {u}
  BY <1>1, <1>7, IdentsTypeFacts, TailLine
<1>9. IdentsTypes'
  BY <1>1, <1>3, <1>5, <1>6, <1>8, IdentsTypeFacts, IdentsTypeParts
<1>10. Others(u) /\ Turns(u)
  BY <1>1, <1>3, <1>7, <1>8 DEF Others, Turns
<1>11. LineOf(u)'
  BY <1>1, <1>3, <1>4, <1>8 DEF LineOf, Naming, Addressing, Addressed
<1>12. u \notin gone' => NameIsHis(u)'
  BY <1>1, <1>3 DEF IdentsInv, NameIsHis, Named, Naming
<1>13. NamesDiffer'
  BY <1>1, <1>3, <1>10, NamesKept
<1>14. Held(u)' = Held(u)
  BY <1>1, <1>3 DEF Held
<1>15. AddrsDiffer => Covered(u)'
  <2>1. SUFFICES ASSUME Covered(u), NEW a \in Held(u)
                 PROVE  a <= counter
    BY <1>1, <1>14 DEF AddrsDiffer, Covered
  <2>2. a \in Nat
    <3>1. rows[u] \in Configs /\ t.cfg \in Configs /\ t.found \in Configs /\ commands[u].cfg \in Configs
      BY <1>1, IdentsTypeFacts
    <3> QED
      BY <3>1, ConfigParts DEF Held
  <2>3. a <= counted \/ a <= counter
    BY <2>1 DEF Covered
  <2> QED
    BY <1>5, <2>2, <2>3
<1> QED
  BY <1>1, <1>6, <1>9, <1>10, <1>11, <1>12, <1>13, <1>14, <1>15, IdentsStep

LEMMA XStoreConfig ==
  ASSUME IdentsInv, NEW u \in People, StoreConfig(u)
  PROVE  IdentsInv'
<1> DEFINE t == tries[u]
<1>1. /\ t.pc = "online" /\ IdentsTypes /\ LineOf(u) /\ NamesDiffer /\ t.cfg \in Configs
      /\ UNCHANGED <<counted, queuesOfIdents, counter, commands, torn>>
      /\ Writes(u, t.cfg) /\ TryGoes(u, "up")
  BY IdentsTypeFacts DEF StoreConfig, TryAt, IdentsInv
<1>2. "up" \in TryPcs
  BY DEF TryPcs
<1>3. /\ rows' \in [People -> Configs] /\ rows'[u].exists /\ rows'[u].name = t.cfg.name
      /\ rows'[u].addr = t.cfg.addr
      /\ \A v \in People : v # u => rows'[v] = rows[v]
      /\ gone \subseteq gone' /\ gone' \subseteq People
      /\ u \notin gone' => u \notin gone /\ rows[u].name \in {0, t.cfg.name}
  BY <1>1, WritesFacts
<1>4. /\ tries' \in [People -> TryType] /\ tries'[u].pc = "up" /\ tries'[u].cfg = t.cfg
      /\ tries'[u].found = t.found /\ tries'[u].name = t.name
      /\ \A v \in People : v # u => tries'[v] = tries[v]
  BY <1>1, <1>2, TryGoesFacts
<1>7. IdentsTypes'
  BY <1>1, <1>3, <1>4, IdentsTypeFacts, IdentsTypeParts DEF queuesOfIdents
<1>8. Others(u) /\ Turns(u)
  BY <1>1, <1>3, <1>4, SameTurns DEF Others
<1>9. LineOf(u)'
  BY <1>1, <1>4 DEF LineOf, Naming, Addressing, Addressed, queuesOfIdents
<1>10. u \notin gone' => NameIsHis(u)' /\ rows'[u].name = rows[u].name
  <2>1. SUFFICES ASSUME u \notin gone'
                 PROVE  NameIsHis(u)' /\ rows'[u].name = rows[u].name
    OBVIOUS
  <2>2. NameIsHis(u)
    BY <1>3, <2>1 DEF IdentsInv
  <2>3. rows[u].name = t.name /\ t.name # 0
    BY <1>1, <2>2 DEF NameIsHis, Named
  <2>4. t.cfg.name = rows[u].name
    BY <1>3, <2>1, <2>3
  <2> QED
    BY <1>1, <1>3, <1>4, <2>2, <2>3, <2>4 DEF NameIsHis, Named, Naming
<1>11. NamesDiffer'
  BY <1>1, <1>3, <1>4, <1>8, <1>10, NamesKept
<1>12. Held(u)' \subseteq Held(u)
  BY <1>1, <1>3, <1>4 DEF Held
<1>13. AddrsDiffer => Covered(u)'
  BY <1>1, <1>12 DEF AddrsDiffer, Covered, Addressing
<1>14. counted <= counted' /\ counter <= counter'
  BY <1>1, CountsKept
<1> QED
  BY <1>1, <1>3, <1>7, <1>8, <1>9, <1>10, <1>11, <1>12, <1>13, <1>14, IdentsStep

LEMMA XCommand ==
  ASSUME IdentsInv, NEW u \in People, Command(u)
  PROVE  IdentsInv'
<1> DEFINE c == [pc |-> "store", cfg |-> rows[u]]
<1>1. /\ IdentsTypes /\ LineOf(u) /\ NamesDiffer /\ rows[u] \in Configs
      /\ UNCHANGED <<rows, counted, tries, queuesOfIdents, counter, gone, torn>>
      /\ commands' = [commands EXCEPT ![u] = c]
  BY IdentsTypeFacts DEF Command, IdentsInv
<1>2. c \in CommandType /\ c.cfg = rows[u]
  BY <1>1 DEF CommandType
<1> HIDE DEF c
<1>3. /\ commands' \in [People -> CommandType] /\ commands'[u] = c
      /\ \A v \in People : v # u => commands'[v] = commands[v]
  BY <1>1, <1>2, IdentsTypeFacts
<1>4. IdentsTypes'
  BY <1>1, <1>3, IdentsTypeFacts, IdentsTypeParts DEF queuesOfIdents
<1>5. Others(u) /\ Turns(u)
  BY <1>1, <1>3, SameTurns DEF Others
<1>6. LineOf(u)'
  BY <1>1 DEF LineOf, queuesOfIdents
<1>7. u \notin gone' => NameIsHis(u)'
  BY <1>1, <1>2, <1>3 DEF IdentsInv, NameIsHis
<1>8. NamesDiffer'
  BY <1>1, <1>5, NamesKept
<1>9. Held(u)' \subseteq Held(u) /\ Kept(u)' \subseteq Kept(u)
  BY <1>1, <1>2, <1>3 DEF Held, Kept
<1>10. AddrsDiffer => Covered(u)'
  BY <1>1, <1>9 DEF AddrsDiffer, Covered
<1>11. counted <= counted' /\ counter <= counter'
  BY <1>1, CountsKept
<1> QED
  BY <1>1, <1>4, <1>5, <1>6, <1>7, <1>8, <1>9, <1>10, <1>11, IdentsStep

LEMMA XStoreCommand ==
  ASSUME IdentsInv, NEW u \in People, StoreCommand(u)
  PROVE  IdentsInv'
<1> DEFINE c == commands[u]
<1>1. /\ IdentsTypes /\ LineOf(u) /\ NamesDiffer /\ c.cfg \in Configs
      /\ UNCHANGED <<counted, tries, queuesOfIdents, counter, torn>>
      /\ Writes(u, c.cfg) /\ commands' = [commands EXCEPT ![u] = NoCommand]
  BY IdentsTypeFacts DEF StoreCommand, IdentsInv
<1>2. /\ rows' \in [People -> Configs] /\ rows'[u].exists /\ rows'[u].name = c.cfg.name
      /\ rows'[u].addr = c.cfg.addr
      /\ \A v \in People : v # u => rows'[v] = rows[v]
      /\ gone \subseteq gone' /\ gone' \subseteq People
      /\ u \notin gone' => u \notin gone /\ rows[u].name \in {0, c.cfg.name}
  BY <1>1, WritesFacts
<1>3. /\ commands' \in [People -> CommandType] /\ commands'[u] = NoCommand
      /\ \A v \in People : v # u => commands'[v] = commands[v]
  BY <1>1, NoFacts, IdentsTypeFacts
<1>4. IdentsTypes'
  BY <1>1, <1>2, <1>3, IdentsTypeFacts, IdentsTypeParts DEF queuesOfIdents
<1>5. Others(u) /\ Turns(u)
  BY <1>1, <1>2, <1>3, SameTurns DEF Others
<1>6. LineOf(u)'
  BY <1>1 DEF LineOf, queuesOfIdents
<1>7. u \notin gone' => NameIsHis(u)' /\ rows'[u].name = rows[u].name
  <2>1. SUFFICES ASSUME u \notin gone'
                 PROVE  NameIsHis(u)' /\ rows'[u].name = rows[u].name
    OBVIOUS
  <2>2. NameIsHis(u)
    BY <1>2, <2>1 DEF IdentsInv
  <2>3. rows'[u].name = rows[u].name
    BY <1>2, <2>1, <2>2 DEF NameIsHis
  <2>4. NoCommand.cfg.name = 0
    BY NoFacts
  <2> QED
    BY <1>1, <1>2, <1>3, <2>2, <2>3, <2>4 DEF NameIsHis
<1>8. NamesDiffer'
  BY <1>1, <1>2, <1>5, <1>7, NamesKept
<1>9. Held(u)' \subseteq Held(u) /\ Kept(u)' \subseteq Kept(u)
  BY <1>1, <1>2, <1>3, NoFacts DEF Held, Kept
<1>10. AddrsDiffer => Covered(u)'
  BY <1>1, <1>9 DEF AddrsDiffer, Covered
<1>11. counted <= counted' /\ counter <= counter'
  BY <1>1, CountsKept
<1> QED
  BY <1>1, <1>2, <1>4, <1>5, <1>6, <1>7, <1>8, <1>9, <1>10, <1>11, IdentsStep

LEMMA XCrash ==
  ASSUME IdentsInv, Crash
  PROVE  IdentsInv'
<1>1. /\ IdentsTypes /\ NamesDiffer /\ UNCHANGED <<rows, counted, gone>>
      /\ tries' = [u \in People |-> NoTry] /\ addrQueue' = <<>> /\ counter' = -1 /\ nameQueue' = <<>>
      /\ commands' = [u \in People |-> NoCommand]
      /\ torn' = (torn \/ \E u \in People : TryAt(u, "store counter"))
  BY DEF Crash, IdentsInv
<1>2. \A u \in People : tries'[u] = NoTry /\ commands'[u] = NoCommand /\ rows'[u] = rows[u]
  BY <1>1
<1>3. <<>> \in Seq(People) /\ IsInjective(<<>>) /\ ToSet(<<>>) = {}
  BY EmptySeq DEF IsInjective, ToSet
<1>4. IdentsTypes'
  <2>1. tries' \in [People -> TryType] /\ commands' \in [People -> CommandType]
    BY <1>1, NoFacts
  <2>2. torn' \in BOOLEAN
    BY <1>1
  <2>3. counter' \in Nat \cup {-1} /\ (counter' # -1 => counted' <= counter')
    BY <1>1
  <2> QED
    BY <1>1, <1>3, <2>1, <2>2, <2>3, IdentsTypeFacts, IdentsTypeParts
<1>5. ASSUME NEW u \in People
      PROVE  LineOf(u)'
  BY <1>1, <1>2, <1>3, NoFacts DEF LineOf, Naming, Addressing, Addressed
<1>6. ASSUME NEW u \in People \ gone
      PROVE  NameIsHis(u)'
  BY <1>2, NoFacts DEF IdentsInv, NameIsHis, Named, Naming
<1>7. NamesDiffer'
  <2>1. \A u \in People : tries'[u].pc = "none"
    BY <1>2, NoFacts
  <2> QED
    BY <1>1, <2>1 DEF NamesDiffer
<1>8. ASSUME ~torn'
      PROVE  AddrsDiffer'
  <2>1. AddrsDiffer /\ \A u \in People : tries[u].pc # "store counter"
    BY <1>1, <1>8 DEF TryAt, IdentsInv
  <2>2. \A u \in People : Held(u)' \subseteq Kept(u) /\ Kept(u) \subseteq Held(u)
    BY <1>1, <1>2, NoFacts DEF Held, Kept
  <2>3. \A u \in People : Covered(u)'
    BY <1>1, <2>1, <2>2 DEF AddrsDiffer, Covered
  <2>4. ASSUME NEW u \in People, NEW v \in People, u # v
        PROVE  Held(u)' \cap Held(v)' = {}
    BY <2>1, <2>2, <2>4 DEF AddrsDiffer
  <2> QED
    BY <2>3, <2>4 DEF AddrsDiffer
<1>9. torn' \/ AddrsDiffer'
  BY <1>8
<1> QED
  BY <1>1, <1>4, <1>5, <1>6, <1>7, <1>9 DEF IdentsInv

LEMMA XIdents ==
  ASSUME IdentsInv, [IdentsNext]_identVars
  PROVE  IdentsInv'
<1>1. ASSUME NEW u \in People,
             \/ Dial(u) \/ GetIrcNames(u) \/ GetSuffix(u) \/ Probe(u) \/ NameConfig(u) \/ StoreName(u)
             \/ Generate(u) \/ Count(u) \/ AddrConfig(u) \/ StoreAddr(u) \/ StoreCounter(u)
             \/ Online(u) \/ StoreConfig(u) \/ Disconnects(u) \/ Command(u) \/ StoreCommand(u)
      PROVE  IdentsInv'
  BY <1>1, XDial, XGetIrcNames, XGetSuffix, XProbe, XNameConfig, XStoreName, XGenerate, XCount, XAddrConfig,
     XStoreAddr, XStoreCounter, XOnline, XStoreConfig, XDisconnects, XCommand, XStoreCommand
<1>2. CASE Crash
  BY <1>2, XCrash
<1>3. CASE UNCHANGED identVars
  <2>1. UNCHANGED <<rows, counted, tries, nameQueue, addrQueue, counter, commands, gone, torn>>
    BY <1>3 DEF identVars, queuesOfIdents
  <2>2. IdentsTypes'
    BY <2>1 DEF IdentsInv, IdentsTypes, IdentsTypeOK
  <2>3. \A u \in People : LineOf(u)'
    BY <2>1 DEF IdentsInv, LineOf
  <2>4. \A u \in People \ gone' : NameIsHis(u)'
    BY <2>1 DEF IdentsInv, NameIsHis
  <2>5. NamesDiffer'
    BY <2>1 DEF IdentsInv, NamesDiffer
  <2>6. torn' \/ AddrsDiffer'
    BY <2>1 DEF IdentsInv, AddrsDiffer, Covered, Held, Kept
  <2> QED
    BY <2>2, <2>3, <2>4, <2>5, <2>6 DEF IdentsInv
<1> QED
  BY <1>1, <1>2, <1>3 DEF IdentsNext

LEMMA IIdents == IdentsInit => IdentsInv
<1> SUFFICES ASSUME IdentsInit
             PROVE  IdentsInv
  OBVIOUS
<1>1. /\ rows = [u \in People |-> NoRow] /\ counted = 0 /\ tries = [u \in People |-> NoTry]
      /\ nameQueue = <<>> /\ addrQueue = <<>> /\ counter = -1 /\ commands = [u \in People |-> NoCommand]
      /\ gone = {} /\ torn = FALSE
  BY DEF IdentsInit
<1>2. \A u \in People : tries[u] = NoTry /\ commands[u] = NoCommand /\ rows[u] = NoRow
  BY <1>1
<1>3. <<>> \in Seq(People) /\ IsInjective(<<>>) /\ ToSet(<<>>) = {}
  BY EmptySeq DEF IsInjective, ToSet
<1>4. IdentsTypes
  <2>1. rows \in [People -> Configs] /\ tries \in [People -> TryType] /\ commands \in [People -> CommandType]
    BY <1>1, NoFacts
  <2> QED
    BY <1>1, <1>3, <2>1 DEF IdentsTypes, IdentsTypeOK, TryType, CommandType
<1>5. \A u \in People : LineOf(u)
  BY <1>1, <1>2, <1>3, NoFacts DEF LineOf, Naming, Addressing, Addressed
<1>6. \A u \in People \ gone : NameIsHis(u)
  BY <1>2, NoFacts DEF NameIsHis, Named, Naming
<1>7. NamesDiffer
  BY <1>2, NoFacts DEF NamesDiffer
<1>8. AddrsDiffer
  <2>1. \A u \in People : Held(u) = {}
    BY <1>2, NoFacts DEF Held
  <2> QED
    BY <2>1 DEF AddrsDiffer, Covered
<1> QED
  BY <1>4, <1>5, <1>6, <1>7, <1>8 DEF IdentsInv

LEMMA IdentsInvHolds == IdentsSpec => []IdentsInv
  BY IIdents, XIdents, PTL DEF IdentsSpec

\* What each variable holds; and the counter in memory is never behind the stored one.
THEOREM IdentsTyping == IdentsSpec => []IdentsTypeOK
<1>1. IdentsInv => IdentsTypeOK
  BY DEF IdentsInv, IdentsTypes
<1> QED
  BY <1>1, IdentsInvHolds, PTL

\* Two users that connect differ in user name and in address, for any number of users,
\* suffixes, commands and crashes: whatever the order of the two generators' stores, the
\* connection's own store of its configuration and the admin commands' stores.
THEOREM HostmasksDifferHolds == IdentsSpec => []HostmasksDiffer
<1>1. IdentsInv => HostmasksDiffer
  <2>1. SUFFICES ASSUME IdentsInv, NEW u \in Dialling, NEW v \in Dialling, u # v
                 PROVE  /\ tries[u].name # tries[v].name \/ {u, v} \cap gone # {}
                        /\ tries[u].cfg.addr # tries[v].cfg.addr \/ torn
    BY DEF HostmasksDiffer
  <2>2. u \in People /\ v \in People /\ \A w \in {u, v} : tries[w].pc \in {"dials", "online", "up"}
    BY <2>1 DEF Dialling
  <2>3. ASSUME {u, v} \cap gone = {}
        PROVE  tries[u].name # tries[v].name
    <3>1. u \in People \ gone /\ v \in People \ gone
      BY <2>2, <2>3
    <3>2. rows[u].name = tries[u].name /\ tries[u].name # 0 /\ rows[v].name = tries[v].name
      BY <2>1, <2>2, <3>1 DEF IdentsInv, NameIsHis, Named
    <3>3. rows[u].name # 0 => rows[u].name # rows[v].name
      BY <2>1, <3>1 DEF IdentsInv, NamesDiffer
    <3> QED
      BY <3>2, <3>3
  <2>4. ASSUME ~torn
        PROVE  tries[u].cfg.addr # tries[v].cfg.addr
    <3>1. AddrsDiffer
      BY <2>1, <2>4 DEF IdentsInv
    <3>2. tries[u].cfg.addr # 0
      BY <2>1, <2>2 DEF IdentsInv, LineOf, Addressed
    <3>3. Held(u) \cap Held(v) = {}
      BY <2>1, <2>2, <3>1 DEF AddrsDiffer
    <3> QED
      BY <3>2, <3>3 DEF Held
  <2> QED
    BY <2>3, <2>4
<1> QED
  BY <1>1, IdentsInvHolds, PTL
===============================================================================
