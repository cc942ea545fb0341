---------------------------- MODULE PoolService ----------------------------
(***************************************************************************)
(* The connection pool service (src/src/pool-service): a process of its    *)
(* own holds the IRC sockets and talks to the bridge through two redis     *)
(* streams, so that connections outlive the bridge.                        *)
(*                                                                         *)
(* The connection of one client: clients share the streams only, and       *)
(* nothing relies on the order of entries about different clients.  The    *)
(* lines read from and written to the socket are left out.                 *)
(***************************************************************************)
EXTENDS Naturals, Sequences, FiniteSets, SequencesExt

CONSTANTS Socks,       \* sockets the pool may have at a time
          NoSock,
          MaxMissed,   \* heartbeats missed before the bridge gives up (5 in the code)
          MaxInbox, MaxOutbox   \* bounds of the streams

ASSUME PoolServiceAssumption == MaxMissed \in Nat \ {0} /\ NoSock \notin Socks

VARIABLES
  poolUp,    \* the pool process runs
  socks,     \* its sockets
  held,      \* the client's entry of the pool's connections
  listed,    \* the client's field of the hash of connections in redis
  inStream,  \* the command stream, from the entry the pool reads next
  outbox,    \* the stream of replies, from the entry the bridge reads next
  reading,   \* whether a read of each stream is outstanding
  asking,    \* where the bridge's request for a connection is
  kept,      \* the client's entry of the bridge's connections
  missed,    \* missedHeartbeats
  fate       \* history: an answer was given up; a disconnection went untold

sockPool == <<poolUp, socks, held, listed>>
poolVars == <<sockPool, inStream, outbox, reading, asking, kept, missed, fate>>

FreeSocket == {s \in Socks : socks[s] = "free"}
Live == {s \in Socks : socks[s] # "free"}

PoolInit ==
  /\ poolUp = TRUE /\ socks = [s \in Socks |-> "free"] /\ held = NoSock /\ listed = FALSE
  /\ inStream = <<>> /\ outbox = <<>>
  /\ reading = [inStream |-> TRUE, outbox |-> TRUE]
  /\ asking = "idle" /\ kept = FALSE /\ missed = 0
  /\ fate = [late |-> FALSE, untold |-> FALSE]
------------------------------------------------------------------------------
\* RedisCommandReader: a read that was answered by nothing for ten seconds goes on
\* from $, the end of the stream when redis gets the next read.
IdleIn ==
  /\ inStream = <<>> /\ reading' = [reading EXCEPT !.inStream = FALSE]
  /\ UNCHANGED <<inStream, outbox, fate>>
IdleOut ==
  /\ outbox = <<>> /\ reading' = [reading EXCEPT !.outbox = FALSE]
  /\ UNCHANGED <<inStream, outbox, fate>>
ReadOnIn ==
  /\ ~reading.inStream /\ reading' = [reading EXCEPT !.inStream = TRUE]
  /\ inStream' = <<>> /\ UNCHANGED <<outbox, fate>>
ReadOnOut ==
  /\ ~reading.outbox /\ reading' = [reading EXCEPT !.outbox = TRUE]
  /\ outbox' = <<>> /\ UNCHANGED inStream
  /\ fate' = [fate EXCEPT !.untold = @ \/ Contains(outbox, "disconnected")]

ReadQueue ==
  /\ \/ poolUp /\ (IdleIn \/ ReadOnIn)
     \/ asking # "off" /\ (IdleOut \/ ReadOnOut)
  /\ UNCHANGED <<sockPool, asking, kept, missed>>
------------------------------------------------------------------------------
\* The pool.  Commands are handled as they are read; only connecting takes longer.
Out(what) == Len(outbox) + Len(what) <= MaxOutbox /\ outbox' = outbox \o what

HandleConnect ==
  /\ Head(inStream) = "connect"
  /\ \E s \in FreeSocket : socks' = [socks EXCEPT ![s] = "opening"]
  /\ UNCHANGED <<held, outbox>>

\* connect() of the socket comes back.
Opens(s) ==
  /\ poolUp /\ socks[s] = "opening"
  /\ \/ /\ socks' = [socks EXCEPT ![s] = "open"] /\ held' = s /\ listed' = TRUE
        /\ Out(<<"connected">>)
     \/ /\ socks' = [socks EXCEPT ![s] = "free"] /\ Out(<<"error">>)
        /\ UNCHANGED <<held, listed>>
  /\ UNCHANGED <<poolUp, inStream, reading, asking, kept, missed, fate>>

HandleEnd ==
  /\ Head(inStream) = "end"
  /\ socks' = IF held = NoSock THEN socks ELSE [socks EXCEPT ![held] = "ended"]
  /\ UNCHANGED <<held, outbox>>

HandlePing ==
  /\ Head(inStream) = "ping"
  /\ \/ held = NoSock /\ Out(<<"not-connected">>) /\ UNCHANGED held
     \/ /\ held # NoSock /\ socks[held] = "ended"
        /\ held' = NoSock /\ Out(<<"disconnected", "not-connected">>)
     \/ held # NoSock /\ socks[held] = "open" /\ Out(<<"connected">>) /\ UNCHANGED held
  /\ UNCHANGED socks

HandleCommand ==
  /\ poolUp /\ reading.inStream /\ inStream # <<>> /\ inStream' = Tail(inStream)
  /\ HandleConnect \/ HandleEnd \/ HandlePing
  /\ UNCHANGED <<poolUp, listed, reading, asking, kept, missed, fate>>

\* The server ends the connection, or it breaks; then it is closed.
SocketEnds(s) ==
  /\ poolUp /\ socks[s] = "open" /\ socks' = [socks EXCEPT ![s] = "ended"]
  /\ UNCHANGED outbox \/ Out(<<"error">>)
  /\ UNCHANGED <<poolUp, held, listed, inStream, reading, asking, kept, missed, fate>>

SocketClosesSilently(s) ==
  /\ poolUp /\ socks[s] = "ended" /\ socks' = [socks EXCEPT ![s] = "free"]
  /\ held' = NoSock /\ listed' = FALSE /\ UNCHANGED outbox
  /\ UNCHANGED <<poolUp, inStream, reading, asking, kept, missed, fate>>

\* The entry of the client is removed, whichever socket it is for.
SocketCloses(s) ==
  /\ poolUp /\ socks[s] = "ended" /\ socks' = [socks EXCEPT ![s] = "free"]
  /\ held' = NoSock /\ listed' = FALSE /\ Out(<<"disconnected">>)
  /\ UNCHANGED <<poolUp, inStream, reading, asking, kept, missed, fate>>

\* close() says so and ends every connection; a crash says nothing.
PoolStops ==
  /\ poolUp /\ poolUp' = FALSE
  /\ socks' = [s \in Socks |-> "free"] /\ held' = NoSock
  /\ Out(<<"poolclosing">>) \/ UNCHANGED outbox
  /\ fate' = [fate EXCEPT !.untold = TRUE]
  /\ UNCHANGED <<listed, inStream, reading, asking, kept, missed>>

\* start() deletes what an earlier pool left in redis.
PoolStarts ==
  /\ ~poolUp /\ poolUp' = TRUE
  /\ listed' = FALSE /\ inStream' = <<>> /\ outbox' = <<>>
  /\ reading' = [reading EXCEPT !.inStream = TRUE]
  /\ fate' = [fate EXCEPT !.late = FALSE]
  /\ UNCHANGED <<socks, held, asking, kept, missed>>
------------------------------------------------------------------------------
\* The bridge.  createOrGetIrcSocket: an entry is returned as it is.
Request ==
  /\ asking = "idle"
  /\ asking' = (IF kept THEN "up" ELSE "look") /\ kept' = TRUE
  /\ UNCHANGED <<sockPool, inStream, outbox, reading, missed, fate>>

LookNowhere ==
  /\ asking = "look" /\ asking' = "connect"
  /\ UNCHANGED <<sockPool, inStream, outbox, reading, kept, missed, fate>>

\* Is the client connected already?
Look ==
  /\ asking = "look" /\ asking' = IF listed THEN "ping" ELSE "connect"
  /\ UNCHANGED <<sockPool, inStream, outbox, reading, kept, missed, fate>>

\* The command is added; until redis has said so nothing listens for the answer.
SendCommand ==
  /\ asking \in {"ping", "connect"} /\ Len(inStream) < MaxInbox
  /\ inStream' = Append(inStream, asking)
  /\ asking' = IF asking = "ping" THEN "pinging" ELSE "connecting"
  /\ UNCHANGED <<sockPool, outbox, reading, kept, missed, fate>>
Sent ==
  /\ asking \in {"pinging", "connecting"}
  /\ asking' = IF asking = "pinging" THEN "awaits ping" ELSE "awaits connect"
  /\ UNCHANGED <<sockPool, inStream, outbox, reading, kept, missed, fate>>

Awaits == {"awaits ping", "awaits connect"}
GivesUp == [fate EXCEPT !.late = @ \/ asking \in Awaits \cup {"pinging", "connecting"}]

ConnectTimeout ==
  /\ asking \in Awaits /\ asking' = "idle" /\ kept' = FALSE
  /\ fate' = GivesUp
  /\ UNCHANGED <<sockPool, inStream, outbox, reading, missed>>

\* ConnectionInstance.disconnect, on a ping timeout or by the user: it waits for the
\* end of the connection, for thirty seconds.
Close ==
  /\ asking = "up" /\ Len(inStream) < MaxInbox
  /\ inStream' = Append(inStream, "end") /\ asking' = "closing"
  /\ UNCHANGED <<sockPool, outbox, reading, kept, missed, fate>>
CloseTimeout ==
  /\ asking = "closing" /\ asking' = "idle"
  /\ UNCHANGED <<sockPool, inStream, outbox, reading, kept, missed, fate>>

\* What a reply does: to the entry, and to who waits.
OnConnected == asking' = (IF kept /\ asking \in Awaits THEN "up" ELSE asking) /\ UNCHANGED kept
OnDisconnected ==
  /\ kept' = FALSE
  /\ asking' = IF kept /\ asking \in {"up", "closing"} THEN "idle" ELSE asking
OnFailure(e) ==
  /\ \/ /\ kept /\ asking \in Awaits /\ asking' = "idle" /\ kept' = FALSE
     \/ /\ kept /\ asking = "up" /\ e = "error" /\ asking' = "closing" /\ UNCHANGED kept
     \/ /\ ~(kept /\ (asking \in Awaits \/ (asking = "up" /\ e = "error")))
        /\ UNCHANGED <<asking, kept>>

\* Replies about a client whose entry is being made wait for it.
HandleReply ==
  /\ asking \notin {"off", "look"} /\ reading.outbox /\ outbox # <<>>
  /\ outbox' = Tail(outbox)
  /\ \/ Head(outbox) = "connected" /\ OnConnected
     \/ Head(outbox) = "disconnected" /\ OnDisconnected
     \/ Head(outbox) \in {"error", "not-connected"} /\ OnFailure(Head(outbox))
     \/ Head(outbox) = "poolclosing" /\ asking' = "off" /\ kept' = FALSE
  /\ fate' = CASE Head(outbox) = "poolclosing" -> GivesUp
               [] Head(outbox) = "disconnected" /\ asking = "found" -> [fate EXCEPT !.untold = TRUE]
               [] OTHER -> fate
  /\ UNCHANGED <<sockPool, inStream, reading, missed>>

\* checkHeartbeat: the bridge stops when the pool is silent for too long.
CheckHeartbeat ==
  /\ asking # "off"
  /\ missed' = IF poolUp THEN 0 ELSE missed + 1
  /\ IF missed' >= MaxMissed THEN asking' = "off" /\ kept' = FALSE /\ fate' = GivesUp
     ELSE UNCHANGED <<asking, kept, fate>>
  /\ UNCHANGED <<sockPool, inStream, outbox, reading>>

\* The bridge stops, or dies, and leaves its connections to the pool.
BridgeStops ==
  /\ asking # "off" /\ asking' = "off" /\ kept' = FALSE
  /\ fate' = GivesUp
  /\ UNCHANGED <<sockPool, inStream, outbox, reading, missed>>

\* It reads the stream from its end, and looks for connections of its predecessor.
BridgeStarts ==
  /\ asking = "off" /\ (poolUp \/ missed = 0)
  /\ asking' = (IF listed THEN "found" ELSE "idle") /\ missed' = 0
  /\ outbox' = <<>> /\ reading' = [reading EXCEPT !.outbox = TRUE]
  /\ fate' = [fate EXCEPT !.untold = ~poolUp]
  /\ UNCHANGED <<sockPool, inStream, kept>>
Discovered ==
  /\ asking = "found" /\ asking' = "up" /\ kept' = TRUE
  /\ UNCHANGED <<sockPool, inStream, outbox, reading, missed, fate>>
------------------------------------------------------------------------------
PoolNext ==
  \/ ReadQueue \/ HandleCommand \/ PoolStops \/ PoolStarts
  \/ \E s \in Socks : Opens(s) \/ SocketEnds(s) \/ SocketCloses(s)
  \/ Request \/ Look \/ SendCommand \/ Sent \/ ConnectTimeout \/ Close \/ CloseTimeout
  \/ HandleReply \/ CheckHeartbeat \/ BridgeStops \/ BridgeStarts \/ Discovered

PoolServiceSpec == PoolInit /\ [][PoolNext]_poolVars
------------------------------------------------------------------------------
PoolTypeOK ==
  /\ poolUp \in BOOLEAN /\ listed \in BOOLEAN /\ kept \in BOOLEAN
  /\ socks \in [Socks -> {"free", "opening", "open", "ended"}] /\ held \in Socks \cup {NoSock}
  /\ inStream \in Seq({"connect", "ping", "end"})
  /\ outbox \in Seq({"connected", "disconnected", "not-connected", "error", "poolclosing"})
  /\ reading \in [inStream: BOOLEAN, outbox: BOOLEAN] /\ missed \in 0..MaxMissed
  /\ asking \in {"off", "idle", "look", "ping", "connect", "pinging", "connecting", "up",
                  "closing", "found"} \cup Awaits
  /\ fate \in [late: BOOLEAN, untold: BOOLEAN]

(***************************************************************************)
(* The pool is made to open a second connection for a client only after    *)
(* the bridge gave up waiting for an answer, or stopped while it waited:   *)
(* not because it was restarted, or looked while a connection was closing. *)
(***************************************************************************)
OneSocket ==
  \/ fate.late
  \/ Cardinality(Live) + Cardinality({i \in DOMAIN inStream : inStream[i] = "connect"}) <= 1

(***************************************************************************)
(* The bridge holds on to a connection that is gone only until it reads    *)
(* that it is, else every later request gets the dead connection.  That    *)
(* never comes if the reader skipped the entry, if the pool went down, or  *)
(* if the entry came while the bridge looked for connections at its start. *)
(***************************************************************************)
NoGhost ==
  kept /\ asking \in {"up", "closing", "idle"} /\ Live = {}
    => fate.untold \/ Contains(outbox, "disconnected")
==============================================================================
