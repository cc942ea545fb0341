----------------------------- MODULE ClientPool -----------------------------
(***************************************************************************)
(* The pool of IRC clients of one IRC server: src/src/irc/ClientPool.ts    *)
(* with the life cycle of its clients (BridgedClient.ts) and of the        *)
(* connection of each (ConnectionInstance.ts).                             *)
(*                                                                         *)
(* JavaScript runs one callback at a time: an action is what runs between  *)
(* two awaits (or events), and everything else may happen at an await.     *)
(*                                                                         *)
(* A user's nick is one of two, <<user, 0>> (the desired nick) and         *)
(* <<user, 1>> (what the server gives instead when that is in use).  Being *)
(* joined to channels is decided when it matters, when a connection ends.  *)
(* The age by which the oldest client is found is left open.               *)
(***************************************************************************)
EXTENDS Naturals, FiniteSets, Sequences

CONSTANTS
  Users,        \* Matrix users
  Bot,          \* the bridge's bot, which is not a user
  NumClients,   \* how many BridgedClient objects a behaviour may create
  Requests,     \* calls of getBridgedClient
  Asks,         \* the user a request is for
  None,         \* no object, nobody
  MaxClients,   \* the server's maxClients, 0 for no limit
  Reconnects,   \* its concurrentReconnectLimit, 0 for no queue
  Scheduled,    \* TRUE when connections go through the Scheduler
  Faults,       \* what may go wrong: "drop", "ban", "refuse", "db", "nick"
  Commands      \* what may be asked for: "kill", "idle", "reconnect"

Clients == 1..NumClients
Owners == Users \cup {Bot}
Nicks == Owners \X {0, 1}

ASSUME PoolAssumption ==
  /\ NumClients \in Nat \ {0}
  /\ Bot \notin Users /\ None \notin Owners \cup Clients
  /\ Asks \in [Requests -> Users]
  /\ MaxClients \in Nat /\ Reconnects \in Nat /\ Scheduled \in BOOLEAN

VARIABLES
  pool,      \* clients: see the type invariant for what is kept of each;
             \*   userIds (with the bot under its own key), nicks, pending: the
             \*   maps of virtualClients; bot: the entry of botClients
  request,   \* state of each request
  reviving,  \* lost clients whose reconnection waits for the stored config
  line,      \* new clients queued for reconnection
  running,   \* new clients the reconnect queue has called reconnect() on
  login      \* loginToServer: connecting, waiting (to try again), done

vars == <<pool, request, reviving, line, running, login>>

\* Of a client: its own state; its connection's, which is being made, registered,
\* dead but not ended, ended; the await in connect(), which is not called, not
\* over, may go on, is done; and why it was disconnected.
Statuses == {"CREATED", "CONNECTING", "CONNECTED", "DEAD", "KILLED"}
Insts == {"none", "opening", "open", "closing", "closed"}
Resumes == {"idle", "waiting", "ready", "done"}
Reasons == {"none", "net", "banned", "limit", "idle", "killed", "iwanttoreconnect"}

ClientType ==
  [owner    : Owners \cup {None},    \* None while the object does not exist
   status   : Statuses,
   inst     : Insts,
   resume   : Resumes,
   explicit : BOOLEAN,               \* explicitDisconnect
   reason   : Reasons,
   nick     : {0, 1},                \* the nick the client thinks it has
   ircNick  : {0, 1}]                \* and the one the server gave it
PoolType ==
  [of      : [Clients -> ClientType],
   userIds : [Owners -> Clients \cup {None}],
   bot     : Clients \cup {None},
   nicks   : [Nicks -> Clients \cup {None}],
   pending : [Nicks -> Clients \cup {None}]]
------------------------------------------------------------------------------
(* The pool as a value p, and what the methods of ClientPool do to it.     *)

Dead(p, c) == p.of[c].status \in {"DEAD", "KILLED"}
NickOf(p, c) == <<p.of[c].owner, p.of[c].nick>>
Free(p) == {c \in Clients : p.of[c].owner = None}

\* The pool p with x in place of the object c.
With(p, c, x) == [p EXCEPT !.of[c] = x]

\* getBridgedClientByUserId: a dead client is as good as none.
ByUserId(p, u) ==
  IF p.userIds[u] # None /\ ~Dead(p, p.userIds[u]) THEN p.userIds[u] ELSE None

\* nickIsVirtual: the bot's nick, one in the cache or (the fallback scan) of a
\* client of the user map, dead or not, or one that is pending.
NickIsVirtual(p, n) ==
  \/ p.bot # None /\ NickOf(p, p.bot) = n
  \/ p.nicks[n] # None
  \/ \E o \in Owners : p.userIds[o] # None /\ NickOf(p, p.userIds[o]) = n
  \/ p.pending[n] # None

\* removeBridgedClient clears the entries of the client's user and nick, whichever
\* client they hold.  The bot has no user ID: its entry in userIds stays.
Removed(p, c) ==
  LET o == p.of[c].owner
  IN  [p EXCEPT !.userIds[o] = IF o = Bot THEN @ ELSE None,
                !.nicks[NickOf(p, c)] = None,
                !.bot = IF o = Bot THEN None ELSE @]

\* ConnectionInstance.disconnect counts the first time only; BridgedClient
\* remembers whether the disconnection is explicit in any case, and has no
\* connection to close unless it is CONNECTED.
CloseInstSwapped(p, c, why) ==
  IF p.of[c].inst = "open"
  THEN With(p, c, [p.of[c] EXCEPT !.inst = why, !.reason = "net"]) ELSE p
CloseInst(p, c, why) ==
  IF p.of[c].inst = "open"
  THEN With(p, c, [p.of[c] EXCEPT !.inst = "closing", !.reason = why]) ELSE p
Disconnect(p, c, why, isExplicit) ==
  LET q == With(p, c, [p.of[c] EXCEPT !.explicit = isExplicit])
  IN  IF p.of[c].status = "CONNECTED" THEN CloseInst(q, c, why) ELSE q

\* checkClientLimit: nobody has to go below the limit; else a connected client
\* that is not the bot is removed and disconnected, if there is one.
Victims(p) ==
  IF MaxClients # 0 /\ Cardinality({o \in Owners : p.userIds[o] # None}) >= MaxClients
  THEN {c \in Clients : /\ p.of[c].status = "CONNECTED"
                        /\ \E u \in Users : p.userIds[u] = c}
  ELSE {}
AfterLimit(p) ==
  IF Victims(p) = {} THEN {p}
  ELSE {Disconnect(Removed(p, v), v, "limit", TRUE) : v \in Victims(p)}

\* createIrcClient: a new object becomes a client of o.
NewClient(o, k) ==
  [owner |-> o, status |-> "CREATED", inst |-> "none", resume |-> "idle",
   explicit |-> FALSE, reason |-> "none", nick |-> k, ircNick |-> k]
NextFree(p) == CHOOSE c \in Free(p) : TRUE
Created(p, o, k) ==
  LET c == NextFree(p)
  IN  IF Free(p) = {} THEN {}
      ELSE AfterLimit([With(p, c, NewClient(o, k)) EXCEPT
                         !.userIds[o] = c,
                         !.pending[<<o, k>>] = c,
                         !.bot = IF o = Bot THEN c ELSE @])

\* connect(), up to the await for the connection.
Connecting(p, c) ==
  With(p, c, [p.of[c] EXCEPT !.status = "CONNECTING", !.inst = "opening", !.resume = "waiting"])

\* connect() goes on after the await: CONNECTED, then onClientConnected (which
\* still sees the old nick), then the nick the server gave.
ConnectedOldNick(p, c) ==
  [With(p, c, [p.of[c] EXCEPT !.status = "CONNECTED", !.resume = "done"])
     EXCEPT !.pending[NickOf(p, c)] = None, !.nicks[NickOf(p, c)] = c]
ConnectedPending(p, c) ==
  LET x == p.of[c]
  IN  [With(p, c, [x EXCEPT !.status = "CONNECTED", !.resume = "done", !.nick = x.ircNick])
         EXCEPT !.nicks[<<x.owner, x.ircNick>>] = c]
Connected(p, c) ==
  LET x == p.of[c]
  IN  [With(p, c, [x EXCEPT !.status = "CONNECTED", !.resume = "done", !.nick = x.ircNick])
         EXCEPT !.pending[NickOf(p, c)] = None, !.nicks[<<x.owner, x.ircNick>>] = c]

\* The nick is taken on the server by another connection of the same user.
Taken(p, c, k) ==
  \E d \in Clients \ {c} : /\ p.of[d].owner = p.of[c].owner
                           /\ p.of[d].inst \in {"open", "closing"} /\ p.of[d].ircNick = k

NoClients == [of |-> [c \in Clients |-> NewClient(None, 0)], userIds |-> [o \in Owners |-> None],
              bot |-> None, nicks |-> [n \in Nicks |-> None],
              pending |-> [n \in Nicks |-> None]]
------------------------------------------------------------------------------
(* The bridge starts by logging the bot in.                                *)
Init ==
  /\ \E p \in Created(NoClients, Bot, 0) : pool = Connecting(p, p.bot)
  /\ request = [r \in Requests |-> [pc |-> "idle", cli |-> None]]
  /\ reviving = {} /\ line = <<>> /\ running = {}
  /\ login = "connecting"

\* Bound: a step after which a new object may be needed is taken only while
\* there is one for everybody already on the way to creating one.
Creators == {r \in Requests : request[r].pc = "lookup"}
Closers == {c \in Clients : pool.of[c].inst = "closing"}
Room == Cardinality(Free(pool)) >
          Cardinality(Creators) + Cardinality(Closers) + Cardinality(reviving)

(* getBridgedClient, up to its first await, and from there to connect's.   *)
Ask(r) ==
  /\ request[r].pc = "idle"
  /\ LET c == ByUserId(pool, Asks[r])
     IN  IF c # None
         THEN request' = [request EXCEPT ![r] = [pc |-> "done", cli |-> c]]
         ELSE Room /\ request' = [request EXCEPT ![r].pc = "lookup"]
  /\ UNCHANGED <<pool, reviving, line, running, login>>

NoRecheck(r) == None
RecheckedClient(r) == ByUserId(pool, Asks[r])
Looked(r) ==
  /\ request[r].pc = "lookup"
  /\ LET c == RecheckedClient(r)
     IN  IF c # None
         THEN request' = [request EXCEPT ![r] = [pc |-> "done", cli |-> c]] /\ UNCHANGED pool
         ELSE \E p \in Created(pool, Asks[r], 0) :
                LET n == NextFree(pool)
                IN  /\ pool' = Connecting(p, n)
                    /\ request' = [request EXCEPT ![r] = [pc |-> "connect", cli |-> n]]
  /\ UNCHANGED <<reviving, line, running, login>>

\* The user is deactivated, or the database fails.
LookupFails(r) ==
  /\ request[r].pc = "lookup" /\ "db" \in Faults
  /\ request' = [request EXCEPT ![r].pc = "failed"]
  /\ UNCHANGED <<pool, reviving, line, running, login>>

\* A new user's config is stored once connected; failing to store it is handled
\* like failing to connect.
Stored(r) ==
  /\ request[r].pc = "store"
  /\ \/ request' = [request EXCEPT ![r].pc = "done"] /\ UNCHANGED pool
     \/ /\ "db" \in Faults
        /\ request' = [request EXCEPT ![r].pc = "failed"]
        /\ pool' = Removed(pool, request[r].cli)
  /\ UNCHANGED <<reviving, line, running, login>>

(* What hangs on the await of connect() of client c: a request, the        *)
(* reconnect queue or loginToServer, which go on in the same turn.         *)
Succeeds(c) ==
  /\ request' = [r \in Requests |-> IF request[r] = [pc |-> "connect", cli |-> c]
                                    THEN [pc |-> "store", cli |-> c] ELSE request[r]]
  /\ IF login = "connecting" /\ pool.bot = c THEN login' = "done" ELSE UNCHANGED login

\* The nicks the server may give: the one asked for, or the other one when that
\* is in use, by a connection of the same user or by a stranger.
Given(c) ==
  IF Taken(pool, c, pool.of[c].nick) THEN {1 - pool.of[c].nick}
  ELSE {pool.of[c].nick} \cup (IF "nick" \in Faults THEN {1 - pool.of[c].nick} ELSE {})
Registered(c, k) ==
  With(pool, c, [pool.of[c] EXCEPT !.inst = "open", !.ircNick = k, !.resume = "ready"])

\* The server accepts the registration.  Without the Scheduler, the promise's
\* continuations run before anything else happens.
Welcome(c) ==
  /\ pool.of[c].inst = "opening"
  /\ \E k \in Given(c) :
       IF Scheduled
       THEN pool' = Registered(c, k) /\ UNCHANGED <<request, login>>
       ELSE pool' = Connected(Registered(c, k), c) /\ Succeeds(c)
  /\ UNCHANGED <<reviving, line, running>>

ConnectResumes(c) ==
  /\ pool.of[c].resume = "ready"
  /\ pool' = Connected(pool, c)
  /\ Succeeds(c)
  /\ UNCHANGED <<reviving, line, running>>

\* Banned or refused for good (other failures are retried inside create, which
\* leaves the client where it is).
ConnectFailsSilently(c) ==
  /\ pool.of[c].inst = "opening" /\ "refuse" \in Faults
  /\ pool' = With(pool, c, [pool.of[c] EXCEPT !.inst = "closed", !.status = "DEAD",
                                               !.resume = "done"])
  /\ running' = running \ {c}
  /\ IF login = "connecting" /\ pool.bot = c THEN login' = "waiting" ELSE UNCHANGED login
  /\ UNCHANGED <<request, reviving, line>>
ConnectFails(c) ==
  /\ pool.of[c].inst = "opening" /\ "refuse" \in Faults
  /\ LET p == With(pool, c, [pool.of[c] EXCEPT !.inst = "closed", !.status = "DEAD",
                                               !.resume = "done"])
         asked == \E r \in Requests : request[r] = [pc |-> "connect", cli |-> c]
     IN  pool' = IF asked THEN Removed(p, c) ELSE p
  /\ request' = [r \in Requests |-> IF request[r] = [pc |-> "connect", cli |-> c]
                                    THEN [pc |-> "failed", cli |-> c] ELSE request[r]]
  /\ running' = running \ {c}
  /\ IF login = "connecting" /\ pool.bot = c THEN login' = "waiting" ELSE UNCHANGED login
  /\ UNCHANGED <<reviving, line>>

\* loginToServer tries again with the client it has, or is called by
\* getBotClient when there is none.
LoginRetries ==
  /\ login = "waiting" /\ pool.bot # None
  /\ pool' = Connecting(pool, pool.bot)
  /\ login' = "connecting"
  /\ UNCHANGED <<request, reviving, line, running>>

LoginAgain ==
  /\ pool.bot = None /\ Room
  /\ \E p \in Created(pool, Bot, 0) : pool' = Connecting(p, p.bot)
  /\ login' = "connecting"
  /\ UNCHANGED <<request, reviving, line, running>>

(* Losing a connection.                                                    *)
Drop(c) ==
  /\ pool.of[c].inst = "open" /\ Room
  /\ \E why \in {"net", "banned"} :
       /\ IF why = "banned" THEN "ban" \in Faults ELSE "drop" \in Faults
       /\ pool' = CloseInst(pool, c, why)
  /\ UNCHANGED <<request, reviving, line, running, login>>

\* The socket ended (or did not in 30 seconds): onDisconnect, then the pool's
\* onClientDisconnected up to its await.
LostUnnoticed(c) ==
  LET p == With(pool, c, [pool.of[c] EXCEPT !.inst = "closed"])
  IN  [Removed(p, c) EXCEPT !.pending[NickOf(pool, c)] = None]
Lost(c) ==
  LET p == With(pool, c, [pool.of[c] EXCEPT !.inst = "closed",
                            !.explicit = @ \/ pool.of[c].reason = "banned",
                            !.status = IF @ = "KILLED" THEN @ ELSE "DEAD"])
  IN  [Removed(p, c) EXCEPT !.pending[NickOf(pool, c)] = None]

MayReconnectUsers(c, joined) ==
  /\ joined \/ pool.of[c].reason = "iwanttoreconnect"
  /\ ~Lost(c).of[c].explicit
MayReconnect(c, joined) ==
  /\ joined \/ pool.of[c].owner = Bot \/ pool.of[c].reason = "iwanttoreconnect"
  /\ ~Lost(c).of[c].explicit

End(c) ==
  /\ pool.of[c].inst = "closing"
  /\ \E joined \in BOOLEAN :
       \/ /\ ~MayReconnect(c, joined)
          /\ pool' = Lost(c) /\ UNCHANGED <<reviving, line>>
       \/ /\ MayReconnect(c, joined) /\ pool.of[c].owner # Bot
          /\ pool' = Lost(c) /\ reviving' = reviving \cup {c} /\ UNCHANGED line
       \/ /\ MayReconnect(c, joined) /\ pool.of[c].owner = Bot
          /\ pool' \in Created(Lost(c), Bot, pool.of[c].nick)
          /\ line' = Append(line, NextFree(Lost(c))) /\ UNCHANGED reviving
  /\ UNCHANGED <<request, running, login>>

\* The config arrived: a new client takes the lost one's place and nick, and
\* queues.  If the database fails, so does the reconnection.
ReviveAgain(c) ==
  /\ c \in reviving
  /\ pool' \in Created(pool, pool.of[c].owner, pool.of[c].nick)
  /\ line' = Append(line, NextFree(pool))
  /\ UNCHANGED <<request, reviving, running, login>>
ReviveIdle(c) ==
  /\ c \in reviving
  /\ reviving' = reviving \ {c}
  /\ pool' \in Created(pool, pool.of[c].owner, pool.of[c].nick)
  /\ UNCHANGED <<request, line, running, login>>
Revive(c) ==
  /\ c \in reviving
  /\ reviving' = reviving \ {c}
  /\ \/ /\ pool' \in Created(pool, pool.of[c].owner, pool.of[c].nick)
        /\ line' = Append(line, NextFree(pool))
     \/ "db" \in Faults /\ UNCHANGED <<pool, line>>
  /\ UNCHANGED <<request, running, login>>

\* The reconnect queue (or nothing, if there is none) lets the next one connect.
Reconnect ==
  /\ line # <<>>
  /\ Reconnects = 0 \/ Cardinality(running) < Reconnects
  /\ pool' = Connecting(pool, Head(line))
  /\ line' = Tail(line)
  /\ running' = running \cup {Head(line)}
  /\ UNCHANGED <<request, reviving, login>>

\* reconnect() has rejoined the channels (each join has a timeout).
Rejoined(c) ==
  /\ c \in running /\ pool.of[c].resume = "done"
  /\ running' = running \ {c}
  /\ UNCHANGED <<pool, request, reviving, line, login>>

(* What users and the bridge do to a client.                               *)
Mapped(c) == \E u \in Users : pool.userIds[u] = c

Kill(c) ==
  /\ "kill" \in Commands /\ Mapped(c) /\ ~Dead(pool, c) /\ Room
  /\ LET p == Disconnect(pool, c, "killed", TRUE)
     IN  pool' = With(p, c, [p.of[c] EXCEPT !.status = "KILLED"])
  /\ UNCHANGED <<request, reviving, line, running, login>>

\* The idle timer, and the !reconnect command.
Quit(c) ==
  /\ \/ /\ "idle" \in Commands /\ pool.of[c].status = "CONNECTED"
        /\ pool' = Disconnect(pool, c, "idle", TRUE)
     \/ /\ "reconnect" \in Commands /\ Mapped(c) /\ ~Dead(pool, c)
        /\ pool' = Disconnect(pool, c, "iwanttoreconnect", FALSE)
  /\ pool.of[c].owner \in Users /\ Room
  /\ UNCHANGED <<request, reviving, line, running, login>>

\* getBridgedClientByNick (on every IRC event) caches what its scan finds.
LookupNick(n) ==
  /\ pool.nicks[n] = None /\ pool.userIds[n[1]] # None
  /\ NickOf(pool, pool.userIds[n[1]]) = n
  /\ pool' = [pool EXCEPT !.nicks[n] = pool.userIds[n[1]]]
  /\ UNCHANGED <<request, reviving, line, running, login>>
------------------------------------------------------------------------------
Callers == \E r \in Requests : Ask(r) \/ Looked(r) \/ LookupFails(r) \/ Stored(r)
Network == \E c \in Clients : Welcome(c) \/ ConnectFails(c) \/ Drop(c) \/ End(c)
Bridge == (\E c \in Clients : ConnectResumes(c) \/ Revive(c) \/ Rejoined(c))
            \/ Reconnect \/ LoginRetries \/ LoginAgain
Orders == (\E c \in Clients : Kill(c) \/ Quit(c)) \/ \E n \in Nicks : LookupNick(n)

Next == Callers \/ Network \/ Bridge \/ Orders

\* The database answers, a socket ends or is given up after 30 seconds, timers
\* fire, and a server a client keeps connecting to accepts it in the end.
Fairness ==
  /\ \A r \in Requests : WF_vars(Looked(r) \/ LookupFails(r)) /\ WF_vars(Stored(r))
  /\ \A c \in Clients : /\ WF_vars(Welcome(c)) /\ WF_vars(End(c)) /\ WF_vars(Revive(c))
                         /\ WF_vars(ConnectResumes(c)) /\ WF_vars(Rejoined(c))
  /\ WF_vars(Reconnect) /\ WF_vars(LoginRetries)

Spec == Init /\ [][Next]_vars /\ Fairness
------------------------------------------------------------------------------
TypeOK ==
  /\ pool \in PoolType
  /\ request \in [Requests -> [pc : {"idle", "lookup", "connect", "store", "done", "failed"},
                               cli : Clients \cup {None}]]
  /\ reviving \in SUBSET Clients /\ running \in SUBSET Clients
  /\ line \in Seq(Clients)
  /\ login \in {"connecting", "waiting", "done"}

Connection(c) == pool.of[c].inst \in {"opening", "open", "closing"}
Serving(c) == pool.of[c].owner \in Users /\ pool.of[c].inst = "open" /\ pool.of[c].resume = "done"

(***************************************************************************)
(* The client is put into the map before it is connected, "else we could   *)
(* spawn 2 clients for a single user if this function is called quickly"   *)
(* (ClientPool.ts, lines 380-382): a user never has two clients of which   *)
(* neither is dead nor being disconnected.                                 *)
(***************************************************************************)
LiveOf(u) == {c \in Clients : /\ pool.of[c].owner = u /\ ~Dead(pool, c)
                              /\ pool.of[c].inst \notin {"closing", "closed"}}
OneClientPerUser == \A u \in Users : Cardinality(LiveOf(u)) <= 1

(***************************************************************************)
(* "It's imperative we wait for the disconnect, as the IrcConnectionPool   *)
(* doesn't allow us to create new connections for a given user while a     *)
(* previous one is active" (ConnectionInstance.ts, lines 166-168).         *)
(***************************************************************************)
OneConnectionPerUser ==
  \A u \in Users : Cardinality({c \in Clients : pool.of[c].owner = u /\ Connection(c)}) <= 1

(***************************************************************************)
(* A client that serves its user is the one the pool knows: otherwise it   *)
(* stays on IRC with nobody able to speak through it, kill it or count it. *)
(* "Remove client if we failed to connect!" (ClientPool.ts, line 288) is   *)
(* the only reason getBridgedClient has to forget a client.                *)
(***************************************************************************)
NoOrphan == \A c \in Clients : Serving(c) => pool.userIds[pool.of[c].owner] = c

(***************************************************************************)
(* What a registered client of ours says or joins on IRC is recognised as  *)
(* ours (nickIsVirtual), else the bridge would make a Matrix ghost of it   *)
(* (ClientPool.ts, lines 354-359).                                         *)
(***************************************************************************)
Recognised == \A c \in Clients : pool.of[c].inst = "open" =>
                 NickIsVirtual(pool, <<pool.of[c].owner, pool.of[c].ircNick>>)

(***************************************************************************)
(* Only a client that is not connected yet has a pending nick (the bot     *)
(* apart, which tries again): a stale entry makes the bridge take a        *)
(* stranger on IRC for one of its own clients, and ignore him.             *)
(***************************************************************************)
PendingSound == \A n \in Nicks :
  n[1] # Bot /\ pool.pending[n] # None =>
    pool.of[pool.pending[n]].status \in {"CREATED", "CONNECTING"}

(***************************************************************************)
(* A client that claims to be CONNECTED has a connection: it has not ended *)
(* behind the back of connect(), which sets the status unconditionally     *)
(* when its await is over (BridgedClient.ts, lines 264-269).               *)
(***************************************************************************)
NoZombie == \A c \in Clients :
  pool.of[c].status = "CONNECTED" => pool.of[c].inst \in {"open", "closing"}

(***************************************************************************)
(* "Killing a client means that it will disconnect forever and never do    *)
(* anything useful again" (IrcBridge.ts, lines 985-986); kill() sets the   *)
(* state "so that no further commands can be issued".                      *)
(***************************************************************************)
KilledForEver ==
  [][\A c \in Clients : pool.of[c].status = "KILLED" => pool'.of[c].status = "KILLED"]_vars

(***************************************************************************)
(* Every call of getBridgedClient returns or throws; a user whose          *)
(* connection was lost, and who is to be reconnected, is connected again;  *)
(* and so, for ever, is the bot.                                           *)
(***************************************************************************)
RequestsSettle ==
  \A r \in Requests : []<>(request[r].pc \in {"idle", "done", "failed"})
LostComesBack ==
  \A c \in Clients : c \in reviving ~>
    \E d \in Clients : pool.of[d].owner = pool.of[c].owner /\ pool.of[d].status = "CONNECTED"
BotComesBack == []<>(pool.bot # None /\ pool.of[pool.bot].status = "CONNECTED")
=============================================================================
