-------------------------- MODULE ClientPool_proofs --------------------------
(***************************************************************************)
(* What the client pool guarantees whatever the users, requests and bounds *)
(* are: its types; that no client claims a connection it does not have     *)
(* when connect() goes on at once; one client and one connection per user  *)
(* whatever requests race, as long as no connection is lost (Calm); and    *)
(* that one connection, with its nick known to the pool, through any       *)
(* sequence of losses, as long as requests do not race (Lone).             *)
(***************************************************************************)
EXTENDS ClientPool, FiniteSetTheorems, TLAPS

(* The types alone are not inductive: that a client the pool removes has a *)
(* nick follows from who is in its maps, and from objects that do not      *)
(* exist yet being blank.                                                  *)
MapsSound(p) ==
  /\ \A o \in Owners : p.userIds[o] # None => p.of[p.userIds[o]].owner = o
  /\ p.bot # None => p.of[p.bot].owner = Bot
Blank(p) == \A c \in Clients : p.of[c].owner = None => p.of[c] = NewClient(None, 0)
PoolInv(p) == p \in PoolType /\ MapsSound(p) /\ Blank(p)

\* A client stays a client of its owner from p to n.
Keeps(p, n) == \A c \in Clients : p.of[c].owner # None => n.of[c].owner = p.of[c].owner

Exists(p, c) == c \in Clients /\ p.of[c].owner # None
SameMaps(p, n) == n.userIds = p.userIds /\ n.bot = p.bot
------------------------------------------------------------------------------
(* The methods of the pool keep its invariant, and owners.                 *)

\* Changing one field of an object at a time.
LEMMA FieldTypes ==
  ASSUME NEW x \in ClientType
  PROVE  /\ \A v \in Statuses : [x EXCEPT !.status = v] \in ClientType
         /\ \A v \in Insts : [x EXCEPT !.inst = v] \in ClientType
         /\ \A v \in Resumes : [x EXCEPT !.resume = v] \in ClientType
         /\ \A v \in BOOLEAN : [x EXCEPT !.explicit = v] \in ClientType
         /\ \A v \in Reasons : [x EXCEPT !.reason = v] \in ClientType
         /\ \A v \in {0, 1} : [x EXCEPT !.nick = v] \in ClientType
         /\ \A v \in {0, 1} : [x EXCEPT !.ircNick = v] \in ClientType
<1>1. \A v \in Statuses : [x EXCEPT !.status = v] \in ClientType
  BY DEF ClientType
<1>2. \A v \in Insts : [x EXCEPT !.inst = v] \in ClientType
  BY DEF ClientType
<1>3. \A v \in Resumes : [x EXCEPT !.resume = v] \in ClientType
  BY DEF ClientType
<1>4. \A v \in BOOLEAN : [x EXCEPT !.explicit = v] \in ClientType
  BY DEF ClientType
<1>5. \A v \in Reasons : [x EXCEPT !.reason = v] \in ClientType
  BY DEF ClientType
<1>6. \A v \in {0, 1} : [x EXCEPT !.nick = v] \in ClientType
  BY DEF ClientType
<1>7. \A v \in {0, 1} : [x EXCEPT !.ircNick = v] \in ClientType
  BY DEF ClientType
<1>. QED  BY <1>1, <1>2, <1>3, <1>4, <1>5, <1>6, <1>7

LEMMA OfType ==
  ASSUME NEW p \in PoolType, NEW c \in Clients
  PROVE  p.of[c] \in ClientType /\ p.of[c].owner \in Owners \cup {None}
         /\ p.of[c].nick \in {0, 1} /\ p.of[c].ircNick \in {0, 1}
BY DEF PoolType, ClientType

\* Replacing one object changes nothing else.
LEMMA WithType ==
  ASSUME NEW p \in PoolType, NEW c \in Clients, NEW x \in ClientType
  PROVE  /\ With(p, c, x) \in PoolType
         /\ With(p, c, x).of = [p.of EXCEPT ![c] = x]
         /\ With(p, c, x).userIds = p.userIds /\ With(p, c, x).bot = p.bot
         /\ With(p, c, x).nicks = p.nicks /\ With(p, c, x).pending = p.pending
BY DEF With, PoolType

LEMMA WithInv ==
  ASSUME NEW p, PoolInv(p), NEW c, Exists(p, c), NEW x \in ClientType, x.owner = p.of[c].owner
  PROVE  /\ PoolInv(With(p, c, x)) /\ Keeps(p, With(p, c, x)) /\ Exists(With(p, c, x), c)
         /\ SameMaps(p, With(p, c, x))
         /\ \A d \in Clients : With(p, c, x).of[d] = IF d = c THEN x ELSE p.of[d]
<1>. DEFINE n == With(p, c, x)
<1>1. /\ n \in PoolType /\ n.of = [p.of EXCEPT ![c] = x]
      /\ n.userIds = p.userIds /\ n.bot = p.bot /\ p \in PoolType
  BY WithType DEF PoolInv, Exists
<1>. HIDE DEF n
<1>2. \A d \in Clients : n.of[d] = IF d = c THEN x ELSE p.of[d]
  BY <1>1 DEF PoolType
<1>3. Keeps(p, n) /\ Exists(n, c) /\ Blank(n)
  BY <1>2 DEF Keeps, Exists, Blank, PoolInv
<1>4. MapsSound(n)
  <2>1. \A d \in Clients : n.of[d].owner = p.of[d].owner
    BY <1>2
  <2>2. /\ \A o \in Owners : p.userIds[o] \in Clients \cup {None}
        /\ p.bot \in Clients \cup {None}
    BY <1>1 DEF PoolType
  <2>. QED  BY <1>1, <2>1, <2>2 DEF MapsSound, PoolInv
<1>. QED  BY <1>1, <1>2, <1>3, <1>4 DEF PoolInv, SameMaps, n

LEMMA CloseInstInv ==
  ASSUME NEW p, PoolInv(p), NEW c, Exists(p, c), NEW why \in Reasons
  PROVE  LET n == CloseInst(p, c, why)
         IN  PoolInv(n) /\ Keeps(p, n) /\ Exists(n, c) /\ SameMaps(p, n)
<1>. DEFINE y == [p.of[c] EXCEPT !.inst = "closing", !.reason = why]
<1>1. p.of[c] \in ClientType
  BY OfType DEF PoolInv, Exists
<1>2. y \in ClientType /\ y.owner = p.of[c].owner
  <2>1. y \in ClientType
    BY <1>1, FieldTypes DEF Insts
  <2>. QED  BY <1>1, <2>1 DEF ClientType
<1>. HIDE DEF y
<1>3. Keeps(p, p) /\ SameMaps(p, p)
  BY DEF Keeps, SameMaps
<1>. QED  BY <1>2, <1>3, WithInv DEF CloseInst, y

LEMMA KeepsTransitive ==
  ASSUME NEW p, NEW q, NEW n, Keeps(p, q), Keeps(q, n) PROVE Keeps(p, n)
BY DEF Keeps

LEMMA DisconnectInv ==
  ASSUME NEW p, PoolInv(p), NEW c, Exists(p, c), NEW e \in BOOLEAN, NEW why \in Reasons
  PROVE  LET n == Disconnect(p, c, why, e)
         IN  PoolInv(n) /\ Keeps(p, n) /\ Exists(n, c) /\ SameMaps(p, n)
<1>. DEFINE y == [p.of[c] EXCEPT !.explicit = e]
            w == With(p, c, y)
<1>1. p.of[c] \in ClientType
  BY OfType DEF PoolInv, Exists
<1>2. y \in ClientType /\ y.owner = p.of[c].owner
  <2>1. y \in ClientType
    BY <1>1, FieldTypes
  <2>. QED  BY <1>1, <2>1 DEF ClientType
<1>. HIDE DEF y
<1>3. PoolInv(w) /\ Keeps(p, w) /\ Exists(w, c) /\ SameMaps(p, w)
  BY <1>2, WithInv
<1>. HIDE DEF w
<1>4. LET n == CloseInst(w, c, why)
      IN  PoolInv(n) /\ Keeps(p, n) /\ Exists(n, c) /\ SameMaps(p, n)
  BY <1>3, CloseInstInv, KeepsTransitive DEF SameMaps
<1>. QED  BY <1>3, <1>4 DEF Disconnect, w, y

LEMMA RemovedInv ==
  ASSUME NEW p, PoolInv(p), NEW c, Exists(p, c)
  PROVE  LET n == Removed(p, c)
         IN  /\ PoolInv(n) /\ Keeps(p, n) /\ Exists(n, c) /\ n.of = p.of
             /\ \A o \in Owners : n.userIds[o] = p.userIds[o]
                                    \/ (o = p.of[c].owner /\ n.userIds[o] = None)
             /\ p.of[c].owner # Bot => n.userIds[p.of[c].owner] = None /\ n.bot = p.bot
<1>. DEFINE n == Removed(p, c)
<1>1. p \in PoolType /\ p.of[c].owner \in Owners /\ NickOf(p, c) \in Nicks
  BY OfType DEF PoolInv, Exists, NickOf, Nicks
<1>2. /\ n \in PoolType /\ n.of = p.of
      /\ n.userIds = [p.userIds EXCEPT ![p.of[c].owner] = IF p.of[c].owner = Bot THEN @ ELSE None]
      /\ n.bot = IF p.of[c].owner = Bot THEN None ELSE p.bot
  BY <1>1 DEF Removed, PoolType
<1>. HIDE DEF n
<1>3. \A o \in Owners : n.userIds[o] = p.userIds[o] \/ (o = p.of[c].owner /\ n.userIds[o] = None)
  BY <1>1, <1>2 DEF PoolType
<1>4. MapsSound(n) /\ Blank(n) /\ Keeps(p, n) /\ Exists(n, c)
  BY <1>2, <1>3 DEF MapsSound, Blank, Keeps, Exists, PoolInv
<1>5. p.of[c].owner # Bot => n.userIds[p.of[c].owner] = None /\ n.bot = p.bot
  BY <1>1, <1>2 DEF PoolType
<1>. QED  BY <1>2, <1>3, <1>4, <1>5 DEF PoolInv, n

LEMMA ConnectingInv ==
  ASSUME NEW p, PoolInv(p), NEW c, Exists(p, c)
  PROVE  LET n == Connecting(p, c) IN PoolInv(n) /\ Keeps(p, n) /\ Exists(n, c) /\ SameMaps(p, n)
<1>. DEFINE y == [p.of[c] EXCEPT !.status = "CONNECTING", !.inst = "opening", !.resume = "waiting"]
<1>1. p.of[c] \in ClientType
  BY OfType DEF PoolInv, Exists
<1>2. y \in ClientType /\ y.owner = p.of[c].owner
  <2>1. y \in ClientType
    BY <1>1, FieldTypes DEF Statuses, Insts, Resumes
  <2>. QED  BY <1>1, <2>1 DEF ClientType
<1>. HIDE DEF y
<1>. QED  BY <1>2, WithInv DEF Connecting, y

LEMMA ConnectedInv ==
  ASSUME NEW p, PoolInv(p), NEW c, Exists(p, c)
  PROVE  LET n == Connected(p, c)
         IN  PoolInv(n) /\ Keeps(p, n) /\ Exists(n, c) /\ SameMaps(p, n)
<1>. DEFINE x == p.of[c]
            y == [x EXCEPT !.status = "CONNECTED", !.resume = "done", !.nick = x.ircNick]
            w == With(p, c, y)
            n == [w EXCEPT !.pending[NickOf(p, c)] = None, !.nicks[<<x.owner, x.ircNick>>] = c]
<1>1. x \in ClientType /\ x.ircNick \in {0, 1} /\ <<x.owner, x.ircNick>> \in Nicks
      /\ NickOf(p, c) \in Nicks
  BY OfType DEF PoolInv, Exists, NickOf, Nicks
<1>2. y \in ClientType /\ y.owner = p.of[c].owner
  <2>1. y \in ClientType
    BY <1>1, FieldTypes DEF Statuses, Resumes
  <2>. QED  BY <1>1, <2>1 DEF ClientType
<1>. HIDE DEF y
<1>3. PoolInv(w) /\ Keeps(p, w) /\ Exists(w, c) /\ SameMaps(p, w)
  BY <1>2, WithInv
<1>. HIDE DEF w
<1>4. n \in PoolType /\ n.of = w.of /\ n.userIds = w.userIds /\ n.bot = w.bot
  BY <1>1, <1>3 DEF PoolType, PoolInv, Exists
<1>. HIDE DEF n
<1>5. PoolInv(n) /\ Keeps(p, n) /\ Exists(n, c) /\ SameMaps(p, n)
  BY <1>3, <1>4 DEF PoolInv, MapsSound, Blank, Keeps, Exists, SameMaps
<1>. QED  BY <1>5 DEF Connected, n, w, y
------------------------------------------------------------------------------
(* Creating a client.                                                      *)

LEMMA NextFreeIsFree ==
  ASSUME NEW p, Free(p) # {}
  PROVE  NextFree(p) \in Clients /\ p.of[NextFree(p)].owner = None
BY DEF NextFree, Free

LEMMA NewClientType ==
  ASSUME NEW o \in Owners \cup {None}, NEW k \in {0, 1}
  PROVE  NewClient(o, k) \in ClientType /\ NewClient(o, k).owner = o
BY DEF NewClient, ClientType, Statuses, Insts, Resumes, Reasons

\* The pool right after a client object for o was made and put into the maps.
Entered(p, o, k) ==
  LET c == NextFree(p)
  IN  [With(p, c, NewClient(o, k)) EXCEPT
         !.userIds[o] = c, !.pending[<<o, k>>] = c, !.bot = IF o = Bot THEN c ELSE @]

LEMMA EnteredInv ==
  ASSUME NEW p, PoolInv(p), NEW o \in Owners, NEW k \in {0, 1}, Free(p) # {}
  PROVE  LET c == NextFree(p)
             n == Entered(p, o, k)
         IN  /\ PoolInv(n) /\ Keeps(p, n) /\ Exists(n, c) /\ p.of[c].owner = None
             /\ \A d \in Clients : n.of[d] = IF d = c THEN NewClient(o, k) ELSE p.of[d]
             /\ \A u \in Owners : n.userIds[u] = IF u = o THEN c ELSE p.userIds[u]
             /\ n.bot = IF o = Bot THEN c ELSE p.bot
<1>. DEFINE c == NextFree(p)
            w == With(p, c, NewClient(o, k))
            n == Entered(p, o, k)
<1>1. c \in Clients /\ <<o, k>> \in Nicks /\ p.of[c].owner = None /\ p \in PoolType
  BY NextFreeIsFree DEF Nicks, PoolInv
<1>2. /\ w \in PoolType /\ w.of = [p.of EXCEPT ![c] = NewClient(o, k)]
      /\ w.userIds = p.userIds /\ w.bot = p.bot
  BY <1>1, NewClientType, WithType
<1>3. n = [w EXCEPT !.userIds[o] = c, !.pending[<<o, k>>] = c, !.bot = IF o = Bot THEN c ELSE @]
  BY DEF Entered
<1>. HIDE DEF w, c, n
<1>4. /\ n.of = w.of /\ n.userIds = [w.userIds EXCEPT ![o] = c]
      /\ n.bot = (IF o = Bot THEN c ELSE w.bot)
      /\ n.nicks = w.nicks /\ n.pending = [w.pending EXCEPT ![<<o, k>>] = c]
      /\ n = [of |-> n.of, userIds |-> n.userIds, bot |-> n.bot, nicks |-> n.nicks,
              pending |-> n.pending]
  BY <1>2, <1>3 DEF PoolType
<1>5. n \in PoolType
  <2>1. n.bot \in Clients \cup {None}
    BY <1>1, <1>2, <1>4 DEF PoolType
  <2>2. n.userIds \in [Owners -> Clients \cup {None}] /\ n.nicks \in [Nicks -> Clients \cup {None}]
        /\ n.pending \in [Nicks -> Clients \cup {None}] /\ n.of \in [Clients -> ClientType]
    BY <1>1, <1>2, <1>4 DEF PoolType
  <2>. QED  BY <1>4, <2>1, <2>2 DEF PoolType
<1>6. /\ \A d \in Clients : n.of[d] = IF d = c THEN NewClient(o, k) ELSE p.of[d]
      /\ \A u \in Owners : n.userIds[u] = IF u = o THEN c ELSE p.userIds[u]
      /\ NewClient(o, k).owner = o
  BY <1>1, <1>2, <1>4, NewClientType DEF PoolType
<1>7. o # None /\ c # None
  BY <1>1, PoolAssumption
<1>8. Keeps(p, n) /\ Exists(n, c) /\ Blank(n)
  BY <1>1, <1>6, <1>7 DEF Keeps, Exists, Blank, PoolInv
<1>9. MapsSound(n)
  <2>1. /\ \A u \in Owners : p.userIds[u] \in Clients \cup {None}
        /\ p.bot \in Clients \cup {None}
    BY <1>1 DEF PoolType
  <2>2. ASSUME NEW u \in Owners, n.userIds[u] # None PROVE n.of[n.userIds[u]].owner = u
    <3>1. CASE u = o
      BY <1>1, <1>6, <3>1
    <3>2. CASE u # o
      <4>1. n.userIds[u] = p.userIds[u] /\ p.userIds[u] # None /\ p.userIds[u] \in Clients
        BY <1>6, <2>1, <2>2, <3>2
      <4>2. p.of[p.userIds[u]].owner = u /\ u # None
        BY <4>1, PoolAssumption DEF PoolInv, MapsSound
      <4>. QED  BY <1>1, <1>6, <4>1, <4>2
    <3>. QED  BY <3>1, <3>2
  <2>3. n.bot # None => n.of[n.bot].owner = Bot
    BY <1>1, <1>2, <1>4, <1>6, <1>7, <2>1, PoolAssumption DEF PoolInv, MapsSound, Owners
  <2>. QED  BY <2>2, <2>3 DEF MapsSound
<1>. QED  BY <1>1, <1>2, <1>4, <1>5, <1>6, <1>8, <1>9 DEF PoolInv, c, n

LEMMA CreatedInv ==
  ASSUME NEW p, PoolInv(p), NEW o \in Owners, NEW k \in {0, 1}, NEW n \in Created(p, o, k)
  PROVE  /\ PoolInv(n) /\ Keeps(p, n) /\ Exists(n, NextFree(p))
         /\ p.of[NextFree(p)].owner = None
         /\ n.bot = IF o = Bot THEN NextFree(p) ELSE p.bot
<1>. DEFINE c == NextFree(p)
            e == Entered(p, o, k)
<1>1. Free(p) # {} /\ n \in AfterLimit(e)
  BY DEF Created, Entered
<1>2. /\ PoolInv(e) /\ Keeps(p, e) /\ Exists(e, c) /\ p.of[c].owner = None
      /\ e.bot = IF o = Bot THEN c ELSE p.bot
  BY <1>1, EnteredInv
<1>. HIDE DEF e, c
<1>3. CASE n = e
  BY <1>2, <1>3 DEF c
<1>4. ASSUME NEW v \in Victims(e), n = Disconnect(Removed(e, v), v, "limit", TRUE)
      PROVE  PoolInv(n) /\ Keeps(p, n) /\ Exists(n, c) /\ n.bot = e.bot
  <2>1. PICK u \in Users : v \in Clients /\ e.userIds[u] = v
    BY <1>4 DEF Victims
  <2>2. e.of[v].owner = u /\ u # Bot /\ u # None /\ u \in Owners
    BY <1>2, <2>1, PoolAssumption DEF PoolInv, MapsSound, Owners
  <2>3. Exists(e, v)
    BY <2>1, <2>2 DEF Exists
  <2>. DEFINE w == Removed(e, v)
  <2>4. PoolInv(w) /\ Keeps(e, w) /\ Exists(w, v) /\ w.of = e.of /\ w.bot = e.bot
    BY <1>2, <2>2, <2>3, RemovedInv
  <2>. HIDE DEF w
  <2>5. PoolInv(n) /\ Keeps(w, n) /\ SameMaps(w, n)
    BY <1>4, <2>4, DisconnectInv DEF Reasons, w
  <2>6. Keeps(e, n)
    BY <2>4, <2>5, KeepsTransitive
  <2>7. Keeps(p, n) /\ Exists(n, c)
    BY <1>2, <2>6, KeepsTransitive DEF Keeps, Exists
  <2>. QED  BY <2>4, <2>5, <2>7 DEF SameMaps
<1>. QED  BY <1>1, <1>2, <1>3, <1>4 DEF AfterLimit, c
------------------------------------------------------------------------------
(* The invariant of the whole pool: whoever refers to a client refers to   *)
(* one that exists.                                                        *)

RefsSound ==
  /\ \A r \in Requests : request[r].pc \in {"connect", "store"} => Exists(pool, request[r].cli)
  /\ \A c \in reviving : Exists(pool, c)
  /\ \A i \in DOMAIN line : Exists(pool, line[i])
RestOK ==
  /\ request \in [Requests -> [pc : {"idle", "lookup", "connect", "store", "done", "failed"},
                               cli : Clients \cup {None}]]
  /\ reviving \in SUBSET Clients /\ running \in SUBSET Clients
  /\ line \in Seq(Clients)
  /\ login \in {"connecting", "waiting", "done"}
SysInv == PoolInv(pool) /\ RefsSound /\ RestOK

\* A client of which anything is known exists.
LEMMA NotBlank ==
  ASSUME NEW p, PoolInv(p), NEW c \in Clients,
         p.of[c].inst # "none" \/ p.of[c].status # "CREATED" \/ p.of[c].resume # "idle"
  PROVE  Exists(p, c)
BY DEF PoolInv, Blank, Exists, NewClient

\* The pool changes soundly, and nobody refers to other clients than before.
LEMMA PoolStep ==
  ASSUME SysInv, PoolInv(pool'), Keeps(pool, pool'), RestOK',
         \A r \in Requests : request'[r].pc \in {"connect", "store"} =>
            Exists(pool, request'[r].cli) \/ Exists(pool', request'[r].cli),
         \A c \in reviving' : Exists(pool, c) \/ Exists(pool', c),
         \A i \in DOMAIN line' : Exists(pool, line'[i]) \/ Exists(pool', line'[i])
  PROVE  SysInv'
<1>1. \A c : Exists(pool, c) => Exists(pool', c)
  BY DEF Keeps, Exists
<1>2. RefsSound'
  BY <1>1 DEF RefsSound
<1>. QED  BY <1>2 DEF SysInv

\* Only the pool changes.
LEMMA PoolOnly ==
  ASSUME SysInv, PoolInv(pool'), Keeps(pool, pool'),
         UNCHANGED <<request, reviving, line>>, RestOK'
  PROVE  SysInv'
<1>1. /\ \A r \in Requests : request'[r].pc \in {"connect", "store"} => Exists(pool, request'[r].cli)
      /\ \A c \in reviving' : Exists(pool, c)
      /\ \A i \in DOMAIN line' : Exists(pool, line'[i])
  BY DEF SysInv, RefsSound
<1>. QED  BY <1>1, PoolStep

LEMMA KeepsSame == ASSUME UNCHANGED pool PROVE Keeps(pool, pool')
BY DEF Keeps

\* The clients that the maps lead to exist.
LEMMA MappedExist ==
  ASSUME NEW p, PoolInv(p)
  PROVE  /\ \A o \in Owners : p.userIds[o] # None => Exists(p, p.userIds[o])
         /\ p.bot # None => Exists(p, p.bot)
<1>1. /\ p \in PoolType /\ MapsSound(p)
      /\ \A o \in Owners : p.userIds[o] \in Clients \cup {None}
      /\ p.bot \in Clients \cup {None}
  BY DEF PoolInv, PoolType
<1>2. \A o \in Owners : o # None
  BY PoolAssumption
<1>3. Bot \in Owners
  BY DEF Owners
<1>. QED  BY <1>1, <1>2, <1>3 DEF MapsSound, Exists

LEMMA InitInv == Init => SysInv
<1>. SUFFICES ASSUME Init PROVE SysInv
  OBVIOUS
<1>1. /\ PoolInv(NoClients) /\ Bot \in Owners
  <2>1. NoClients \in PoolType
    BY NewClientType DEF NoClients, PoolType
  <2>2. MapsSound(NoClients) /\ Blank(NoClients)
    BY DEF NoClients, MapsSound, Blank
  <2>. QED  BY <2>1, <2>2 DEF PoolInv, Owners
<1>2. PICK p \in Created(NoClients, Bot, 0) : pool = Connecting(p, p.bot)
  BY DEF Init
<1>3. PoolInv(p) /\ Exists(p, p.bot)
  BY <1>1, CreatedInv
<1>4. PoolInv(pool)
  BY <1>2, <1>3, ConnectingInv
<1>5. RefsSound /\ RestOK
  BY DEF Init, RefsSound, RestOK
<1>. QED  BY <1>4, <1>5 DEF SysInv
------------------------------------------------------------------------------
(* Every step keeps it: the calls of getBridgedClient.                     *)

LEMMA CallersStep ==
  ASSUME SysInv, NEW r \in Requests, Ask(r) \/ Looked(r) \/ LookupFails(r) \/ Stored(r)
  PROVE  SysInv'
<1>1. /\ RestOK /\ PoolInv(pool) /\ pool \in PoolType /\ Asks[r] \in Users
      /\ Users \subseteq Owners
      /\ \A u \in Users : ByUserId(pool, u) \in Clients \cup {None}
  BY PoolAssumption DEF SysInv, PoolInv, PoolType, ByUserId, Owners
<1>2. CASE Ask(r)
  <2>1. RestOK'
    BY <1>1, <1>2 DEF Ask, RestOK
  <2>2. \A s \in Requests : request'[s].pc \in {"connect", "store"} => request'[s] = request[s]
    BY <1>1, <1>2 DEF Ask, RestOK
  <2>. QED  BY <1>2, <2>1, <2>2, PoolStep, KeepsSame DEF Ask, SysInv, RefsSound
<1>3. CASE Looked(r)
  <2>. DEFINE c == RecheckedClient(r)
  <2>1. CASE c # None
    <3>1. RestOK' /\ UNCHANGED pool
      BY <1>1, <1>3, <2>1 DEF Looked, RestOK, RecheckedClient
    <3>2. \A s \in Requests : request'[s].pc \in {"connect", "store"} => request'[s] = request[s]
      BY <1>1, <1>3, <2>1 DEF Looked, RestOK, RecheckedClient
    <3>. QED  BY <1>3, <3>1, <3>2, PoolStep, KeepsSame DEF Looked, SysInv, RefsSound
  <2>2. CASE c = None
    <3>. DEFINE n == NextFree(pool)
    <3>1. PICK p \in Created(pool, Asks[r], 0) :
            /\ pool' = Connecting(p, n)
            /\ request' = [request EXCEPT ![r] = [pc |-> "connect", cli |-> n]]
      BY <1>3, <2>2 DEF Looked
    <3>2. PoolInv(p) /\ Keeps(pool, p) /\ Exists(p, n)
      BY <1>1, CreatedInv
    <3>. HIDE DEF n
    <3>3. PoolInv(pool') /\ Keeps(pool, pool') /\ Exists(pool', n)
      BY <3>1, <3>2, ConnectingInv, KeepsTransitive
    <3>4. RestOK'
      BY <1>1, <1>3, <3>1, <3>2 DEF Looked, RestOK, Exists
    <3>5. \A s \in Requests : request'[s].pc \in {"connect", "store"} =>
                               request'[s] = request[s] \/ request'[s].cli = n
      BY <1>1, <3>1 DEF RestOK
    <3>. QED  BY <1>3, <3>3, <3>4, <3>5, PoolStep DEF Looked, SysInv, RefsSound
  <2>. QED  BY <2>1, <2>2
<1>4. CASE LookupFails(r)
  <2>1. RestOK' /\ \A s \in Requests : request'[s].pc \in {"connect", "store"} => request'[s] = request[s]
    BY <1>1, <1>4 DEF LookupFails, RestOK
  <2>. QED  BY <1>4, <2>1, PoolStep, KeepsSame DEF LookupFails, SysInv, RefsSound
<1>5. CASE Stored(r)
  <2>1. RestOK' /\ \A s \in Requests : request'[s].pc \in {"connect", "store"} => request'[s] = request[s]
    BY <1>1, <1>5 DEF Stored, RestOK
  <2>2. Exists(pool, request[r].cli)
    BY <1>5 DEF Stored, SysInv, RefsSound
  <2>3. PoolInv(pool') /\ Keeps(pool, pool')
    BY <1>1, <1>5, <2>2, RemovedInv, KeepsSame DEF Stored
  <2>. QED  BY <1>5, <2>1, <2>3, PoolStep DEF Stored, SysInv, RefsSound
<1>. QED  BY <1>2, <1>3, <1>4, <1>5
------------------------------------------------------------------------------
(* What happens to connections.                                            *)

\* The awaiter of connect() moves on.
LEMMA SucceedsRest ==
  ASSUME SysInv, NEW c \in Clients, Succeeds(c), UNCHANGED <<reviving, line, running>>
  PROVE  /\ RestOK'
         /\ \A r \in Requests : request'[r].pc \in {"connect", "store"} =>
              request[r].pc \in {"connect", "store"} /\ request'[r].cli = request[r].cli
<1>1. RestOK
  BY DEF SysInv
<1>2. \A r \in Requests : \/ request'[r] = request[r]
                          \/ request[r] = [pc |-> "connect", cli |-> c]
                             /\ request'[r] = [pc |-> "store", cli |-> c]
  BY DEF Succeeds
<1>3. RestOK'
  <2>1. DOMAIN request' = Requests /\ request' = [r \in Requests |-> request'[r]]
    BY DEF Succeeds
  <2>2. \A r \in Requests : request'[r] \in [pc : {"idle", "lookup", "connect", "store", "done", "failed"},
                                              cli : Clients \cup {None}]
    BY <1>1, <1>2 DEF RestOK
  <2>. QED  BY <1>1, <2>1, <2>2 DEF RestOK, Succeeds
<1>. QED  BY <1>2, <1>3

LEMMA RegisteredInv ==
  ASSUME SysInv, NEW c, Exists(pool, c), NEW k \in Given(c)
  PROVE  LET n == Registered(c, k)
         IN  PoolInv(n) /\ Keeps(pool, n) /\ Exists(n, c) /\ SameMaps(pool, n)
<1>1. PoolInv(pool) /\ pool.of[c] \in ClientType /\ k \in {0, 1}
  BY OfType DEF SysInv, PoolInv, Exists, Given
<1>. DEFINE y == [pool.of[c] EXCEPT !.inst = "open", !.ircNick = k, !.resume = "ready"]
<1>2. y \in ClientType /\ y.owner = pool.of[c].owner
  <2>1. y \in ClientType
    BY <1>1, FieldTypes DEF Insts, Resumes
  <2>. QED  BY <1>1, <2>1 DEF ClientType
<1>. HIDE DEF y
<1>. QED  BY <1>1, <1>2, WithInv DEF Registered, y

LEMMA LostInv ==
  ASSUME SysInv, NEW c, Exists(pool, c)
  PROVE  LET n == Lost(c)
         IN  /\ PoolInv(n) /\ Keeps(pool, n) /\ Exists(n, c)
             /\ n.of[c].inst = "closed" /\ n.of[c].status \in {"DEAD", "KILLED"}
             /\ n.of[c].resume = pool.of[c].resume
             /\ \A d \in Clients \ {c} : n.of[d] = pool.of[d]
<1>1. PoolInv(pool) /\ pool.of[c] \in ClientType /\ NickOf(pool, c) \in Nicks /\ c \in Clients
  BY OfType DEF SysInv, PoolInv, Exists, NickOf, Nicks
<1>. DEFINE x == pool.of[c]
            y == [x EXCEPT !.inst = "closed", !.explicit = @ \/ x.reason = "banned",
                           !.status = IF @ = "KILLED" THEN @ ELSE "DEAD"]
            w == With(pool, c, y)
            v == Removed(w, c)
            n == [v EXCEPT !.pending[NickOf(pool, c)] = None]
<1>2. /\ y \in ClientType /\ y.owner = x.owner /\ y.inst = "closed"
      /\ y.status \in {"DEAD", "KILLED"} /\ y.resume = x.resume
  <2>1. (x.explicit \/ x.reason = "banned") \in BOOLEAN
    OBVIOUS
  <2>2. (IF x.status = "KILLED" THEN x.status ELSE "DEAD") \in Statuses /\ "closed" \in Insts
    BY <1>1 DEF Statuses, Insts
  <2>. QED  BY <1>1, <2>1, <2>2 DEF ClientType
<1>. HIDE DEF y
<1>3. /\ PoolInv(w) /\ Keeps(pool, w) /\ Exists(w, c)
      /\ \A d \in Clients : w.of[d] = IF d = c THEN y ELSE pool.of[d]
  BY <1>1, <1>2, WithInv
<1>. HIDE DEF w
<1>4. PoolInv(v) /\ Keeps(pool, v) /\ Exists(v, c) /\ v.of = w.of
  BY <1>3, RemovedInv, KeepsTransitive
<1>. HIDE DEF v
<1>5. n \in PoolType /\ n.of = v.of /\ SameMaps(v, n)
  BY <1>1, <1>4 DEF PoolType, PoolInv, SameMaps
<1>. HIDE DEF n
<1>6. PoolInv(n) /\ Keeps(pool, n) /\ Exists(n, c)
  BY <1>4, <1>5 DEF PoolInv, MapsSound, Blank, Keeps, Exists, SameMaps
<1>7. n = Lost(c)
  BY DEF Lost, n, v, w, y
<1>. QED  BY <1>1, <1>2, <1>3, <1>4, <1>5, <1>6, <1>7

LEMMA NetworkStep ==
  ASSUME SysInv, NEW c \in Clients, Welcome(c) \/ ConnectFails(c) \/ Drop(c) \/ End(c)
  PROVE  SysInv'
<1>1. PoolInv(pool) /\ RestOK /\ Exists(pool, c) /\ pool.of[c] \in ClientType
  BY NotBlank, OfType DEF SysInv, PoolInv, Welcome, ConnectFails, Drop, End
<1>2. CASE Welcome(c)
  <2>1. PICK k \in Given(c) :
          IF Scheduled
          THEN pool' = Registered(c, k) /\ UNCHANGED <<request, login>>
          ELSE pool' = Connected(Registered(c, k), c) /\ Succeeds(c)
    BY <1>2 DEF Welcome
  <2>2. UNCHANGED <<reviving, line, running>>
    BY <1>2 DEF Welcome
  <2>. DEFINE n == Registered(c, k)
  <2>3. PoolInv(n) /\ Keeps(pool, n) /\ Exists(n, c)
    BY <1>1, RegisteredInv
  <2>. HIDE DEF n
  <2>4. CASE Scheduled
    BY <1>1, <2>1, <2>2, <2>3, <2>4, PoolOnly DEF n, RestOK
  <2>5. CASE ~Scheduled
    <3>1. PoolInv(pool') /\ Keeps(pool, pool')
      BY <2>1, <2>3, <2>5, ConnectedInv, KeepsTransitive DEF n
    <3>. QED  BY <2>1, <2>2, <2>5, <3>1, SucceedsRest, PoolStep DEF SysInv, RefsSound
  <2>. QED  BY <2>4, <2>5
<1>3. CASE ConnectFails(c)
  <2>. DEFINE y == [pool.of[c] EXCEPT !.inst = "closed", !.status = "DEAD", !.resume = "done"]
              p == With(pool, c, y)
  <2>1. y \in ClientType /\ y.owner = pool.of[c].owner
    <3>1. y \in ClientType
      BY <1>1, FieldTypes DEF Insts, Statuses, Resumes
    <3>. QED  BY <1>1, <3>1 DEF ClientType
  <2>2. pool' = p \/ pool' = Removed(p, c)
    BY <1>3 DEF ConnectFails
  <2>. HIDE DEF y
  <2>3. PoolInv(p) /\ Keeps(pool, p) /\ Exists(p, c)
    BY <1>1, <2>1, WithInv
  <2>. HIDE DEF p
  <2>4. PoolInv(pool') /\ Keeps(pool, pool')
    BY <2>2, <2>3, RemovedInv, KeepsTransitive
  <2>5. \A r \in Requests : request'[r] = request[r] \/ request'[r] = [pc |-> "failed", cli |-> c]
    BY <1>3 DEF ConnectFails
  <2>6. RestOK'
    <3>1. request' \in [Requests -> [pc : {"idle", "lookup", "connect", "store", "done", "failed"},
                                    cli : Clients \cup {None}]]
      BY <1>1, <1>3 DEF ConnectFails, RestOK
    <3>. QED  BY <1>1, <1>3, <3>1 DEF ConnectFails, RestOK
  <2>. QED  BY <1>3, <2>4, <2>5, <2>6, PoolStep DEF ConnectFails, SysInv, RefsSound
<1>4. CASE Drop(c)
  <2>1. PoolInv(pool') /\ Keeps(pool, pool')
    BY <1>1, <1>4, CloseInstInv DEF Drop, Reasons
  <2>. QED  BY <1>1, <1>4, <2>1, PoolOnly DEF Drop, RestOK
<1>5. CASE End(c)
  <2>. DEFINE n == Lost(c)
  <2>1. PoolInv(n) /\ Keeps(pool, n) /\ Exists(n, c)
    BY <1>1, LostInv
  <2>2. \/ pool' = n /\ UNCHANGED <<reviving, line>>
        \/ pool' = n /\ reviving' = reviving \cup {c} /\ UNCHANGED line
        \/ /\ pool' \in Created(n, Bot, pool.of[c].nick)
           /\ line' = Append(line, NextFree(n)) /\ UNCHANGED reviving
    BY <1>5 DEF End
  <2>3. UNCHANGED <<request, running, login>>
    BY <1>5 DEF End
  <2>. HIDE DEF n
  <2>4. CASE pool' = n /\ UNCHANGED <<reviving, line>>
    BY <1>1, <2>1, <2>3, <2>4, PoolOnly DEF RestOK
  <2>5. CASE pool' = n /\ reviving' = reviving \cup {c} /\ UNCHANGED line
    <3>1. RestOK'
      BY <1>1, <2>3, <2>5 DEF RestOK
    <3>. QED  BY <1>1, <2>1, <2>3, <2>5, <3>1, PoolStep DEF SysInv, RefsSound
  <2>6. CASE /\ pool' \in Created(n, Bot, pool.of[c].nick)
             /\ line' = Append(line, NextFree(n)) /\ UNCHANGED reviving
    <3>1. pool.of[c].nick \in {0, 1} /\ Bot \in Owners
      BY <1>1 DEF ClientType, Owners
    <3>2. PoolInv(pool') /\ Keeps(n, pool') /\ Exists(pool', NextFree(n))
      BY <2>1, <2>6, <3>1, CreatedInv
    <3>3. Keeps(pool, pool')
      BY <2>1, <3>2, KeepsTransitive
    <3>4. RestOK'
      BY <1>1, <2>3, <2>6, <3>2 DEF RestOK, Exists
    <3>5. \A i \in DOMAIN line' : Exists(pool, line'[i]) \/ Exists(pool', line'[i])
      BY <1>1, <2>6, <3>2 DEF SysInv, RefsSound, RestOK
    <3>. QED  BY <2>3, <2>6, <3>2, <3>3, <3>4, <3>5, PoolStep DEF SysInv, RefsSound
  <2>. QED  BY <2>2, <2>4, <2>5, <2>6
<1>. QED  BY <1>2, <1>3, <1>4, <1>5
------------------------------------------------------------------------------
(* What the bridge does, and what it is told to.                           *)

LEMMA BridgeStep ==
  ASSUME SysInv, Bridge
  PROVE  SysInv'
<1>1. /\ PoolInv(pool) /\ RestOK
      /\ pool.bot # None => Exists(pool, pool.bot)
      /\ Bot \in Owners /\ line \in Seq(Clients)
  BY MappedExist DEF SysInv, RestOK, Owners
<1>2. ASSUME NEW c \in Clients, ConnectResumes(c) PROVE SysInv'
  <2>1. PoolInv(pool') /\ Keeps(pool, pool')
    BY <1>1, <1>2, NotBlank, ConnectedInv DEF ConnectResumes
  <2>. QED  BY <1>2, <2>1, SucceedsRest, PoolStep DEF ConnectResumes, SysInv, RefsSound
<1>3. ASSUME NEW c \in Clients, Revive(c) PROVE SysInv'
  <2>1. /\ Exists(pool, c) /\ pool.of[c].owner \in Owners /\ pool.of[c].nick \in {0, 1}
    BY <1>1, <1>3, OfType DEF Revive, SysInv, RefsSound, PoolInv, Exists
  <2>2. CASE /\ pool' \in Created(pool, pool.of[c].owner, pool.of[c].nick)
             /\ line' = Append(line, NextFree(pool))
    <3>1. PoolInv(pool') /\ Keeps(pool, pool') /\ Exists(pool', NextFree(pool))
      BY <1>1, <2>1, <2>2, CreatedInv
    <3>2. RestOK'
      BY <1>1, <1>3, <2>2, <3>1 DEF Revive, RestOK, Exists
    <3>3. \A i \in DOMAIN line' : Exists(pool, line'[i]) \/ Exists(pool', line'[i])
      BY <1>1, <2>2, <3>1 DEF SysInv, RefsSound, Exists
    <3>. QED  BY <1>3, <3>1, <3>2, <3>3, PoolStep DEF Revive, SysInv, RefsSound
  <2>3. CASE UNCHANGED <<pool, line>>
    <3>1. RestOK'
      BY <1>1, <1>3, <2>3 DEF Revive, RestOK
    <3>. QED  BY <1>1, <1>3, <2>3, <3>1, PoolStep, KeepsSame DEF Revive, SysInv, RefsSound
  <2>. QED  BY <1>3, <2>2, <2>3 DEF Revive
<1>4. ASSUME NEW c \in Clients, Rejoined(c) PROVE SysInv'
  <2>1. RestOK'
    BY <1>1, <1>4 DEF Rejoined, RestOK
  <2>. QED  BY <1>1, <1>4, <2>1, PoolOnly, KeepsSame DEF Rejoined
<1>5. ASSUME Reconnect PROVE SysInv'
  <2>1. /\ line # <<>> /\ Head(line) \in Clients /\ Tail(line) \in Seq(Clients)
        /\ 1 \in DOMAIN line /\ Head(line) = line[1]
        /\ \A i \in DOMAIN Tail(line) : i + 1 \in DOMAIN line /\ Tail(line)[i] = line[i + 1]
    BY <1>1, <1>5 DEF Reconnect
  <2>2. Exists(pool, Head(line)) /\ \A i \in DOMAIN line' : Exists(pool, line'[i])
    BY <1>5, <2>1 DEF Reconnect, SysInv, RefsSound
  <2>3. PoolInv(pool') /\ Keeps(pool, pool')
    BY <1>1, <1>5, <2>2, ConnectingInv DEF Reconnect
  <2>4. RestOK'
    BY <1>1, <1>5, <2>1 DEF Reconnect, RestOK
  <2>. QED  BY <1>5, <2>2, <2>3, <2>4, PoolStep DEF Reconnect, SysInv, RefsSound
<1>6. ASSUME LoginRetries PROVE SysInv'
  <2>1. PoolInv(pool') /\ Keeps(pool, pool')
    BY <1>1, <1>6, ConnectingInv DEF LoginRetries
  <2>. QED  BY <1>1, <1>6, <2>1, PoolOnly DEF LoginRetries, RestOK
<1>7. ASSUME LoginAgain PROVE SysInv'
  <2>1. PICK p \in Created(pool, Bot, 0) : pool' = Connecting(p, p.bot)
    BY <1>7 DEF LoginAgain
  <2>2. PoolInv(p) /\ Keeps(pool, p) /\ Exists(p, p.bot)
    BY <1>1, CreatedInv
  <2>3. PoolInv(pool') /\ Keeps(pool, pool')
    BY <2>1, <2>2, ConnectingInv, KeepsTransitive
  <2>. QED  BY <1>1, <1>7, <2>3, PoolOnly DEF LoginAgain, RestOK
<1>. QED  BY <1>2, <1>3, <1>4, <1>5, <1>6, <1>7 DEF Bridge

LEMMA OrdersStep ==
  ASSUME SysInv, Orders
  PROVE  SysInv'
<1>1. PoolInv(pool) /\ RestOK /\ pool \in PoolType
  BY DEF SysInv, PoolInv
<1>2. \A c \in Clients : Mapped(c) => Exists(pool, c)
  BY <1>1, MappedExist, PoolAssumption DEF Mapped, Owners
<1>3. ASSUME NEW c \in Clients, Kill(c) PROVE SysInv'
  <2>. DEFINE p == Disconnect(pool, c, "killed", TRUE)
              y == [p.of[c] EXCEPT !.status = "KILLED"]
  <2>1. PoolInv(p) /\ Keeps(pool, p) /\ Exists(p, c)
    BY <1>1, <1>2, <1>3, DisconnectInv DEF Kill, Reasons
  <2>. HIDE DEF p
  <2>2. y \in ClientType /\ y.owner = p.of[c].owner
    <3>1. p.of[c] \in ClientType
      BY <2>1, OfType DEF PoolInv, Exists
    <3>2. y \in ClientType
      BY <3>1, FieldTypes DEF Statuses
    <3>. QED  BY <3>1, <3>2 DEF ClientType
  <2>3. pool' = With(p, c, y)
    BY <1>3 DEF Kill, p
  <2>. HIDE DEF y
  <2>4. PoolInv(pool') /\ Keeps(pool, pool')
    BY <2>1, <2>2, <2>3, WithInv, KeepsTransitive
  <2>. QED  BY <1>1, <1>3, <2>4, PoolOnly DEF Kill, RestOK
<1>4. ASSUME NEW c \in Clients, Quit(c) PROVE SysInv'
  <2>1. Exists(pool, c)
    BY <1>1, <1>2, <1>4, NotBlank DEF Quit
  <2>2. PoolInv(pool') /\ Keeps(pool, pool')
    BY <1>1, <1>4, <2>1, DisconnectInv DEF Quit, Reasons
  <2>. QED  BY <1>1, <1>4, <2>2, PoolOnly DEF Quit, RestOK
<1>5. ASSUME NEW n \in Nicks, LookupNick(n) PROVE SysInv'
  <2>1. pool.userIds[n[1]] \in Clients \cup {None}
    BY <1>1 DEF PoolType, Nicks
  <2>2. pool' \in PoolType /\ pool'.of = pool.of /\ SameMaps(pool, pool')
    BY <1>1, <1>5, <2>1 DEF LookupNick, PoolType, SameMaps
  <2>3. PoolInv(pool') /\ Keeps(pool, pool')
    BY <1>1, <2>2 DEF PoolInv, MapsSound, Blank, Keeps, SameMaps
  <2>. QED  BY <1>1, <1>5, <2>3, PoolOnly DEF LookupNick, RestOK
<1>. QED  BY <1>3, <1>4, <1>5 DEF Orders

LEMMA SysStep == ASSUME SysInv, [Next]_vars PROVE SysInv'
<1>1. ASSUME UNCHANGED vars PROVE SysInv'
  BY <1>1, PoolOnly, KeepsSame DEF vars, SysInv, RestOK
<1>. QED
  BY <1>1, CallersStep, NetworkStep, BridgeStep, OrdersStep DEF Next, Callers, Network

LEMMA AlwaysSysInv == Spec => []SysInv
BY SysStep, InitInv, PTL DEF Spec

(***************************************************************************)
(* The pool and its clients always have the shape the code expects, and    *)
(* whoever refers to a client (a request, the reconnect queue, the maps)   *)
(* refers to an object that was created.                                   *)
(***************************************************************************)
THEOREM PoolTypeCorrect == Spec => []TypeOK
<1>1. SysInv => TypeOK
  BY DEF SysInv, RestOK, PoolInv, TypeOK
<1>. QED  BY <1>1, AlwaysSysInv, PTL
------------------------------------------------------------------------------
(* Without the Scheduler, connect() goes on in the turn in which the       *)
(* server accepts the client, so nothing can happen in between.            *)

Sound(x) == /\ x.status = "CONNECTED" => x.inst \in {"open", "closing"}
            /\ x.resume # "ready"
AllSound(p) == \A c \in Clients : Sound(p.of[c])

LEMMA WithSound ==
  ASSUME NEW p \in PoolType, AllSound(p), NEW c \in Clients, NEW x \in ClientType, Sound(x)
  PROVE  AllSound(With(p, c, x))
<1>. DEFINE n == With(p, c, x)
<1>1. n.of = [p.of EXCEPT ![c] = x]
  BY WithType
<1>2. p.of \in [Clients -> ClientType]
  BY DEF PoolType
<1>. HIDE DEF n
<1>3. \A d \in Clients : n.of[d] = IF d = c THEN x ELSE p.of[d]
  BY <1>1, <1>2
<1>. QED  BY <1>3 DEF AllSound, n

LEMMA CloseInstSound ==
  ASSUME NEW p \in PoolType, AllSound(p), NEW c \in Clients, NEW why \in Reasons
  PROVE  AllSound(CloseInst(p, c, why))
<1>. DEFINE x == p.of[c]
            y == [x EXCEPT !.inst = "closing", !.reason = why]
<1>1. x \in ClientType /\ y \in ClientType
  BY OfType, FieldTypes DEF Insts
<1>2. y.status = x.status /\ y.inst = "closing" /\ y.resume = x.resume
  BY <1>1 DEF ClientType
<1>3. Sound(y)
  BY <1>2 DEF Sound, AllSound
<1>. HIDE DEF y
<1>. QED  BY <1>1, <1>3, WithSound DEF CloseInst, y

LEMMA DisconnectSound ==
  ASSUME NEW p, PoolInv(p), AllSound(p), NEW c, Exists(p, c), NEW why \in Reasons, NEW e \in BOOLEAN
  PROVE  AllSound(Disconnect(p, c, why, e))
<1>. DEFINE x == p.of[c]
            y == [x EXCEPT !.explicit = e]
            w == With(p, c, y)
<1>1. x \in ClientType /\ y \in ClientType /\ p \in PoolType /\ c \in Clients
  BY OfType, FieldTypes DEF PoolInv, Exists
<1>2. y.status = x.status /\ y.inst = x.inst /\ y.resume = x.resume
  BY <1>1 DEF ClientType
<1>3. Sound(y)
  BY <1>1, <1>2 DEF Sound, AllSound
<1>. HIDE DEF y
<1>4. w \in PoolType /\ AllSound(w)
  BY <1>1, <1>3, WithSound, WithType
<1>. HIDE DEF w
<1>. QED  BY <1>1, <1>4, CloseInstSound DEF Disconnect, w, y

LEMMA ConnectingSound ==
  ASSUME NEW p \in PoolType, AllSound(p), NEW c \in Clients
  PROVE  AllSound(Connecting(p, c))
<1>. DEFINE x == p.of[c]
            y == [x EXCEPT !.status = "CONNECTING", !.inst = "opening", !.resume = "waiting"]
<1>1. x \in ClientType /\ y \in ClientType
  BY OfType, FieldTypes DEF Statuses, Insts, Resumes
<1>2. y.status = "CONNECTING" /\ y.resume = "waiting"
  BY <1>1 DEF ClientType
<1>3. Sound(y)
  BY <1>2 DEF Sound
<1>. HIDE DEF y
<1>. QED  BY <1>1, <1>3, WithSound DEF Connecting, y

LEMMA CreatedSound ==
  ASSUME NEW p, PoolInv(p), AllSound(p), NEW o \in Owners, NEW k \in {0, 1},
         NEW n \in Created(p, o, k)
  PROVE  AllSound(n)
<1>. DEFINE e == Entered(p, o, k)
            c == NextFree(p)
<1>1. Free(p) # {} /\ n \in AfterLimit(e)
  BY DEF Created, Entered
<1>2. PoolInv(e) /\ \A d \in Clients : e.of[d] = IF d = c THEN NewClient(o, k) ELSE p.of[d]
  BY <1>1, EnteredInv
<1>3. Sound(NewClient(o, k))
  BY DEF Sound, NewClient
<1>. HIDE DEF e, c
<1>4. AllSound(e)
  BY <1>2, <1>3 DEF AllSound
<1>5. ASSUME NEW v \in Victims(e), n = Disconnect(Removed(e, v), v, "limit", TRUE)
      PROVE  AllSound(n)
  <2>1. Exists(e, v)
    BY <1>2, <1>5, NotBlank DEF Victims
  <2>. DEFINE w == Removed(e, v)
  <2>2. PoolInv(w) /\ Exists(w, v) /\ w.of = e.of
    BY <1>2, <2>1, RemovedInv
  <2>. HIDE DEF w
  <2>3. AllSound(w)
    BY <1>4, <2>2 DEF AllSound
  <2>. QED  BY <1>5, <2>2, <2>3, DisconnectSound DEF Reasons, w
<1>. QED  BY <1>1, <1>4, <1>5 DEF AfterLimit

LEMMA SoundStarts == ASSUME ~Scheduled, Init PROVE AllSound(pool)
<1>1. PoolInv(NoClients) /\ AllSound(NoClients) /\ Bot \in Owners
  <2>1. NoClients \in PoolType
    BY NewClientType DEF NoClients, PoolType
  <2>2. MapsSound(NoClients) /\ Blank(NoClients) /\ AllSound(NoClients)
    BY DEF NoClients, MapsSound, Blank, AllSound, Sound, NewClient
  <2>. QED  BY <2>1, <2>2 DEF PoolInv, Owners
<1>2. PICK p \in Created(NoClients, Bot, 0) : pool = Connecting(p, p.bot)
  BY DEF Init
<1>3. PoolInv(p) /\ Exists(p, p.bot) /\ AllSound(p)
  BY <1>1, CreatedInv, CreatedSound
<1>. QED  BY <1>2, <1>3, ConnectingSound DEF PoolInv, Exists

LEMMA SoundStep ==
  ASSUME ~Scheduled, SysInv, AllSound(pool), [Next]_vars
  PROVE  AllSound(pool')
<1>1. /\ PoolInv(pool) /\ pool \in PoolType /\ RestOK
      /\ Users \subseteq Owners /\ Bot \in Owners
      /\ \A c \in Clients : Mapped(c) => Exists(pool, c)
  BY MappedExist, PoolAssumption DEF SysInv, PoolInv, Owners, Mapped
<1>2. ASSUME UNCHANGED pool PROVE AllSound(pool')
  BY <1>2
<1>3. ASSUME NEW r \in Requests, Looked(r) PROVE AllSound(pool')
  <2>1. CASE UNCHANGED pool
    BY <2>1
  <2>2. ASSUME NEW p \in Created(pool, Asks[r], 0), pool' = Connecting(p, NextFree(pool))
        PROVE  AllSound(pool')
    <3>1. Asks[r] \in Owners
      BY <1>1, PoolAssumption
    <3>2. PoolInv(p) /\ Exists(p, NextFree(pool)) /\ AllSound(p)
      BY <1>1, <3>1, CreatedInv, CreatedSound
    <3>. QED  BY <2>2, <3>2, ConnectingSound DEF PoolInv, Exists
  <2>. QED  BY <1>3, <2>1, <2>2 DEF Looked
<1>4. ASSUME NEW r \in Requests, Stored(r) PROVE AllSound(pool')
  <2>1. Exists(pool, request[r].cli)
    BY <1>4 DEF Stored, SysInv, RefsSound
  <2>2. Removed(pool, request[r].cli).of = pool.of
    BY <1>1, <2>1, RemovedInv
  <2>. QED  BY <1>4, <2>2 DEF Stored, AllSound
<1>5. ASSUME NEW c \in Clients, Welcome(c) PROVE AllSound(pool')
  <2>1. PICK k \in Given(c) : pool' = Connected(Registered(c, k), c)
    BY <1>5 DEF Welcome
  <2>2. Exists(pool, c)
    BY <1>1, <1>5, NotBlank DEF Welcome
  <2>. DEFINE g == Registered(c, k)
              x == g.of[c]
              y == [x EXCEPT !.status = "CONNECTED", !.resume = "done", !.nick = x.ircNick]
              w == With(g, c, y)
  <2>3. PoolInv(g) /\ Exists(g, c)
    BY <1>1, <2>2, RegisteredInv
  <2>4. x.inst = "open" /\ \A d \in Clients \ {c} : g.of[d] = pool.of[d]
    <3>. DEFINE z == [pool.of[c] EXCEPT !.inst = "open", !.ircNick = k, !.resume = "ready"]
    <3>1. pool.of[c] \in ClientType /\ k \in {0, 1}
      BY <1>1, OfType DEF Given
    <3>2. z \in ClientType
      BY <3>1, FieldTypes DEF Insts, Resumes
    <3>3. z.inst = "open"
      BY <3>1 DEF ClientType
    <3>. HIDE DEF z
    <3>4. With(pool, c, z).of = [pool.of EXCEPT ![c] = z] /\ pool.of \in [Clients -> ClientType]
      BY <1>1, <3>2, WithType DEF PoolType
    <3>. QED  BY <3>3, <3>4 DEF Registered, z
  <2>. HIDE DEF g
  <2>5. x \in ClientType /\ x.ircNick \in {0, 1} /\ g \in PoolType
    BY <2>3, OfType DEF PoolInv, Exists
  <2>6. y \in ClientType /\ y.inst = "open" /\ y.resume = "done"
    <3>1. y \in ClientType
      BY <2>5, FieldTypes DEF Statuses, Resumes
    <3>. QED  BY <2>4, <2>5, <3>1 DEF ClientType
  <2>7. Sound(y)
    BY <2>6 DEF Sound
  <2>. HIDE DEF y
  <2>8. w \in PoolType /\ w.of = [g.of EXCEPT ![c] = y] /\ g.of \in [Clients -> ClientType]
    BY <2>5, <2>6, WithType DEF PoolType
  <2>9. AllSound(w)
    BY <2>4, <2>7, <2>8 DEF AllSound
  <2>. HIDE DEF w
  <2>10. Connected(g, c).of = w.of
    BY <2>8 DEF Connected, w, y, PoolType
  <2>. QED  BY <2>1, <2>9, <2>10 DEF AllSound, g
<1>6. ASSUME NEW c \in Clients, ConnectFails(c) PROVE AllSound(pool')
  <2>. DEFINE y == [pool.of[c] EXCEPT !.inst = "closed", !.status = "DEAD", !.resume = "done"]
              p == With(pool, c, y)
  <2>1. pool' = p \/ pool' = Removed(p, c)
    BY <1>6 DEF ConnectFails
  <2>2. pool.of[c] \in ClientType
    BY <1>1, OfType
  <2>3. y \in ClientType /\ y.status = "DEAD" /\ y.resume = "done" /\ y.owner = pool.of[c].owner
    <3>1. y \in ClientType
      BY <2>2, FieldTypes DEF Insts, Statuses, Resumes
    <3>. QED  BY <2>2, <3>1 DEF ClientType
  <2>4. Exists(pool, c) /\ Sound(y)
    BY <1>1, <1>6, <2>3, NotBlank DEF ConnectFails, Sound
  <2>. HIDE DEF y
  <2>5. PoolInv(p) /\ Exists(p, c) /\ AllSound(p)
    BY <1>1, <2>3, <2>4, WithInv, WithSound
  <2>. HIDE DEF p
  <2>. QED  BY <2>1, <2>5, RemovedInv DEF AllSound
<1>7. ASSUME NEW c \in Clients, Drop(c) PROVE AllSound(pool')
  BY <1>1, <1>7, CloseInstSound DEF Drop, Reasons
<1>8. ASSUME NEW c \in Clients, End(c) PROVE AllSound(pool')
  <2>. DEFINE n == Lost(c)
  <2>1. Exists(pool, c)
    BY <1>1, <1>8, NotBlank DEF End
  <2>2. PoolInv(n) /\ \A d \in Clients \ {c} : n.of[d] = pool.of[d]
    BY <2>1, LostInv
  <2>3. n.of[c].status # "CONNECTED" /\ n.of[c].resume = pool.of[c].resume
    BY <2>1, LostInv
  <2>4. pool' = n \/ pool' \in Created(n, Bot, pool.of[c].nick)
    BY <1>8 DEF End
  <2>. HIDE DEF n
  <2>5. AllSound(n)
    BY <2>2, <2>3 DEF AllSound, Sound
  <2>6. pool.of[c].nick \in {0, 1}
    BY <1>1, OfType
  <2>. QED  BY <1>1, <2>2, <2>4, <2>5, <2>6, CreatedSound
<1>9. ASSUME NEW c \in Clients, ConnectResumes(c) PROVE AllSound(pool')
  BY <1>9 DEF ConnectResumes, AllSound, Sound
<1>10. ASSUME NEW c \in Clients, Revive(c) PROVE AllSound(pool')
  <2>1. pool.of[c].owner \in Owners /\ pool.of[c].nick \in {0, 1}
    BY <1>1, <1>10, OfType DEF Revive, SysInv, RefsSound, Exists
  <2>. QED  BY <1>1, <1>10, <2>1, CreatedSound DEF Revive
<1>11. ASSUME Reconnect PROVE AllSound(pool')
  <2>1. Head(line) \in Clients
    BY <1>1, <1>11 DEF Reconnect, RestOK
  <2>. QED  BY <1>1, <1>11, <2>1, ConnectingSound DEF Reconnect
<1>12. ASSUME LoginRetries PROVE AllSound(pool')
  BY <1>1, <1>12, MappedExist, ConnectingSound DEF LoginRetries, Exists
<1>13. ASSUME LoginAgain PROVE AllSound(pool')
  <2>1. PICK p \in Created(pool, Bot, 0) : pool' = Connecting(p, p.bot)
    BY <1>13 DEF LoginAgain
  <2>2. PoolInv(p) /\ Exists(p, p.bot) /\ AllSound(p)
    BY <1>1, CreatedInv, CreatedSound
  <2>. QED  BY <2>1, <2>2, ConnectingSound DEF PoolInv, Exists
<1>14. ASSUME NEW c \in Clients, Kill(c) PROVE AllSound(pool')
  <2>. DEFINE p == Disconnect(pool, c, "killed", TRUE)
              y == [p.of[c] EXCEPT !.status = "KILLED"]
  <2>1. PoolInv(p) /\ AllSound(p) /\ p \in PoolType
    BY <1>1, <1>14, DisconnectInv, DisconnectSound DEF Kill, Reasons, PoolInv
  <2>. HIDE DEF p
  <2>2. p.of[c] \in ClientType
    BY <2>1, OfType
  <2>3. y \in ClientType /\ y.status = "KILLED" /\ y.resume = p.of[c].resume
    <3>1. y \in ClientType
      BY <2>2, FieldTypes DEF Statuses
    <3>. QED  BY <2>2, <3>1 DEF ClientType
  <2>4. Sound(y) /\ pool' = With(p, c, y)
    BY <1>14, <2>1, <2>3 DEF Sound, AllSound, Kill, p
  <2>. HIDE DEF y
  <2>. QED  BY <2>1, <2>3, <2>4, WithSound
<1>15. ASSUME NEW c \in Clients, Quit(c) PROVE AllSound(pool')
  <2>1. Exists(pool, c)
    BY <1>1, <1>15, NotBlank DEF Quit
  <2>. QED  BY <1>1, <1>15, <2>1, DisconnectSound DEF Quit, Reasons
<1>16. ASSUME NEW n \in Nicks, LookupNick(n) PROVE AllSound(pool')
  <2>1. pool'.of = pool.of
    BY <1>1, <1>16 DEF LookupNick, PoolType
  <2>. QED  BY <2>1 DEF AllSound
<1>. QED
  BY <1>2, <1>3, <1>4, <1>5, <1>6, <1>7, <1>8, <1>9, <1>10, <1>11, <1>12, <1>13, <1>14, <1>15,
     <1>16
  DEF Next, Callers, Network, Bridge, Orders, Ask, LookupFails, Rejoined, vars

(***************************************************************************)
(* Where connections are not scheduled, a client that claims to be         *)
(* CONNECTED has a connection, whatever drops, kills, bans, limits and     *)
(* reconnections happen to it (BridgedClient.ts, lines 264-274).           *)
(***************************************************************************)
THEOREM PoolNoZombie == ASSUME ~Scheduled PROVE Spec => []NoZombie
<1>1. Init => AllSound(pool)
  BY SoundStarts
<1>2. SysInv /\ AllSound(pool) /\ [Next]_vars => AllSound(pool)'
  BY SoundStep DEF AllSound
<1>3. AllSound(pool) => NoZombie
  BY DEF AllSound, Sound, NoZombie
<1>. QED  BY <1>1, <1>2, <1>3, AlwaysSysInv, PTL DEF Spec
------------------------------------------------------------------------------
(* Whatever happens to connections, every connect() ends and every client  *)
(* is connected or queued for it.                                          *)
InLine(c) == \E i \in DOMAIN line : line[i] = c
NoConnectLost ==
  /\ \A c \in Clients :
       /\ pool.of[c].resume = "waiting" <=> pool.of[c].inst = "opening"
       /\ pool.of[c].owner # None /\ pool.of[c].inst = "none" => InLine(c)
  /\ \A r \in Requests : request[r].pc = "connect" =>
       pool.of[request[r].cli].resume \in {"waiting", "ready"}
  /\ \A c \in running : pool.of[c].resume # "idle"

\* As far as connecting is concerned nothing happens to the object.
Past == {"open", "closing", "closed"}
Alike(x, y) ==
  /\ y.owner = x.owner /\ y.resume = x.resume
  /\ y.inst = x.inst \/ (x.inst \in Past /\ y.inst \in Past)
AllAlike(p, n) == \A c \in Clients : Alike(p.of[c], n.of[c])

LEMMA WithAlike ==
  ASSUME NEW p \in PoolType, NEW c \in Clients, NEW x \in ClientType, Alike(p.of[c], x)
  PROVE  AllAlike(p, With(p, c, x))
<1>. DEFINE n == With(p, c, x)
<1>1. n.of = [p.of EXCEPT ![c] = x] /\ p.of \in [Clients -> ClientType]
  BY WithType DEF PoolType
<1>. HIDE DEF n
<1>. QED  BY <1>1 DEF AllAlike, Alike, n

LEMMA CloseInstAlike ==
  ASSUME NEW p \in PoolType, NEW c \in Clients, NEW why \in Reasons
  PROVE  AllAlike(p, CloseInst(p, c, why))
<1>. DEFINE x == p.of[c]
            y == [x EXCEPT !.inst = "closing", !.reason = why]
<1>1. x \in ClientType /\ y \in ClientType
  BY OfType, FieldTypes DEF Insts
<1>2. y.owner = x.owner /\ y.inst = "closing" /\ y.resume = x.resume
  BY <1>1 DEF ClientType
<1>3. x.inst = "open" => Alike(x, y)
  BY <1>2 DEF Alike, Past
<1>. HIDE DEF y
<1>. QED  BY <1>1, <1>3, WithAlike DEF CloseInst, y, AllAlike, Alike

LEMMA DisconnectAlike ==
  ASSUME NEW p \in PoolType, NEW c \in Clients, NEW why \in Reasons, NEW e \in BOOLEAN
  PROVE  AllAlike(p, Disconnect(p, c, why, e))
<1>. DEFINE x == p.of[c]
            y == [x EXCEPT !.explicit = e]
            w == With(p, c, y)
<1>1. x \in ClientType /\ y \in ClientType
  BY OfType, FieldTypes
<1>2. y.owner = x.owner /\ y.inst = x.inst /\ y.resume = x.resume
  BY <1>1 DEF ClientType
<1>3. Alike(x, y)
  BY <1>2 DEF Alike
<1>. HIDE DEF y
<1>4. w \in PoolType /\ AllAlike(p, w)
  BY <1>1, <1>3, WithType, WithAlike
<1>. HIDE DEF w
<1>5. AllAlike(w, CloseInst(w, c, why))
  BY <1>4, CloseInstAlike
<1>. QED  BY <1>4, <1>5 DEF Disconnect, w, y, AllAlike, Alike

\* A new client waits for connect() to be called; the limit disconnects others only.
LEMMA CreatedAlike ==
  ASSUME NEW p, PoolInv(p), NEW o \in Owners, NEW k \in {0, 1}, NEW n \in Created(p, o, k)
  PROVE  LET c == NextFree(p)
         IN  /\ c \in Clients /\ n.of[c].inst = "none" /\ n.of[c].resume = "idle"
             /\ \A d \in Clients \ {c} : Alike(p.of[d], n.of[d])
<1>. DEFINE e == Entered(p, o, k)
            c == NextFree(p)
<1>1. Free(p) # {} /\ n \in AfterLimit(e)
  BY DEF Created, Entered
<1>2. /\ PoolInv(e) /\ c \in Clients
      /\ \A d \in Clients : e.of[d] = IF d = c THEN NewClient(o, k) ELSE p.of[d]
  BY <1>1, EnteredInv, NextFreeIsFree
<1>3. NewClient(o, k).inst = "none" /\ NewClient(o, k).resume = "idle"
  BY DEF NewClient
<1>. HIDE DEF e, c
<1>4. AllAlike(e, n)
  <2>1. CASE n = e
    BY <2>1 DEF AllAlike, Alike
  <2>2. ASSUME NEW v \in Victims(e), n = Disconnect(Removed(e, v), v, "limit", TRUE)
        PROVE  AllAlike(e, n)
    <3>1. Exists(e, v)
      BY <1>2, <2>2, NotBlank DEF Victims
    <3>. DEFINE w == Removed(e, v)
    <3>2. w \in PoolType /\ v \in Clients /\ w.of = e.of
      BY <1>2, <3>1, RemovedInv DEF PoolInv, Exists
    <3>. HIDE DEF w
    <3>3. AllAlike(w, n)
      BY <2>2, <3>2, DisconnectAlike DEF Reasons, w
    <3>. QED  BY <3>2, <3>3 DEF AllAlike
  <2>. QED  BY <1>1, <2>1, <2>2 DEF AfterLimit
<1>5. n.of[c].inst = "none" /\ n.of[c].resume = "idle"
  BY <1>2, <1>3, <1>4 DEF AllAlike, Alike, Past
<1>6. \A d \in Clients \ {c} : Alike(p.of[d], n.of[d])
  BY <1>2, <1>4 DEF AllAlike
<1>. QED  BY <1>2, <1>5, <1>6 DEF c

LEMMA ConnectingAlike ==
  ASSUME NEW p \in PoolType, NEW c \in Clients
  PROVE  LET n == Connecting(p, c)
         IN  /\ n.of[c].inst = "opening" /\ n.of[c].resume = "waiting"
             /\ \A d \in Clients \ {c} : n.of[d] = p.of[d]
<1>. DEFINE x == p.of[c]
            y == [x EXCEPT !.status = "CONNECTING", !.inst = "opening", !.resume = "waiting"]
            n == With(p, c, y)
<1>1. x \in ClientType /\ y \in ClientType
  BY OfType, FieldTypes DEF Statuses, Insts, Resumes
<1>2. y.inst = "opening" /\ y.resume = "waiting"
  BY <1>1 DEF ClientType
<1>. HIDE DEF y
<1>3. n.of = [p.of EXCEPT ![c] = y] /\ p.of \in [Clients -> ClientType]
  BY <1>1, WithType DEF PoolType
<1>. HIDE DEF n
<1>4. /\ n.of[c].inst = "opening" /\ n.of[c].resume = "waiting"
      /\ \A d \in Clients \ {c} : n.of[d] = p.of[d]
  BY <1>2, <1>3
<1>. QED  BY <1>4 DEF Connecting, n, y

LEMMA ConnectedAlike ==
  ASSUME NEW p, PoolInv(p), NEW c, Exists(p, c)
  PROVE  LET n == Connected(p, c)
         IN  /\ n.of[c].inst = p.of[c].inst /\ n.of[c].resume = "done"
             /\ \A d \in Clients \ {c} : n.of[d] = p.of[d]
<1>. DEFINE x == p.of[c]
            y == [x EXCEPT !.status = "CONNECTED", !.resume = "done", !.nick = x.ircNick]
            w == With(p, c, y)
            n == Connected(p, c)
<1>1. x \in ClientType /\ x.ircNick \in {0, 1} /\ p \in PoolType /\ c \in Clients
  BY OfType DEF PoolInv, Exists
<1>2. y \in ClientType /\ y.inst = x.inst /\ y.resume = "done"
  <2>1. y \in ClientType
    BY <1>1, FieldTypes DEF Statuses, Resumes
  <2>. QED  BY <1>1, <2>1 DEF ClientType
<1>. HIDE DEF y
<1>3. w \in PoolType /\ w.of = [p.of EXCEPT ![c] = y] /\ p.of \in [Clients -> ClientType]
  <2>1. w \in PoolType /\ w.of = [p.of EXCEPT ![c] = y]
    BY <1>1, <1>2, WithType
  <2>. QED  BY <1>1, <2>1 DEF PoolType
<1>. HIDE DEF w
<1>4. n.of = w.of
  BY <1>3 DEF Connected, w, y, PoolType
<1>. HIDE DEF n
<1>5. /\ n.of[c].inst = p.of[c].inst /\ n.of[c].resume = "done"
      /\ \A d \in Clients \ {c} : n.of[d] = p.of[d]
  BY <1>1, <1>2, <1>3, <1>4
<1>. QED  BY <1>5 DEF n

\* A step in which nobody connects, is created or asks for a client.
LEMMA NobodyMoves ==
  ASSUME SysInv, NoConnectLost, AllAlike(pool, pool'), running' \subseteq running,
         \A c \in Clients : InLine(c) => InLine(c)',
         \A r \in Requests : request'[r].pc = "connect" => request'[r] = request[r]
  PROVE  NoConnectLost'
<1>1. ASSUME NEW c \in Clients
      PROVE  /\ pool'.of[c].resume = "waiting" <=> pool'.of[c].inst = "opening"
             /\ pool'.of[c].owner # None /\ pool'.of[c].inst = "none" => InLine(c)'
  BY DEF NoConnectLost, AllAlike, Alike, Past
<1>2. ASSUME NEW r \in Requests, request'[r].pc = "connect"
      PROVE  pool'.of[request'[r].cli].resume \in {"waiting", "ready"}
  <2>1. request'[r] = request[r] /\ request[r].cli \in Clients
    BY <1>2 DEF SysInv, RefsSound, Exists
  <2>. QED  BY <1>2, <2>1 DEF NoConnectLost, AllAlike, Alike
<1>3. ASSUME NEW c \in running' PROVE pool'.of[c].resume # "idle"
  <2>1. c \in running /\ c \in Clients
    BY DEF SysInv, RestOK
  <2>. QED  BY <2>1 DEF NoConnectLost, AllAlike, Alike
<1>. QED  BY <1>1, <1>2, <1>3 DEF NoConnectLost, InLine

\* A step of one client: it is created, begins to connect, or connect() ends.
LEMMA OneMoves ==
  ASSUME SysInv, NoConnectLost, NEW c \in Clients,
         \A d \in Clients \ {c} : Alike(pool.of[d], pool'.of[d]) /\ (InLine(d) => InLine(d)'),
         pool'.of[c].resume = "waiting" <=> pool'.of[c].inst = "opening",
         pool'.of[c].inst # "none" \/ InLine(c)',
         \A r \in Requests : request'[r].pc = "connect" =>
           \/ request'[r] = request[r] /\ request[r].cli # c
           \/ request'[r].cli = c /\ pool'.of[c].resume \in {"waiting", "ready"},
         \A d \in running' : (d # c /\ d \in running) \/ (d = c /\ pool'.of[c].resume # "idle")
  PROVE  NoConnectLost'
<1>1. ASSUME NEW d \in Clients
      PROVE  /\ pool'.of[d].resume = "waiting" <=> pool'.of[d].inst = "opening"
             /\ pool'.of[d].owner # None /\ pool'.of[d].inst = "none" => InLine(d)'
  <2>1. CASE d = c
    BY <2>1 DEF InLine
  <2>2. CASE d # c
    BY <2>2 DEF NoConnectLost, Alike, Past
  <2>. QED  BY <2>1, <2>2
<1>2. ASSUME NEW r \in Requests, request'[r].pc = "connect"
      PROVE  pool'.of[request'[r].cli].resume \in {"waiting", "ready"}
  <2>1. CASE request'[r] = request[r] /\ request[r].cli # c
    <3>1. request[r].cli \in Clients
      BY <1>2, <2>1 DEF SysInv, RefsSound, Exists
    <3>. QED  BY <1>2, <2>1, <3>1 DEF NoConnectLost, Alike
  <2>. QED  BY <1>2, <2>1
<1>3. ASSUME NEW d \in running' PROVE pool'.of[d].resume # "idle"
  <2>1. CASE d # c /\ d \in running
    <3>1. d \in Clients
      BY <2>1 DEF SysInv, RestOK
    <3>. QED  BY <2>1, <3>1 DEF NoConnectLost, Alike
  <2>. QED  BY <1>3, <2>1
<1>. QED  BY <1>1, <1>2, <1>3 DEF NoConnectLost, InLine

\* Nobody waits for, or has called connect() on, an object that does not exist yet.
LEMMA NobodyKnows ==
  ASSUME SysInv, NoConnectLost, NEW c \in Clients, pool.of[c].owner = None
  PROVE  c \notin running /\ \A r \in Requests : request[r].pc = "connect" => request[r].cli # c
<1>1. pool.of[c].resume = "idle"
  BY DEF SysInv, PoolInv, Blank, NewClient
<1>. QED  BY <1>1 DEF NoConnectLost

LEMMA AtTheEnd ==
  ASSUME NEW c \in Clients, line \in Seq(Clients), line' = Append(line, c)
  PROVE  InLine(c)' /\ \A d \in Clients : InLine(d) => InLine(d)'
<1>1. /\ DOMAIN line' = 1..(Len(line) + 1) /\ line'[Len(line) + 1] = c
      /\ \A i \in DOMAIN line : i \in DOMAIN line' /\ line'[i] = line[i]
  BY DEF InLine
<1>. QED  BY <1>1 DEF InLine

\* A client takes the place of a lost one, and queues.
LEMMA TakesPlace ==
  ASSUME SysInv, NoConnectLost, NEW p, PoolInv(p), AllAlike(pool, p), NEW o \in Owners, NEW k \in {0, 1},
         pool' \in Created(p, o, k), line' = Append(line, NextFree(p)), UNCHANGED <<request, running>>
  PROVE  NoConnectLost'
<1>. DEFINE c == NextFree(p)
<1>1. /\ c \in Clients /\ pool'.of[c].inst = "none" /\ pool'.of[c].resume = "idle"
      /\ \A d \in Clients \ {c} : Alike(p.of[d], pool'.of[d])
      /\ p.of[c].owner = None
  BY CreatedAlike, CreatedInv
<1>. HIDE DEF c
<1>2. pool.of[c].owner = None
  BY <1>1 DEF AllAlike, Alike
<1>3. InLine(c)' /\ \A d \in Clients : InLine(d) => InLine(d)'
  BY <1>1, AtTheEnd DEF SysInv, RestOK, c
<1>4. \A d \in Clients \ {c} : Alike(pool.of[d], pool'.of[d])
  BY <1>1 DEF AllAlike, Alike
<1>. QED  BY <1>1, <1>2, <1>3, <1>4, NobodyKnows, OneMoves

\* A client is created and connected at once.
LEMMA ConnectsAtOnce ==
  ASSUME SysInv, NoConnectLost, NEW o \in Owners, NEW p \in Created(pool, o, 0), NEW c, c = NextFree(pool),
         pool' = Connecting(p, c), UNCHANGED <<line, running>>,
         \A r \in Requests : request'[r].pc = "connect" => request'[r] = request[r] \/ request'[r].cli = c
  PROVE  NoConnectLost'
<1>1. /\ c \in Clients /\ p \in PoolType /\ pool.of[c].owner = None
      /\ \A d \in Clients \ {c} : Alike(pool.of[d], p.of[d])
  BY CreatedAlike, CreatedInv DEF SysInv, PoolInv
<1>2. /\ pool'.of[c].inst = "opening" /\ pool'.of[c].resume = "waiting"
      /\ \A d \in Clients \ {c} : pool'.of[d] = p.of[d]
  BY <1>1, ConnectingAlike
<1>3. \A d \in Clients : InLine(d) => InLine(d)'
  BY DEF InLine
<1>. QED  BY <1>1, <1>2, <1>3, NobodyKnows, OneMoves

LEMMA LostAlike ==
  ASSUME SysInv, NEW c, Exists(pool, c), pool.of[c].inst = "closing"
  PROVE  PoolInv(Lost(c)) /\ AllAlike(pool, Lost(c))
<1>. DEFINE n == Lost(c)
<1>1. /\ PoolInv(n) /\ Keeps(pool, n) /\ n.of[c].inst = "closed" /\ n.of[c].resume = pool.of[c].resume
      /\ \A d \in Clients \ {c} : n.of[d] = pool.of[d]
  BY LostInv
<1>. HIDE DEF n
<1>2. AllAlike(pool, n)
  BY <1>1 DEF AllAlike, Alike, Past, Keeps, Exists
<1>. QED  BY <1>1, <1>2 DEF n
------------------------------------------------------------------------------
LEMMA RegisteredAlike ==
  ASSUME SysInv, NEW c, Exists(pool, c), NEW k \in Given(c)
  PROVE  LET n == Registered(c, k)
         IN  /\ n.of[c].inst = "open" /\ n.of[c].resume = "ready"
             /\ \A d \in Clients \ {c} : n.of[d] = pool.of[d]
<1>. DEFINE z == [pool.of[c] EXCEPT !.inst = "open", !.ircNick = k, !.resume = "ready"]
            n == With(pool, c, z)
<1>1. pool \in PoolType /\ c \in Clients /\ pool.of[c] \in ClientType /\ k \in {0, 1}
  BY OfType DEF SysInv, PoolInv, Exists, Given
<1>2. z \in ClientType
  BY <1>1, FieldTypes DEF Insts, Resumes
<1>3. z.inst = "open" /\ z.resume = "ready"
  BY <1>1 DEF ClientType
<1>. HIDE DEF z
<1>4. n.of = [pool.of EXCEPT ![c] = z] /\ pool.of \in [Clients -> ClientType]
  <2>1. n.of = [pool.of EXCEPT ![c] = z]
    BY <1>1, <1>2, WithType
  <2>. QED  BY <1>1, <2>1 DEF PoolType
<1>. HIDE DEF n
<1>5. /\ n.of[c].inst = "open" /\ n.of[c].resume = "ready"
      /\ \A d \in Clients \ {c} : n.of[d] = pool.of[d]
  BY <1>1, <1>3, <1>4
<1>. QED  BY <1>5 DEF Registered, n, z

\* connect() is over: whoever awaited it goes on.
LEMMA ConnectEnds ==
  ASSUME SysInv, NoConnectLost, NEW c \in Clients, \A d \in Clients \ {c} : pool'.of[d] = pool.of[d],
         pool'.of[c].resume = "done", pool'.of[c].inst \in Past \/ pool'.of[c].inst = pool.of[c].inst,
         pool.of[c].resume # "waiting" \/ pool'.of[c].inst \in Past,
         UNCHANGED line, pool.of[c].owner # None, running' \subseteq running,
         \A r \in Requests : \/ request'[r] = request[r] /\ request[r] # [pc |-> "connect", cli |-> c]
                             \/ request'[r].pc # "connect"
  PROVE  NoConnectLost'
<1>1. \A d \in Clients \ {c} : Alike(pool.of[d], pool'.of[d])
  BY DEF Alike
<1>2. \A d \in Clients : InLine(d) => InLine(d)'
  BY DEF InLine
<1>3. pool'.of[c].inst # "opening" /\ (pool'.of[c].inst # "none" \/ InLine(c)')
  BY <1>2 DEF NoConnectLost, Past
<1>4. ASSUME NEW r \in Requests, request'[r].pc = "connect"
      PROVE  request'[r] = request[r] /\ request[r].cli # c
  BY <1>4 DEF SysInv, RestOK
<1>5. \A d \in running' : (d # c /\ d \in running) \/ (d = c /\ pool'.of[c].resume # "idle")
  OBVIOUS
<1>. QED  BY <1>1, <1>2, <1>3, <1>4, <1>5, OneMoves

LEMMA CallersConnect ==
  ASSUME SysInv, NoConnectLost, NEW r \in Requests, Ask(r) \/ Looked(r) \/ LookupFails(r) \/ Stored(r)
  PROVE  NoConnectLost'
<1>1. /\ RestOK /\ PoolInv(pool) /\ Asks[r] \in Owners
      /\ \A c \in Clients : Alike(pool.of[c], pool.of[c])
  BY PoolAssumption DEF SysInv, Owners, Alike
<1>2. CASE Ask(r) \/ LookupFails(r) \/ (Looked(r) /\ UNCHANGED pool)
  <2>1. AllAlike(pool, pool') /\ UNCHANGED <<line, running>>
    BY <1>1, <1>2 DEF Ask, LookupFails, Looked, AllAlike
  <2>2. \A s \in Requests : request'[s].pc = "connect" => request'[s] = request[s]
    <3>1. CASE Looked(r) /\ UNCHANGED pool /\ RecheckedClient(r) = None
      <4>1. PICK p \in Created(pool, Asks[r], 0) : pool' = Connecting(p, NextFree(pool))
        BY <3>1 DEF Looked
      <4>2. /\ NextFree(pool) \in Clients /\ p \in PoolType /\ pool.of[NextFree(pool)].owner = None
        BY <1>1, CreatedAlike, CreatedInv DEF PoolInv
      <4>3. pool'.of[NextFree(pool)].inst = "opening" /\ pool.of[NextFree(pool)].inst = "none"
        BY <1>1, <4>1, <4>2, ConnectingAlike DEF PoolInv, Blank, NewClient
      <4>. QED  BY <3>1, <4>3
    <3>2. CASE Ask(r) \/ LookupFails(r) \/ (Looked(r) /\ RecheckedClient(r) # None)
      BY <1>1, <3>2 DEF Ask, LookupFails, Looked, RestOK
    <3>. QED  BY <1>2, <3>1, <3>2
  <2>. QED  BY <2>1, <2>2, NobodyMoves DEF InLine
<1>3. CASE Looked(r) /\ pool' # pool
  <2>1. PICK p \in Created(pool, Asks[r], 0) :
          /\ pool' = Connecting(p, NextFree(pool))
          /\ request' = [request EXCEPT ![r] = [pc |-> "connect", cli |-> NextFree(pool)]]
    BY <1>3 DEF Looked
  <2>2. \A s \in Requests : request'[s].pc = "connect" => request'[s] = request[s] \/ request'[s].cli = NextFree(pool)
    BY <1>1, <2>1 DEF RestOK
  <2>. QED  BY <1>1, <1>3, <2>1, <2>2, ConnectsAtOnce DEF Looked
<1>4. CASE Stored(r)
  <2>1. Exists(pool, request[r].cli)
    BY <1>4 DEF Stored, SysInv, RefsSound
  <2>2. Removed(pool, request[r].cli).of = pool.of
    BY <1>1, <2>1, RemovedInv
  <2>3. AllAlike(pool, pool') /\ UNCHANGED <<line, running>>
    BY <1>1, <1>4, <2>2 DEF Stored, AllAlike
  <2>4. \A s \in Requests : request'[s].pc = "connect" => request'[s] = request[s]
    BY <1>1, <1>4 DEF Stored, RestOK
  <2>. QED  BY <2>3, <2>4, NobodyMoves DEF InLine
<1>. QED  BY <1>2, <1>3, <1>4 DEF Looked

LEMMA NetworkConnects ==
  ASSUME SysInv, NoConnectLost, NEW c \in Clients, Welcome(c) \/ ConnectFails(c) \/ Drop(c) \/ End(c)
  PROVE  NoConnectLost'
<1>1. PoolInv(pool) /\ pool \in PoolType /\ RestOK /\ Exists(pool, c) /\ pool.of[c] \in ClientType
  BY NotBlank, OfType DEF SysInv, PoolInv, Welcome, ConnectFails, Drop, End
<1>2. CASE Welcome(c)
  <2>1. PICK k \in Given(c) :
          IF Scheduled
          THEN pool' = Registered(c, k) /\ UNCHANGED <<request, login>>
          ELSE pool' = Connected(Registered(c, k), c) /\ Succeeds(c)
    BY <1>2 DEF Welcome
  <2>2. UNCHANGED <<line, running>>
    BY <1>2 DEF Welcome
  <2>. DEFINE n == Registered(c, k)
  <2>3. /\ PoolInv(n) /\ Exists(n, c) /\ n.of[c].inst = "open" /\ n.of[c].resume = "ready"
        /\ \A d \in Clients \ {c} : n.of[d] = pool.of[d]
    BY <1>1, RegisteredInv, RegisteredAlike
  <2>. HIDE DEF n
  <2>4. CASE Scheduled
    <3>1. pool' = n /\ UNCHANGED request
      BY <2>1, <2>4 DEF n
    <3>2. \A d \in Clients \ {c} : Alike(pool.of[d], pool'.of[d]) /\ (InLine(d) => InLine(d)')
      BY <2>2, <2>3, <3>1 DEF Alike, InLine
    <3>. QED  BY <2>2, <2>3, <3>1, <3>2, OneMoves DEF NoConnectLost
  <2>5. CASE ~Scheduled
    <3>1. pool' = Connected(n, c) /\ Succeeds(c)
      BY <2>1, <2>5 DEF n
    <3>2. /\ pool'.of[c].inst = "open" /\ pool'.of[c].resume = "done"
          /\ \A d \in Clients \ {c} : pool'.of[d] = pool.of[d]
      BY <2>3, <3>1, ConnectedAlike
    <3>. QED  BY <1>1, <2>2, <3>1, <3>2, ConnectEnds DEF Succeeds, Past, Exists
  <2>. QED  BY <2>4, <2>5
<1>3. CASE ConnectFails(c)
  <2>. DEFINE y == [pool.of[c] EXCEPT !.inst = "closed", !.status = "DEAD", !.resume = "done"]
              p == With(pool, c, y)
  <2>1. pool' = p \/ pool' = Removed(p, c)
    BY <1>3 DEF ConnectFails
  <2>2. y \in ClientType /\ y.inst = "closed" /\ y.resume = "done" /\ y.owner = pool.of[c].owner
    <3>1. y \in ClientType
      BY <1>1, FieldTypes DEF Insts, Statuses, Resumes
    <3>. QED  BY <1>1, <3>1 DEF ClientType
  <2>. HIDE DEF y
  <2>3. PoolInv(p) /\ Exists(p, c) /\ \A d \in Clients : p.of[d] = IF d = c THEN y ELSE pool.of[d]
    BY <1>1, <2>2, WithInv
  <2>. HIDE DEF p
  <2>4. pool'.of = p.of
    BY <2>1, <2>3, RemovedInv
  <2>5. running' \subseteq running /\ UNCHANGED line
    BY <1>3 DEF ConnectFails
  <2>6. \A r \in Requests : \/ request'[r] = request[r] /\ request[r] # [pc |-> "connect", cli |-> c]
                            \/ request'[r].pc # "connect"
    BY <1>3 DEF ConnectFails
  <2>. QED  BY <1>1, <2>2, <2>3, <2>4, <2>5, <2>6, ConnectEnds DEF Past, Exists
<1>4. CASE Drop(c)
  <2>1. AllAlike(pool, pool')
    BY <1>1, <1>4, CloseInstAlike DEF Drop, Reasons
  <2>. QED  BY <1>4, <2>1, NobodyMoves DEF Drop, InLine
<1>5. CASE End(c)
  <2>. DEFINE n == Lost(c)
  <2>1. PoolInv(n) /\ AllAlike(pool, n)
    BY <1>1, <1>5, LostAlike DEF End
  <2>2. \/ pool' = n /\ UNCHANGED line
        \/ pool' \in Created(n, Bot, pool.of[c].nick) /\ line' = Append(line, NextFree(n))
    BY <1>5 DEF End
  <2>3. UNCHANGED <<request, running>>
    BY <1>5 DEF End
  <2>. HIDE DEF n
  <2>4. CASE pool' = n /\ UNCHANGED line
    BY <2>1, <2>3, <2>4, NobodyMoves DEF InLine
  <2>5. CASE pool' \in Created(n, Bot, pool.of[c].nick) /\ line' = Append(line, NextFree(n))
    <3>1. pool.of[c].nick \in {0, 1} /\ Bot \in Owners
      BY <1>1, OfType DEF Owners
    <3>. QED  BY <2>1, <2>3, <2>5, <3>1, TakesPlace
  <2>. QED  BY <2>2, <2>4, <2>5
<1>. QED  BY <1>2, <1>3, <1>4, <1>5

\* connect() is called on a client that exists: one of the queue, or the bot's.
LEMMA ConnectBegins ==
  ASSUME SysInv, NoConnectLost, NEW c \in Clients, pool' = Connecting(pool, c), UNCHANGED request,
         running' \subseteq running \cup {c}, \A d \in Clients \ {c} : InLine(d) => InLine(d)'
  PROVE  NoConnectLost'
<1>1. /\ pool'.of[c].inst = "opening" /\ pool'.of[c].resume = "waiting"
      /\ \A d \in Clients \ {c} : pool'.of[d] = pool.of[d]
  BY ConnectingAlike DEF SysInv, PoolInv
<1>2. \A d \in Clients \ {c} : Alike(pool.of[d], pool'.of[d]) /\ (InLine(d) => InLine(d)')
  BY <1>1 DEF Alike
<1>. QED  BY <1>1, <1>2, OneMoves

LEMMA BridgeConnects ==
  ASSUME SysInv, NoConnectLost, Bridge
  PROVE  NoConnectLost'
<1>1. /\ PoolInv(pool) /\ RestOK /\ Bot \in Owners
      /\ pool.bot # None => Exists(pool, pool.bot)
  BY MappedExist DEF SysInv, Owners
<1>2. ASSUME NEW c \in Clients, ConnectResumes(c) PROVE NoConnectLost'
  <2>1. Exists(pool, c) /\ pool.of[c].resume = "ready" /\ Succeeds(c) /\ UNCHANGED <<line, running>>
    BY <1>1, <1>2, NotBlank DEF ConnectResumes
  <2>2. /\ pool'.of[c].inst = pool.of[c].inst /\ pool'.of[c].resume = "done"
        /\ \A d \in Clients \ {c} : pool'.of[d] = pool.of[d]
    BY <1>1, <1>2, <2>1, ConnectedAlike DEF ConnectResumes
  <2>. QED  BY <2>1, <2>2, ConnectEnds DEF Succeeds, Exists
<1>3. ASSUME NEW c \in Clients, Revive(c) PROVE NoConnectLost'
  <2>0. UNCHANGED <<request, running>> /\ AllAlike(pool, pool)
    BY <1>3 DEF Revive, AllAlike, Alike
  <2>1. CASE UNCHANGED <<pool, line>>
    BY <2>0, <2>1, NobodyMoves DEF InLine
  <2>2. CASE /\ pool' \in Created(pool, pool.of[c].owner, pool.of[c].nick)
             /\ line' = Append(line, NextFree(pool))
    <3>1. pool.of[c].owner \in Owners /\ pool.of[c].nick \in {0, 1}
      BY <1>1, <1>3, OfType DEF Revive, SysInv, RefsSound, PoolInv, Exists
    <3>. QED  BY <1>1, <2>0, <2>2, <3>1, TakesPlace
  <2>. QED  BY <1>3, <2>1, <2>2 DEF Revive
<1>4. ASSUME NEW c \in Clients, Rejoined(c) PROVE NoConnectLost'
  BY <1>4, NobodyMoves DEF Rejoined, AllAlike, Alike, InLine
<1>5. ASSUME Reconnect PROVE NoConnectLost'
  <2>1. /\ line # <<>> /\ line \in Seq(Clients) /\ Head(line) \in Clients /\ line' = Tail(line)
        /\ pool' = Connecting(pool, Head(line)) /\ running' = running \cup {Head(line)} /\ UNCHANGED request
    BY <1>1, <1>5 DEF Reconnect, RestOK
  <2>2. ASSUME NEW d \in Clients \ {Head(line)}, InLine(d) PROVE InLine(d)'
    <3>1. PICK i \in DOMAIN line : line[i] = d
      BY <2>2 DEF InLine
    <3>2. i # 1 /\ i - 1 \in DOMAIN line' /\ line'[i - 1] = d
      BY <2>1, <2>2, <3>1
    <3>. QED  BY <3>2 DEF InLine
  <2>. QED  BY <2>1, <2>2, ConnectBegins
<1>6. ASSUME LoginRetries PROVE NoConnectLost'
  BY <1>1, <1>6, ConnectBegins DEF LoginRetries, Exists, InLine
<1>7. ASSUME LoginAgain PROVE NoConnectLost'
  <2>1. PICK p \in Created(pool, Bot, 0) : pool' = Connecting(p, p.bot)
    BY <1>7 DEF LoginAgain
  <2>2. p.bot = NextFree(pool)
    BY <1>1, CreatedInv
  <2>. QED  BY <1>1, <1>7, <2>1, <2>2, ConnectsAtOnce DEF LoginAgain
<1>. QED  BY <1>2, <1>3, <1>4, <1>5, <1>6, <1>7 DEF Bridge

LEMMA OrdersConnect ==
  ASSUME SysInv, NoConnectLost, Orders
  PROVE  NoConnectLost'
<1>1. PoolInv(pool) /\ pool \in PoolType
  BY DEF SysInv, PoolInv
<1>2. UNCHANGED <<request, line, running>>
  BY DEF Orders, Kill, Quit, LookupNick
<1>3. ASSUME NEW c \in Clients, Kill(c) PROVE AllAlike(pool, pool')
  <2>. DEFINE p == Disconnect(pool, c, "killed", TRUE)
              y == [p.of[c] EXCEPT !.status = "KILLED"]
  <2>0. Exists(pool, c)
    BY <1>1, <1>3, MappedExist, PoolAssumption DEF Kill, Mapped, Owners
  <2>1. p \in PoolType /\ AllAlike(pool, p) /\ pool' = With(p, c, y)
    BY <1>1, <1>3, <2>0, DisconnectAlike, DisconnectInv DEF Kill, Reasons, PoolInv
  <2>. HIDE DEF p
  <2>2. p.of[c] \in ClientType
    BY <2>1, OfType
  <2>3. y \in ClientType /\ Alike(p.of[c], y)
    <3>1. y \in ClientType
      BY <2>2, FieldTypes DEF Statuses
    <3>2. y.owner = p.of[c].owner /\ y.inst = p.of[c].inst /\ y.resume = p.of[c].resume
      BY <2>2 DEF ClientType
    <3>. QED  BY <3>1, <3>2 DEF Alike
  <2>. HIDE DEF y
  <2>4. AllAlike(p, pool')
    BY <2>1, <2>3, WithAlike
  <2>. QED  BY <2>1, <2>4 DEF AllAlike, Alike
<1>4. ASSUME NEW c \in Clients, Quit(c) PROVE AllAlike(pool, pool')
  BY <1>1, <1>4, DisconnectAlike DEF Quit, Reasons
<1>5. ASSUME NEW n \in Nicks, LookupNick(n) PROVE AllAlike(pool, pool')
  <2>1. pool'.of = pool.of
    BY <1>1, <1>5 DEF LookupNick, PoolType
  <2>. QED  BY <2>1 DEF AllAlike, Alike
<1>6. AllAlike(pool, pool')
  BY <1>3, <1>4, <1>5 DEF Orders
<1>. QED  BY <1>2, <1>6, NobodyMoves DEF InLine

LEMMA ConnectStep == ASSUME SysInv, NoConnectLost, [Next]_vars PROVE NoConnectLost'
<1>1. ASSUME UNCHANGED vars PROVE NoConnectLost'
  BY <1>1, NobodyMoves DEF vars, AllAlike, Alike, InLine
<1>. QED
  BY <1>1, CallersConnect, NetworkConnects, BridgeConnects, OrdersConnect DEF Next, Callers, Network

LEMMA ConnectStarts == Init => NoConnectLost
<1>. SUFFICES ASSUME Init PROVE NoConnectLost
  OBVIOUS
<1>1. /\ PoolInv(NoClients) /\ Bot \in Owners /\ \A c \in Clients : NoClients.of[c] = NewClient(None, 0)
  <2>1. NoClients \in PoolType
    BY NewClientType DEF NoClients, PoolType
  <2>2. MapsSound(NoClients) /\ Blank(NoClients)
    BY DEF NoClients, MapsSound, Blank
  <2>. QED  BY <2>1, <2>2 DEF PoolInv, Owners, NoClients
<1>2. PICK p \in Created(NoClients, Bot, 0) : pool = Connecting(p, p.bot)
  BY DEF Init
<1>. DEFINE c == NextFree(NoClients)
<1>3. /\ p \in PoolType /\ p.bot = c /\ c \in Clients
      /\ \A d \in Clients \ {c} : Alike(NoClients.of[d], p.of[d])
  BY <1>1, CreatedInv, CreatedAlike DEF PoolInv
<1>. HIDE DEF c
<1>4. /\ pool.of[c].inst = "opening" /\ pool.of[c].resume = "waiting"
      /\ \A d \in Clients \ {c} : pool.of[d] = p.of[d]
  BY <1>2, <1>3, ConnectingAlike
<1>5. \A d \in Clients \ {c} : pool.of[d].owner = None /\ pool.of[d].inst = "none" /\ pool.of[d].resume = "idle"
  BY <1>1, <1>3, <1>4 DEF Alike, NewClient, Past
<1>6. running = {} /\ \A r \in Requests : request[r].pc # "connect"
  BY DEF Init
<1>. QED  BY <1>3, <1>4, <1>5, <1>6 DEF NoConnectLost

(***************************************************************************)
(* Nobody is left behind, whatever races, drops, refusals, kills, limits   *)
(* and failures happen, and with the Scheduler or without.  A request that *)
(* awaits connect() has a connect() that is under way or has just ended; a *)
(* connection that is being made has somebody awaiting it; a new client    *)
(* that is not connected yet is in the reconnect queue (ClientPool.ts,     *)
(* lines 720-739); and what takes a place in that queue's limit is a       *)
(* client whose connect() was called.                                      *)
(***************************************************************************)
THEOREM PoolNoConnectLost == Spec => []NoConnectLost
<1>1. SysInv /\ NoConnectLost /\ [Next]_vars => NoConnectLost'
  BY ConnectStep
<1>. QED  BY <1>1, ConnectStarts, AlwaysSysInv, PTL DEF Spec
------------------------------------------------------------------------------
(* As long as no connection is lost, nobody disconnects a client and no    *)
(* config fails to be stored, a user has one client: however many requests *)
(* race for it, and whatever connections are refused.                      *)

Calm == Faults \cap {"drop", "ban", "db"} = {} /\ Commands = {} /\ MaxClients = 0

\* A client that is not dead is the one in the map, and whoever has a
\* connection, or is about to go on in connect(), is not dead.
Gone(x) == x.status \in {"DEAD", "KILLED"}
Settled(x) ==
  /\ x.inst # "closing"
  /\ x.inst = "closed" => Gone(x)
  /\ x.inst \in {"opening", "open"} => ~Gone(x)
  /\ x.resume = "ready" => x.inst = "open"
CalmPool(p) == \A c \in Clients :
  /\ Settled(p.of[c])
  /\ p.of[c].owner \in Users /\ ~Gone(p.of[c]) => p.userIds[p.of[c].owner] = c

\* A client is replaced by one with the same owner that is not gone unless it
\* was, or is not a user's.
LEMMA WithCalm ==
  ASSUME NEW p, PoolInv(p), CalmPool(p), NEW c, Exists(p, c), NEW x \in ClientType, Settled(x),
         x.owner = p.of[c].owner, x.owner \in Users /\ ~Gone(x) => ~Gone(p.of[c])
  PROVE  CalmPool(With(p, c, x))
<1>1. /\ \A d \in Clients : With(p, c, x).of[d] = IF d = c THEN x ELSE p.of[d]
      /\ With(p, c, x).userIds = p.userIds
  BY WithInv DEF SameMaps
<1>. QED  BY <1>1 DEF CalmPool

LEMMA CreatedCalm ==
  ASSUME Calm, NEW p, PoolInv(p), CalmPool(p), NEW o \in Owners, NEW k \in {0, 1},
         \A c \in Clients : p.of[c].owner = o /\ o \in Users => Gone(p.of[c]),
         NEW n \in Created(p, o, k)
  PROVE  CalmPool(n) /\ n.of[NextFree(p)] = NewClient(o, k)
<1>. DEFINE e == Entered(p, o, k)
            c == NextFree(p)
<1>1. Free(p) # {} /\ n \in AfterLimit(e)
  BY DEF Created, Entered
<1>2. n = e
  BY <1>1 DEF AfterLimit, Victims, Calm
<1>3. /\ \A d \in Clients : e.of[d] = IF d = c THEN NewClient(o, k) ELSE p.of[d]
      /\ \A u \in Owners : e.userIds[u] = IF u = o THEN c ELSE p.userIds[u]
      /\ c \in Clients
  BY <1>1, EnteredInv DEF Exists
<1>4. Settled(NewClient(o, k)) /\ NewClient(o, k).owner = o
  BY DEF Settled, NewClient, Gone
<1>5. \A u \in Users : u \in Owners
  BY DEF Owners
<1>. HIDE DEF e, c
<1>6. CalmPool(e)
  BY <1>3, <1>4, <1>5 DEF CalmPool
<1>. QED  BY <1>2, <1>3, <1>6 DEF c

LEMMA ConnectingCalm ==
  ASSUME NEW p, PoolInv(p), CalmPool(p), NEW c, Exists(p, c),
         p.of[c].owner = Bot \/ ~Gone(p.of[c])
  PROVE  CalmPool(Connecting(p, c))
<1>. DEFINE x == p.of[c]
            y == [x EXCEPT !.status = "CONNECTING", !.inst = "opening", !.resume = "waiting"]
<1>1. x \in ClientType
  BY OfType DEF PoolInv, Exists
<1>2. y \in ClientType
  BY <1>1, FieldTypes DEF Statuses, Insts, Resumes
<1>3. /\ y.owner = x.owner /\ y.status = "CONNECTING" /\ y.inst = "opening"
      /\ y.resume = "waiting"
  BY <1>1 DEF ClientType
<1>4. Settled(y) /\ (y.owner \in Users /\ ~Gone(y) => ~Gone(p.of[c]))
  BY <1>3, PoolAssumption DEF Settled, Gone
<1>. HIDE DEF y
<1>. QED  BY <1>2, <1>3, <1>4, WithCalm DEF Connecting, y

\* connect() goes on for a client that is not gone.
LEMMA ConnectedCalm ==
  ASSUME NEW p, PoolInv(p), CalmPool(p), NEW c, Exists(p, c), p.of[c].inst = "open"
  PROVE  CalmPool(Connected(p, c))
<1>. DEFINE x == p.of[c]
            y == [x EXCEPT !.status = "CONNECTED", !.resume = "done", !.nick = x.ircNick]
            w == With(p, c, y)
<1>1. x \in ClientType /\ x.ircNick \in {0, 1}
  BY OfType DEF PoolInv, Exists
<1>2. y \in ClientType
  BY <1>1, FieldTypes DEF Statuses, Resumes
<1>3. y.owner = x.owner /\ y.status = "CONNECTED" /\ y.inst = "open" /\ y.resume = "done"
  BY <1>1 DEF ClientType
<1>4. Settled(y) /\ ~Gone(x)
  BY <1>3 DEF Settled, Gone, CalmPool, Exists
<1>. HIDE DEF y
<1>5. CalmPool(w) /\ PoolInv(w)
  BY <1>2, <1>3, <1>4, WithCalm, WithInv
<1>. HIDE DEF w
<1>6. Connected(p, c).of = w.of /\ Connected(p, c).userIds = w.userIds
  BY <1>5 DEF Connected, w, y, PoolInv, PoolType
<1>. QED  BY <1>5, <1>6 DEF CalmPool

LEMMA RegisteredCalm ==
  ASSUME SysInv, CalmPool(pool), NEW c, Exists(pool, c), pool.of[c].inst = "opening",
         NEW k \in Given(c)
  PROVE  CalmPool(Registered(c, k)) /\ Registered(c, k).of[c].inst = "open"
<1>. DEFINE x == pool.of[c]
            y == [x EXCEPT !.inst = "open", !.ircNick = k, !.resume = "ready"]
<1>1. x \in ClientType /\ k \in {0, 1} /\ PoolInv(pool) /\ c \in Clients
  BY OfType DEF SysInv, PoolInv, Exists, Given
<1>2. y \in ClientType
  BY <1>1, FieldTypes DEF Insts, Resumes
<1>3. y.owner = x.owner /\ y.status = x.status /\ y.inst = "open" /\ y.resume = "ready"
  BY <1>1 DEF ClientType
<1>4. Settled(y) /\ ~Gone(x)
  BY <1>1, <1>3 DEF Settled, Gone, CalmPool
<1>. HIDE DEF y
<1>5. CalmPool(With(pool, c, y)) /\ With(pool, c, y).of[c] = y
  BY <1>1, <1>2, <1>3, <1>4, WithCalm, WithInv
<1>. QED  BY <1>3, <1>5 DEF Registered, y

\* Nothing queues for reconnection.
CalmInv == CalmPool(pool) /\ reviving = {} /\ line = <<>>

LEMMA CalmInit == ASSUME Calm, Init PROVE CalmInv
<1>1. PoolInv(NoClients) /\ CalmPool(NoClients) /\ Bot \in Owners
  <2>1. NoClients \in PoolType
    BY NewClientType DEF NoClients, PoolType
  <2>2. MapsSound(NoClients) /\ Blank(NoClients)
    BY DEF NoClients, MapsSound, Blank
  <2>3. CalmPool(NoClients)
    BY PoolAssumption DEF NoClients, CalmPool, Settled, Gone, NewClient, Owners
  <2>. QED  BY <2>1, <2>2, <2>3 DEF PoolInv, Owners
<1>2. PICK p \in Created(NoClients, Bot, 0) : pool = Connecting(p, p.bot)
  BY DEF Init
<1>3. /\ PoolInv(p) /\ Exists(p, p.bot) /\ p.bot = NextFree(NoClients)
      /\ CalmPool(p) /\ p.of[p.bot] = NewClient(Bot, 0)
  BY <1>1, CreatedInv, CreatedCalm, PoolAssumption
<1>4. p.of[p.bot].owner = Bot
  BY <1>3 DEF NewClient
<1>5. CalmPool(pool)
  BY <1>2, <1>3, <1>4, ConnectingCalm
<1>. QED  BY <1>5 DEF CalmInv, Init

LEMMA CalmStep == ASSUME Calm, SysInv, CalmInv, [Next]_vars PROVE CalmInv'
<1>1. /\ PoolInv(pool) /\ RestOK /\ CalmPool(pool) /\ reviving = {} /\ line = <<>>
      /\ Bot \in Owners /\ Bot \notin Users /\ Users \subseteq Owners
  BY PoolAssumption DEF SysInv, CalmInv, Owners
<1>2. ASSUME UNCHANGED <<pool, reviving, line>> PROVE CalmInv'
  BY <1>2 DEF CalmInv, CalmPool
<1>3. ASSUME CalmPool(pool'), UNCHANGED <<reviving, line>> PROVE CalmInv'
  BY <1>1, <1>3 DEF CalmInv
<1>4. ASSUME NEW r \in Requests, Looked(r) PROVE CalmInv'
  <2>. DEFINE u == Asks[r]
  <2>1. u \in Users
    BY PoolAssumption
  <2>2. CASE RecheckedClient(r) # None
    BY <1>2, <1>4, <2>2 DEF Looked
  <2>3. CASE RecheckedClient(r) = None
    <3>1. PICK p \in Created(pool, u, 0) : pool' = Connecting(p, NextFree(pool))
      BY <1>4, <2>3 DEF Looked
    <3>2. pool.userIds[u] = None \/ Gone(pool.of[pool.userIds[u]])
      BY <2>3 DEF RecheckedClient, ByUserId, Dead, Gone
    <3>3. \A c \in Clients : pool.of[c].owner = u => Gone(pool.of[c])
      BY <1>1, <2>1, <3>2, PoolAssumption DEF CalmPool
    <3>4. /\ PoolInv(p) /\ Exists(p, NextFree(pool)) /\ CalmPool(p)
          /\ p.of[NextFree(pool)] = NewClient(u, 0)
      BY <1>1, <2>1, <3>3, CreatedInv, CreatedCalm
    <3>5. ~Gone(p.of[NextFree(pool)])
      BY <3>4 DEF NewClient, Gone
    <3>6. CalmPool(pool')
      BY <3>1, <3>4, <3>5, ConnectingCalm
    <3>. QED  BY <1>3, <1>4, <3>6 DEF Looked
  <2>. QED  BY <2>2, <2>3
<1>5. ASSUME NEW c \in Clients, Welcome(c) PROVE CalmInv'
  <2>1. Exists(pool, c) /\ pool.of[c].inst = "opening"
    BY <1>1, <1>5, NotBlank DEF Welcome
  <2>2. PICK k \in Given(c) : pool' = Registered(c, k) \/ pool' = Connected(Registered(c, k), c)
    BY <1>5 DEF Welcome
  <2>3. /\ PoolInv(Registered(c, k)) /\ Exists(Registered(c, k), c)
        /\ CalmPool(Registered(c, k)) /\ Registered(c, k).of[c].inst = "open"
    BY <1>1, <2>1, RegisteredInv, RegisteredCalm
  <2>4. CalmPool(pool')
    BY <2>2, <2>3, ConnectedCalm
  <2>. QED  BY <1>3, <1>5, <2>4 DEF Welcome
<1>6. ASSUME NEW c \in Clients, ConnectFails(c) PROVE CalmInv'
  <2>. DEFINE x == pool.of[c]
              y == [x EXCEPT !.inst = "closed", !.status = "DEAD", !.resume = "done"]
              p == With(pool, c, y)
  <2>1. Exists(pool, c) /\ x.inst = "opening" /\ x \in ClientType
    BY <1>1, <1>6, NotBlank, OfType DEF ConnectFails, PoolInv
  <2>2. pool' = p \/ pool' = Removed(p, c)
    BY <1>6 DEF ConnectFails
  <2>3. y \in ClientType
    BY <2>1, FieldTypes DEF Insts, Statuses, Resumes
  <2>4. y.owner = x.owner /\ y.status = "DEAD" /\ y.inst = "closed" /\ y.resume = "done"
    BY <2>1 DEF ClientType
  <2>5. Settled(y) /\ Gone(y) /\ ~Gone(x)
    BY <1>1, <2>1, <2>4 DEF Settled, Gone, CalmPool
  <2>. HIDE DEF y
  <2>6. /\ PoolInv(p) /\ Exists(p, c) /\ CalmPool(p)
        /\ \A d \in Clients : p.of[d] = IF d = c THEN y ELSE pool.of[d]
        /\ p.userIds = pool.userIds
    BY <1>1, <2>1, <2>3, <2>4, <2>5, WithInv, WithCalm DEF SameMaps
  <2>. HIDE DEF p
  <2>7. CASE pool' = p
    BY <1>3, <1>6, <2>6, <2>7 DEF ConnectFails
  <2>8. CASE pool' = Removed(p, c)
    <3>1. /\ pool'.of = p.of
          /\ \A o \in Owners : pool'.userIds[o] = p.userIds[o]
                               \/ (o = p.of[c].owner /\ pool'.userIds[o] = None)
      BY <2>6, <2>8, RemovedInv
    <3>2. \A d \in Clients : p.of[d].owner = x.owner /\ x.owner \in Users => Gone(p.of[d])
      <4>1. x.owner \in Users => pool.userIds[x.owner] = c
        BY <1>1, <2>5 DEF CalmPool
      <4>. QED  BY <1>1, <2>4, <2>5, <2>6, <4>1 DEF CalmPool
    <3>3. p.of[c].owner = x.owner
      BY <2>4, <2>6
    <3>4. CalmPool(pool')
      BY <1>1, <2>6, <3>1, <3>2, <3>3 DEF CalmPool
    <3>. QED  BY <1>3, <1>6, <3>4 DEF ConnectFails
  <2>. QED  BY <2>2, <2>7, <2>8
<1>7. ASSUME NEW c \in Clients, ConnectResumes(c) PROVE CalmInv'
  <2>1. Exists(pool, c) /\ pool.of[c].inst = "open"
    BY <1>1, <1>7, NotBlank DEF ConnectResumes, CalmPool, Settled
  <2>. QED  BY <1>1, <1>3, <1>7, <2>1, ConnectedCalm DEF ConnectResumes
<1>8. ASSUME LoginRetries PROVE CalmInv'
  <2>1. Exists(pool, pool.bot) /\ pool.of[pool.bot].owner = Bot
    BY <1>1, <1>8, MappedExist DEF LoginRetries, PoolInv, MapsSound
  <2>. QED  BY <1>1, <1>3, <1>8, <2>1, ConnectingCalm DEF LoginRetries
<1>9. ASSUME LoginAgain PROVE CalmInv'
  <2>1. PICK p \in Created(pool, Bot, 0) : pool' = Connecting(p, p.bot)
    BY <1>9 DEF LoginAgain
  <2>2. /\ PoolInv(p) /\ Exists(p, p.bot) /\ p.bot = NextFree(pool)
        /\ CalmPool(p) /\ p.of[p.bot] = NewClient(Bot, 0)
    BY <1>1, CreatedInv, CreatedCalm
  <2>3. p.of[p.bot].owner = Bot
    BY <2>2 DEF NewClient
  <2>4. CalmPool(pool')
    BY <2>1, <2>2, <2>3, ConnectingCalm
  <2>. QED  BY <1>3, <1>9, <2>4 DEF LoginAgain
<1>10. ASSUME NEW n \in Nicks, LookupNick(n) PROVE CalmInv'
  <2>1. pool'.of = pool.of /\ pool'.userIds = pool.userIds
    BY <1>1, <1>10 DEF LookupNick, PoolInv, PoolType
  <2>. QED  BY <1>1, <1>3, <1>10, <2>1 DEF LookupNick, CalmPool
<1>11. /\ \A c \in Clients : ~Drop(c) /\ ~End(c) /\ ~Revive(c) /\ ~Kill(c) /\ ~Quit(c)
       /\ ~Reconnect
       /\ \A r \in Requests : Stored(r) => UNCHANGED pool
  BY <1>1 DEF Calm, Drop, End, Revive, Kill, Quit, Reconnect, Stored, CalmPool, Settled
<1>12. ASSUME NEW r \in Requests, Ask(r) \/ LookupFails(r) \/ Stored(r) PROVE CalmInv'
  BY <1>2, <1>11, <1>12 DEF Ask, LookupFails, Stored
<1>13. ASSUME NEW c \in Clients, Rejoined(c) PROVE CalmInv'
  BY <1>2, <1>13 DEF Rejoined
<1>14. ASSUME UNCHANGED vars PROVE CalmInv'
  BY <1>2, <1>14 DEF vars
<1>. QED
  BY <1>4, <1>5, <1>6, <1>7, <1>8, <1>9, <1>10, <1>11, <1>12, <1>13, <1>14
  DEF Next, Callers, Network, Bridge, Orders

LEMMA AlwaysCalm == ASSUME Calm PROVE Spec => []CalmInv
BY CalmInit, CalmStep, AlwaysSysInv, PTL DEF Spec

LEMMA AtMostOne == ASSUME NEW S, NEW x, S \subseteq {x} PROVE Cardinality(S) <= 1
<1>1. S = {} \/ S = {x}
  OBVIOUS
<1>2. Cardinality({}) = 0 /\ Cardinality({x}) = 1
  BY FS_EmptySet, FS_Singleton
<1>. QED  BY <1>1, <1>2

(***************************************************************************)
(* "else we could spawn 2 clients for a single user if this function is    *)
(* called quickly" (ClientPool.ts, lines 380-382): as long as no           *)
(* connection is lost, it does not, whatever number of requests race.      *)
(***************************************************************************)
THEOREM PoolOneClientPerUser == ASSUME Calm PROVE Spec => []OneClientPerUser
<1>1. CalmInv => OneClientPerUser
  <2>. SUFFICES ASSUME CalmInv, NEW u \in Users PROVE Cardinality(LiveOf(u)) <= 1
    BY DEF OneClientPerUser
  <2>1. LiveOf(u) \subseteq {pool.userIds[u]}
    BY DEF CalmInv, CalmPool, LiveOf, Dead, Gone
  <2>. QED  BY <2>1, AtMostOne
<1>. QED  BY <1>1, AlwaysCalm, PTL

(***************************************************************************)
(* Nor does a user ever have two connections (ConnectionInstance.ts, lines *)
(* 166-168).                                                               *)
(***************************************************************************)
THEOREM PoolOneConnectionPerUser == ASSUME Calm PROVE Spec => []OneConnectionPerUser
<1>1. CalmInv => OneConnectionPerUser
  <2>. SUFFICES ASSUME CalmInv, NEW u \in Users
       PROVE  Cardinality({c \in Clients : pool.of[c].owner = u /\ Connection(c)}) <= 1
    BY DEF OneConnectionPerUser
  <2>1. {c \in Clients : pool.of[c].owner = u /\ Connection(c)} \subseteq {pool.userIds[u]}
    BY DEF CalmInv, CalmPool, Settled, Connection
  <2>. QED  BY <2>1, AtMostOne
<1>. QED  BY <1>1, AlwaysCalm, PTL

(***************************************************************************)
(* And a client that serves its user is the one the pool knows.            *)
(***************************************************************************)
THEOREM PoolNoOrphan == ASSUME Calm PROVE Spec => []NoOrphan
<1>1. CalmInv => NoOrphan
  BY DEF CalmInv, CalmPool, Settled, Serving, NoOrphan
<1>. QED  BY <1>1, AlwaysCalm, PTL
------------------------------------------------------------------------------
(* Connections are lost, refused, banned, killed and idle, and nicks change,*)
(* but a client is asked for once per user, configs are stored, and         *)
(* connect() goes on at once.                                             *)

Lone ==
  /\ ~Scheduled /\ MaxClients = 0 /\ "db" \notin Faults
  /\ \A r, s \in Requests : Asks[r] = Asks[s] => r = s

\* How far a client is and what state it is in go together.
Shape(x) ==
  /\ x.inst = "none" => x.status \in {"CREATED", "KILLED"}
  /\ x.inst = "opening" => x.status \in {"CONNECTING", "KILLED"}
  /\ x.inst = "open" => x.status = "CONNECTED" /\ x.nick = x.ircNick
  /\ x.inst = "closing" => x.status \in {"CONNECTED", "KILLED"}
  /\ x.inst = "closed" => x.status \in {"DEAD", "KILLED"}
  /\ x.resume # "ready"

\* Whoever may still have a connection is the client the pool knows.
Alive(x) == x.owner # None /\ x.inst # "closed"
Current(p, o) == IF o = Bot THEN p.bot ELSE p.userIds[o]
LonePool(p) == \A c \in Clients :
  /\ Shape(p.of[c])
  /\ Alive(p.of[c]) => Current(p, p.of[c].owner) = c

\* One thing at a time is under way for a user: his request, a client, or the
\* reconnection of one he lost.
Fresh == \A r \in Requests : request[r].pc \in {"idle", "lookup"} =>
           \A c \in Clients : pool.of[c].owner # Asks[r]
Heirs == \A c \in reviving :
  /\ pool.of[c].owner \in Users
  /\ \A d \in Clients : pool.of[d].owner = pool.of[c].owner =>
       ~Alive(pool.of[d]) /\ (d \in reviving => d = c)
Queued ==
  /\ \A i \in DOMAIN line : pool.of[line[i]].inst = "none"
  /\ \A i, j \in DOMAIN line : line[i] = line[j] => i = j
BotDown == login = "waiting" /\ pool.bot # None => pool.of[pool.bot].inst = "closed"

LoneInv == LonePool(pool) /\ Fresh /\ Heirs /\ Queued /\ BotDown
------------------------------------------------------------------------------
(* The methods of the pool.                                                *)

\* One client changes.
LEMMA LoneChange ==
  ASSUME NEW p, NEW n, LonePool(p), SameMaps(p, n), NEW c \in Clients,
         \A d \in Clients : d # c => n.of[d] = p.of[d],
         n.of[c].owner = p.of[c].owner, Shape(n.of[c]),
         n.of[c].inst # "closed" => Alive(p.of[c]) \/ Current(p, p.of[c].owner) = c
  PROVE  LonePool(n)
<1>1. \A o : Current(n, o) = Current(p, o)
  BY DEF Current, SameMaps
<1>2. ASSUME NEW d \in Clients
      PROVE  Shape(n.of[d]) /\ (Alive(n.of[d]) => Current(n, n.of[d].owner) = d)
  <2>1. CASE d = c
    BY <1>1, <2>1 DEF LonePool, Alive
  <2>2. CASE d # c
    BY <1>1, <1>2, <2>2 DEF LonePool
  <2>. QED  BY <2>1, <2>2
<1>. QED  BY <1>2 DEF LonePool

LEMMA WithOf ==
  ASSUME NEW p, PoolInv(p), NEW c, Exists(p, c), NEW x \in ClientType, x.owner = p.of[c].owner
  PROVE  /\ PoolInv(With(p, c, x)) /\ Keeps(p, With(p, c, x)) /\ Exists(With(p, c, x), c)
         /\ SameMaps(p, With(p, c, x)) /\ With(p, c, x).of[c] = x
         /\ \A d \in Clients : d # c => With(p, c, x).of[d] = p.of[d]
         /\ With(p, c, x).pending = p.pending
<1>1. c \in Clients /\ p \in PoolType
  BY DEF Exists, PoolInv
<1>2. /\ PoolInv(With(p, c, x)) /\ Keeps(p, With(p, c, x)) /\ Exists(With(p, c, x), c)
      /\ SameMaps(p, With(p, c, x))
      /\ \A d \in Clients : With(p, c, x).of[d] = IF d = c THEN x ELSE p.of[d]
  BY WithInv
<1>3. With(p, c, x).pending = p.pending
  BY <1>1, WithType
<1>. QED  BY <1>1, <1>2, <1>3

LEMMA RemovedLone ==
  ASSUME NEW p, PoolInv(p), LonePool(p), NEW c, Exists(p, c),
         \A d \in Clients : p.of[d].owner = p.of[c].owner => ~Alive(p.of[d])
  PROVE  LonePool(Removed(p, c)) /\ Removed(p, c).of = p.of
         /\ Removed(p, c).pending = p.pending /\ Removed(p, c).bot \in {p.bot, None}
<1>. DEFINE n == Removed(p, c)
<1>1. p \in PoolType /\ p.of[c].owner \in Owners
  BY OfType DEF PoolInv, Exists
<1>2. /\ n.of = p.of /\ n.pending = p.pending
      /\ n.userIds = [p.userIds EXCEPT ![p.of[c].owner] = IF p.of[c].owner = Bot THEN @ ELSE None]
      /\ n.bot = IF p.of[c].owner = Bot THEN None ELSE p.bot
  BY <1>1 DEF Removed, PoolType
<1>. HIDE DEF n
<1>3. ASSUME NEW o \in Owners, o # p.of[c].owner PROVE Current(n, o) = Current(p, o)
  BY <1>1, <1>2, <1>3 DEF Current, PoolType
<1>4. ASSUME NEW d \in Clients
      PROVE  Shape(n.of[d]) /\ (Alive(n.of[d]) => Current(n, n.of[d].owner) = d)
  <2>1. Shape(n.of[d])
    BY <1>2 DEF LonePool
  <2>2. ASSUME Alive(n.of[d]) PROVE Current(n, n.of[d].owner) = d
    <3>1. Alive(p.of[d]) /\ p.of[d].owner # p.of[c].owner
      BY <1>2, <2>2
    <3>2. p.of[d].owner \in Owners
      BY <1>1, <3>1, OfType DEF Alive
    <3>3. Current(p, p.of[d].owner) = d
      BY <3>1 DEF LonePool
    <3>. QED  BY <1>2, <1>3, <3>1, <3>2, <3>3
  <2>. QED  BY <2>1, <2>2
<1>5. LonePool(n)
  BY <1>4 DEF LonePool
<1>. QED  BY <1>2, <1>5 DEF n

\* The new client c is in the pool n, where p is as it was otherwise.
Entry(p, o, k, c, n) ==
  /\ LonePool(n) /\ c \in Clients /\ p.of[c].owner = None
  /\ n.of[c] = NewClient(o, k) /\ Current(n, o) = c
  /\ \A d \in Clients : d # c => n.of[d] = p.of[d]
  /\ n.bot = IF o = Bot THEN c ELSE p.bot
  /\ n.pending = [p.pending EXCEPT ![<<o, k>>] = c]

LEMMA CreatedLone ==
  ASSUME Lone, NEW p, PoolInv(p), LonePool(p), NEW o \in Owners, NEW k \in {0, 1},
         \A c \in Clients : p.of[c].owner = o => ~Alive(p.of[c]),
         NEW n \in Created(p, o, k)
  PROVE  Entry(p, o, k, NextFree(p), n)
<1>. DEFINE e == Entered(p, o, k)
            c == NextFree(p)
<1>1. Free(p) # {} /\ n \in AfterLimit(e)
  BY DEF Created, Entered
<1>2. n = e
  BY <1>1 DEF AfterLimit, Victims, Lone
<1>3. /\ \A d \in Clients : e.of[d] = IF d = c THEN NewClient(o, k) ELSE p.of[d]
      /\ \A u \in Owners : e.userIds[u] = IF u = o THEN c ELSE p.userIds[u]
      /\ c \in Clients /\ p.of[c].owner = None
      /\ e.bot = IF o = Bot THEN c ELSE p.bot
  BY <1>1, EnteredInv DEF Exists
<1>4. e.pending = [p.pending EXCEPT ![<<o, k>>] = c]
  <2>1. p \in PoolType /\ c \in Clients /\ NewClient(o, k) \in ClientType
    BY <1>3, NewClientType DEF PoolInv
  <2>2. /\ With(p, c, NewClient(o, k)) \in PoolType
        /\ With(p, c, NewClient(o, k)).pending = p.pending
    BY <2>1, WithType
  <2>. QED  BY <2>2 DEF Entered, PoolType
<1>5. Shape(NewClient(o, k)) /\ NewClient(o, k).owner = o
  BY DEF Shape, NewClient
<1>6. Current(e, o) = c
  BY <1>3 DEF Current
<1>. HIDE DEF e, c
<1>7. ASSUME NEW d \in Clients
      PROVE  Shape(e.of[d]) /\ (Alive(e.of[d]) => Current(e, e.of[d].owner) = d)
  <2>1. CASE d = c
    BY <1>3, <1>5, <1>6, <2>1
  <2>2. CASE d # c
    <3>1. e.of[d] = p.of[d] /\ Shape(p.of[d])
      BY <1>3, <2>2 DEF LonePool
    <3>2. ASSUME Alive(p.of[d]) PROVE Current(e, p.of[d].owner) = d
      <4>1. p.of[d].owner # o /\ p.of[d].owner \in Owners /\ Current(p, p.of[d].owner) = d
        BY <3>2, OfType DEF LonePool, Alive, PoolInv
      <4>. QED  BY <1>3, <4>1 DEF Current
    <3>. QED  BY <3>1, <3>2
  <2>. QED  BY <2>1, <2>2
<1>8. LonePool(e)
  BY <1>7 DEF LonePool
<1>9. Entry(p, o, k, c, e)
  BY <1>3, <1>4, <1>6, <1>8 DEF Entry
<1>. QED  BY <1>2, <1>9 DEF c

LEMMA ConnectingLone ==
  ASSUME NEW p, PoolInv(p), LonePool(p), NEW c, Exists(p, c), Current(p, p.of[c].owner) = c
  PROVE  /\ LonePool(Connecting(p, c)) /\ SameMaps(p, Connecting(p, c))
         /\ Connecting(p, c).of[c].owner = p.of[c].owner
         /\ Connecting(p, c).of[c].nick = p.of[c].nick
         /\ Connecting(p, c).of[c].inst = "opening"
         /\ Connecting(p, c).of[c].status = "CONNECTING"
         /\ \A d \in Clients : d # c => Connecting(p, c).of[d] = p.of[d]
         /\ Connecting(p, c).pending = p.pending
<1>. DEFINE x == p.of[c]
            y == [x EXCEPT !.status = "CONNECTING", !.inst = "opening", !.resume = "waiting"]
<1>1. x \in ClientType /\ c \in Clients
  BY OfType DEF PoolInv, Exists
<1>2. y \in ClientType
  BY <1>1, FieldTypes DEF Statuses, Insts, Resumes
<1>3. /\ y.owner = x.owner /\ y.status = "CONNECTING" /\ y.inst = "opening"
      /\ y.resume = "waiting" /\ y.nick = x.nick
  BY <1>1 DEF ClientType
<1>4. Shape(y)
  BY <1>3 DEF Shape
<1>5. Connecting(p, c) = With(p, c, y)
  BY DEF Connecting
<1>. HIDE DEF y
<1>6. /\ SameMaps(p, With(p, c, y)) /\ With(p, c, y).of[c] = y
      /\ \A d \in Clients : d # c => With(p, c, y).of[d] = p.of[d]
      /\ With(p, c, y).pending = p.pending
  BY <1>2, <1>3, WithOf
<1>7. LonePool(With(p, c, y))
  BY <1>1, <1>3, <1>4, <1>6, LoneChange
<1>. QED  BY <1>3, <1>5, <1>6, <1>7

\* What Disconnect does to the client c of p.
Disconnecting(p, c, n) ==
  /\ SameMaps(p, n) /\ n.pending = p.pending
  /\ \A d \in Clients : d # c => n.of[d] = p.of[d]
  /\ n.of[c].owner = p.of[c].owner /\ n.of[c].status = p.of[c].status
  /\ n.of[c].nick = p.of[c].nick /\ n.of[c].ircNick = p.of[c].ircNick
  /\ n.of[c].resume = p.of[c].resume
  /\ n.of[c].inst = IF p.of[c].status = "CONNECTED" /\ p.of[c].inst = "open"
                    THEN "closing" ELSE p.of[c].inst

LEMMA DisconnectOf ==
  ASSUME NEW p, PoolInv(p), NEW c, Exists(p, c), NEW e \in BOOLEAN, NEW why \in Reasons
  PROVE  Disconnecting(p, c, Disconnect(p, c, why, e))
<1>. DEFINE x == p.of[c]
            y == [x EXCEPT !.explicit = e]
            w == With(p, c, y)
            z == [w.of[c] EXCEPT !.inst = "closing", !.reason = why]
<1>1. x \in ClientType /\ c \in Clients
  BY OfType DEF PoolInv, Exists
<1>2. y \in ClientType
  BY <1>1, FieldTypes
<1>3. /\ y.owner = x.owner /\ y.status = x.status /\ y.nick = x.nick /\ y.ircNick = x.ircNick
      /\ y.resume = x.resume /\ y.inst = x.inst
  BY <1>1 DEF ClientType
<1>. HIDE DEF y
<1>4. /\ PoolInv(w) /\ Exists(w, c) /\ SameMaps(p, w) /\ w.of[c] = y /\ w.pending = p.pending
      /\ \A d \in Clients : d # c => w.of[d] = p.of[d]
  BY <1>2, <1>3, WithOf
<1>. HIDE DEF w
<1>5. z \in ClientType
  <2>1. [w.of[c] EXCEPT !.inst = "closing"] \in ClientType
    BY <1>2, <1>4, FieldTypes DEF Insts
  <2>2. [[w.of[c] EXCEPT !.inst = "closing"] EXCEPT !.reason = why] \in ClientType
    BY <2>1, FieldTypes
  <2>. QED  BY <2>2
<1>6. /\ z.owner = y.owner /\ z.status = y.status /\ z.nick = y.nick /\ z.ircNick = y.ircNick
      /\ z.resume = y.resume /\ z.inst = "closing"
  BY <1>2, <1>4 DEF ClientType
<1>7. Disconnect(p, c, why, e) =
        IF x.status = "CONNECTED" /\ y.inst = "open" THEN With(w, c, z) ELSE w
  BY <1>4 DEF Disconnect, CloseInst, w, y, z
<1>. HIDE DEF z
<1>8. /\ SameMaps(w, With(w, c, z)) /\ With(w, c, z).of[c] = z /\ With(w, c, z).pending = w.pending
      /\ \A d \in Clients : d # c => With(w, c, z).of[d] = w.of[d]
  BY <1>3, <1>4, <1>5, <1>6, WithOf
<1>9. CASE x.status = "CONNECTED" /\ y.inst = "open"
  BY <1>3, <1>4, <1>6, <1>7, <1>8, <1>9 DEF SameMaps, Disconnecting
<1>10. CASE ~(x.status = "CONNECTED" /\ y.inst = "open")
  BY <1>3, <1>4, <1>7, <1>10 DEF Disconnecting
<1>. QED  BY <1>9, <1>10

LEMMA DisconnectLone ==
  ASSUME NEW p, PoolInv(p), LonePool(p), NEW c, Exists(p, c), NEW e \in BOOLEAN, NEW why \in Reasons
  PROVE  LonePool(Disconnect(p, c, why, e))
<1>. DEFINE n == Disconnect(p, c, why, e)
            x == p.of[c]
<1>1. /\ SameMaps(p, n)
      /\ \A d \in Clients : d # c => n.of[d] = p.of[d]
      /\ n.of[c].owner = x.owner /\ n.of[c].status = x.status
      /\ n.of[c].nick = x.nick /\ n.of[c].ircNick = x.ircNick
      /\ n.of[c].resume = x.resume
      /\ n.of[c].inst = IF x.status = "CONNECTED" /\ x.inst = "open" THEN "closing" ELSE x.inst
  BY DisconnectOf DEF Disconnecting
<1>2. Shape(x) /\ c \in Clients
  BY DEF LonePool, Exists
<1>. HIDE DEF n
<1>3. Shape(n.of[c])
  BY <1>1, <1>2 DEF Shape
<1>4. n.of[c].inst # "closed" => Alive(x)
  BY <1>1 DEF Alive, Exists
<1>. QED  BY <1>1, <1>2, <1>3, <1>4, LoneChange DEF n

LEMMA CloseInstLone ==
  ASSUME NEW p, PoolInv(p), LonePool(p), NEW c, Exists(p, c), p.of[c].inst = "open",
         NEW why \in Reasons
  PROVE  LET n == CloseInst(p, c, why)
         IN  /\ LonePool(n) /\ SameMaps(p, n) /\ n.pending = p.pending
             /\ \A d \in Clients : d # c => n.of[d] = p.of[d]
             /\ n.of[c].owner = p.of[c].owner /\ n.of[c].inst = "closing"
<1>. DEFINE x == p.of[c]
            z == [x EXCEPT !.inst = "closing", !.reason = why]
<1>1. x \in ClientType /\ c \in Clients /\ Shape(x)
  BY OfType DEF PoolInv, Exists, LonePool
<1>2. z \in ClientType
  <2>1. [x EXCEPT !.inst = "closing"] \in ClientType
    BY <1>1, FieldTypes DEF Insts
  <2>2. [[x EXCEPT !.inst = "closing"] EXCEPT !.reason = why] \in ClientType
    BY <2>1, FieldTypes
  <2>. QED  BY <2>2
<1>3. z.owner = x.owner /\ z.status = x.status /\ z.resume = x.resume /\ z.inst = "closing"
  BY <1>1 DEF ClientType
<1>4. CloseInst(p, c, why) = With(p, c, z)
  BY DEF CloseInst
<1>. HIDE DEF z
<1>5. Shape(z) /\ Alive(x)
  BY <1>1, <1>3 DEF Shape, Alive, Exists
<1>6. /\ SameMaps(p, With(p, c, z)) /\ With(p, c, z).of[c] = z
      /\ \A d \in Clients : d # c => With(p, c, z).of[d] = p.of[d]
      /\ With(p, c, z).pending = p.pending
  BY <1>2, <1>3, WithOf
<1>7. LonePool(With(p, c, z))
  BY <1>1, <1>3, <1>5, <1>6, LoneChange
<1>. QED  BY <1>3, <1>4, <1>6, <1>7

\* The server accepts the client and connect() goes on: it is open under its new nick.
LEMMA WelcomedLone ==
  ASSUME SysInv, LonePool(pool), NEW c, Exists(pool, c), pool.of[c].inst = "opening",
         NEW k \in Given(c)
  PROVE  LET n == Connected(Registered(c, k), c)
             x == pool.of[c]
         IN  /\ LonePool(n) /\ SameMaps(pool, n)
             /\ \A d \in Clients : d # c => n.of[d] = pool.of[d]
             /\ n.of[c].owner = x.owner /\ n.of[c].inst = "open"
             /\ n.pending = [pool.pending EXCEPT ![<<x.owner, x.nick>>] = None]
<1>. DEFINE x == pool.of[c]
            y == [x EXCEPT !.inst = "open", !.ircNick = k, !.resume = "ready"]
            w == With(pool, c, y)
            z == [w.of[c] EXCEPT !.status = "CONNECTED", !.resume = "done", !.nick = w.of[c].ircNick]
            v == With(w, c, z)
            n == Connected(w, c)
<1>1. x \in ClientType /\ k \in {0, 1} /\ PoolInv(pool) /\ c \in Clients
  BY OfType DEF SysInv, PoolInv, Exists, Given
<1>2. y \in ClientType
  BY <1>1, FieldTypes DEF Insts, Resumes
<1>3. /\ y.owner = x.owner /\ y.inst = "open" /\ y.ircNick = k /\ y.nick = x.nick
      /\ x.nick \in {0, 1}
  BY <1>1 DEF ClientType
<1>4. w = Registered(c, k)
  BY DEF Registered
<1>. HIDE DEF y
<1>5. /\ PoolInv(w) /\ Exists(w, c) /\ SameMaps(pool, w) /\ w.of[c] = y /\ w.pending = pool.pending
      /\ \A d \in Clients : d # c => w.of[d] = pool.of[d]
  BY <1>1, <1>2, <1>3, WithOf
<1>. HIDE DEF w
<1>6. z \in ClientType
  <2>1. w.of[c] \in ClientType /\ w.of[c].ircNick \in {0, 1}
    BY <1>1, <1>2, <1>3, <1>5
  <2>. QED  BY <2>1, FieldTypes DEF Statuses, Resumes
<1>7. /\ z.owner = y.owner /\ z.status = "CONNECTED" /\ z.resume = "done" /\ z.nick = k
      /\ z.ircNick = k /\ z.inst = "open"
  BY <1>2, <1>3, <1>5 DEF ClientType
<1>8. n = [v EXCEPT !.pending[NickOf(w, c)] = None, !.nicks[<<w.of[c].owner, w.of[c].ircNick>>] = c]
  BY DEF Connected
<1>. HIDE DEF z
<1>9. /\ PoolInv(v) /\ SameMaps(w, v) /\ v.of[c] = z /\ v.pending = w.pending
      /\ \A d \in Clients : d # c => v.of[d] = w.of[d]
  BY <1>3, <1>5, <1>6, <1>7, WithOf
<1>. HIDE DEF v, n
<1>10. NickOf(w, c) = <<x.owner, x.nick>> /\ NickOf(w, c) \in Nicks
  BY <1>1, <1>3, <1>5 DEF NickOf, Nicks, Exists, ClientType
<1>11. /\ n.of = v.of /\ n.userIds = v.userIds /\ n.bot = v.bot
       /\ n.pending = [v.pending EXCEPT ![NickOf(w, c)] = None]
  BY <1>8, <1>9, <1>10 DEF PoolInv, PoolType
<1>12. SameMaps(pool, n)
  BY <1>5, <1>9, <1>11 DEF SameMaps
<1>13. Shape(z) /\ Alive(x)
  BY <1>7 DEF Shape, Alive, Exists
<1>14. \A d \in Clients : d # c => n.of[d] = pool.of[d]
  BY <1>5, <1>9, <1>11
<1>15. LonePool(n)
  BY <1>1, <1>3, <1>7, <1>9, <1>11, <1>12, <1>13, <1>14, LoneChange
<1>. QED  BY <1>3, <1>4, <1>5, <1>7, <1>9, <1>10, <1>11, <1>12, <1>14, <1>15 DEF n

\* A connection that ended leaves its owner without a live client.
LEMMA LostLone ==
  ASSUME SysInv, LonePool(pool), NEW c, Exists(pool, c), pool.of[c].inst = "closing"
  PROVE  LET n == Lost(c)
         IN  /\ LonePool(n) /\ PoolInv(n) /\ n.of[c].inst = "closed"
             /\ n.of[c].owner = pool.of[c].owner
             /\ \A d \in Clients : d # c => n.of[d] = pool.of[d]
             /\ \A d \in Clients : n.of[d].owner = pool.of[c].owner => ~Alive(n.of[d])
             /\ n.pending = [pool.pending EXCEPT ![NickOf(pool, c)] = None]
             /\ n.bot \in {pool.bot, None}
<1>1. PoolInv(pool) /\ pool.of[c] \in ClientType /\ NickOf(pool, c) \in Nicks /\ c \in Clients
  BY OfType DEF SysInv, PoolInv, Exists, NickOf, Nicks
<1>. DEFINE x == pool.of[c]
            y == [x EXCEPT !.inst = "closed", !.explicit = @ \/ x.reason = "banned",
                           !.status = IF @ = "KILLED" THEN @ ELSE "DEAD"]
            w == With(pool, c, y)
            v == Removed(w, c)
            n == [v EXCEPT !.pending[NickOf(pool, c)] = None]
<1>2. /\ y \in ClientType /\ y.owner = x.owner /\ y.inst = "closed"
      /\ y.status \in {"DEAD", "KILLED"} /\ y.resume = x.resume
  <2>1. (x.explicit \/ x.reason = "banned") \in BOOLEAN
    OBVIOUS
  <2>2. (IF x.status = "KILLED" THEN x.status ELSE "DEAD") \in Statuses /\ "closed" \in Insts
    BY <1>1 DEF Statuses, Insts
  <2>. QED  BY <1>1, <2>1, <2>2 DEF ClientType
<1>. HIDE DEF y
<1>3. /\ PoolInv(w) /\ SameMaps(pool, w) /\ Exists(w, c) /\ w.of[c] = y
      /\ \A d \in Clients : d # c => w.of[d] = pool.of[d]
      /\ w.pending = pool.pending
  BY <1>1, <1>2, WithOf
<1>. HIDE DEF w
<1>4. Shape(y)
  BY <1>1, <1>2 DEF Shape, LonePool
<1>5. LonePool(w)
  BY <1>1, <1>2, <1>3, <1>4, LoneChange
<1>6. \A d \in Clients : w.of[d].owner = x.owner => ~Alive(w.of[d])
  <2>1. Alive(x)
    BY DEF Alive, Exists
  <2>2. \A d \in Clients : pool.of[d].owner = x.owner /\ Alive(pool.of[d]) => d = c
    BY <1>1, <2>1 DEF LonePool
  <2>. QED  BY <1>2, <1>3, <2>2 DEF Alive
<1>7. /\ LonePool(v) /\ v.of = w.of /\ v.pending = w.pending /\ PoolInv(v)
      /\ v.bot \in {w.bot, None}
  BY <1>2, <1>3, <1>5, <1>6, RemovedLone, RemovedInv
<1>. HIDE DEF v
<1>8. /\ n \in PoolType /\ n.of = v.of /\ n.userIds = v.userIds /\ n.bot = v.bot
      /\ n.pending = [v.pending EXCEPT ![NickOf(pool, c)] = None]
  BY <1>1, <1>7 DEF PoolType, PoolInv
<1>. HIDE DEF n
<1>9. LonePool(n) /\ PoolInv(n)
  BY <1>7, <1>8 DEF PoolInv, MapsSound, Blank, LonePool, Current
<1>10. n = Lost(c)
  BY DEF Lost, n, v, w, y
<1>. QED  BY <1>2, <1>3, <1>6, <1>7, <1>8, <1>9, <1>10 DEF SameMaps
------------------------------------------------------------------------------
(* One thing at a time stays under way for each user.                      *)

\* One client changes, or none.
LEMMA OneChanges ==
  ASSUME LoneInv, NEW c \in Clients,
         \A d \in Clients : d # c => pool'.of[d] = pool.of[d],
         pool'.of[c].owner = pool.of[c].owner,
         pool.of[c].owner \in Users /\ ~Alive(pool.of[c]) => ~Alive(pool'.of[c]),
         pool.of[c].inst = "none" => pool'.of[c].inst = "none",
         \A r \in Requests : request'[r].pc \in {"idle", "lookup"} => request[r].pc \in {"idle", "lookup"},
         reviving' \subseteq reviving, line' = line, SysInv
  PROVE  Fresh' /\ Heirs' /\ Queued'
<1>1. \A d \in Clients : pool'.of[d].owner = pool.of[d].owner
  OBVIOUS
<1>2. Fresh'
  BY <1>1 DEF LoneInv, Fresh
<1>3. Heirs'
  <2>1. reviving \subseteq Clients
    BY DEF SysInv, RestOK
  <2>2. \A d \in Clients : pool.of[d].owner \in Users /\ ~Alive(pool.of[d]) => ~Alive(pool'.of[d])
    OBVIOUS
  <2>. QED  BY <1>1, <2>1, <2>2 DEF LoneInv, Heirs
<1>4. Queued'
  <2>1. \A i \in DOMAIN line : line[i] \in Clients
    BY DEF SysInv, RestOK
  <2>. QED  BY <2>1 DEF LoneInv, Queued
<1>. QED  BY <1>2, <1>3, <1>4

\* A client is added, for a user whose turn it is or for the bot.
LEMMA NewcomerStep ==
  ASSUME LoneInv, SysInv, NEW n \in Clients, pool.of[n].owner = None,
         NEW o \in Owners, pool'.of[n].owner = o,
         \A d \in Clients : d # n =>
           /\ pool'.of[d].owner = pool.of[d].owner
           /\ ~Alive(pool.of[d]) => ~Alive(pool'.of[d])
           /\ pool.of[d].inst = "none" => pool'.of[d].inst = "none",
         \A r \in Requests : request'[r].pc \in {"idle", "lookup"} =>
           request[r].pc \in {"idle", "lookup"} /\ Asks[r] # o,
         reviving' \subseteq reviving, \A c \in reviving' : pool.of[c].owner # o,
         line' = line \/ (line' = Append(line, n) /\ pool'.of[n].inst = "none")
  PROVE  Fresh' /\ Heirs' /\ Queued'
<1>1. reviving \subseteq Clients /\ \A c \in reviving : c # n
  BY DEF SysInv, RestOK, RefsSound, Exists
<1>2. Fresh'
  BY DEF LoneInv, Fresh
<1>3. Heirs'
  BY <1>1 DEF LoneInv, Heirs
<1>4. line \in Seq(Clients) /\ \A i \in DOMAIN line : line[i] \in Clients /\ line[i] # n
  BY DEF SysInv, RestOK, RefsSound, Exists
<1>5. Queued'
  <2>1. CASE line' = line
    BY <1>4, <2>1 DEF LoneInv, Queued
  <2>2. CASE line' = Append(line, n) /\ pool'.of[n].inst = "none"
    <3>1. /\ DOMAIN line' = 1..(Len(line) + 1) /\ DOMAIN line = 1..Len(line) /\ Len(line) \in Nat
          /\ line'[Len(line) + 1] = n /\ \A i \in 1..Len(line) : line'[i] = line[i]
      BY <1>4, <2>2
    <3>2. \A i \in DOMAIN line' : i = Len(line) + 1 \/ i \in DOMAIN line
      BY <3>1
    <3>3. \A i \in DOMAIN line' : pool'.of[line'[i]].inst = "none"
      BY <1>4, <2>2, <3>1, <3>2 DEF LoneInv, Queued
    <3>4. \A i, j \in DOMAIN line' : line'[i] = line'[j] => i = j
      BY <1>4, <3>1, <3>2 DEF LoneInv, Queued
    <3>. QED  BY <3>3, <3>4 DEF Queued
  <2>. QED  BY <2>1, <2>2
<1>. QED  BY <1>2, <1>3, <1>5
------------------------------------------------------------------------------
LEMMA LoneInit == ASSUME Lone, Init PROVE LoneInv
<1>1. PoolInv(NoClients) /\ LonePool(NoClients) /\ Bot \in Owners
  <2>1. NoClients \in PoolType
    BY NewClientType DEF NoClients, PoolType
  <2>2. MapsSound(NoClients) /\ Blank(NoClients)
    BY DEF NoClients, MapsSound, Blank
  <2>3. \A c \in Clients : NoClients.of[c] = NewClient(None, 0)
    BY DEF NoClients
  <2>4. LonePool(NoClients)
    BY <2>3 DEF LonePool, Shape, Alive, NewClient
  <2>. QED  BY <2>1, <2>2, <2>4 DEF PoolInv, Owners
<1>2. PICK p \in Created(NoClients, Bot, 0) : pool = Connecting(p, p.bot)
  BY DEF Init
<1>3. \A c \in Clients : NoClients.of[c].owner = None
  BY DEF NoClients, NewClient
<1>4. /\ PoolInv(p) /\ Exists(p, p.bot) /\ LonePool(p) /\ p.bot = NextFree(NoClients)
      /\ p.of[p.bot] = NewClient(Bot, 0) /\ Current(p, Bot) = p.bot
      /\ \A d \in Clients : d # p.bot => p.of[d] = NoClients.of[d]
  <2>1. \A c \in Clients : NoClients.of[c].owner = Bot => ~Alive(NoClients.of[c])
    BY <1>3 DEF Alive
  <2>2. PoolInv(p) /\ Exists(p, NextFree(NoClients))
    BY <1>1, CreatedInv
  <2>3. /\ LonePool(p) /\ p.bot = NextFree(NoClients)
        /\ p.of[NextFree(NoClients)] = NewClient(Bot, 0) /\ Current(p, Bot) = NextFree(NoClients)
        /\ \A d \in Clients : d # NextFree(NoClients) => p.of[d] = NoClients.of[d]
    BY <1>1, <2>1, CreatedLone DEF Entry
  <2>. QED  BY <2>2, <2>3
<1>5. p.of[p.bot].owner = Bot
  BY <1>4 DEF NewClient
<1>6. /\ LonePool(pool) /\ pool.of[p.bot].owner = Bot
      /\ \A d \in Clients : d # p.bot => pool.of[d] = p.of[d]
  BY <1>2, <1>4, <1>5, ConnectingLone
<1>7. \A d \in Clients : pool.of[d].owner \in {Bot, None}
  <2>1. ASSUME NEW d \in Clients, d # p.bot PROVE pool.of[d].owner = None
    BY <1>3, <1>4, <1>6, <2>1
  <2>. QED  BY <1>6, <2>1
<1>8. Fresh
  BY <1>7, PoolAssumption DEF Fresh, Owners
<1>9. Heirs /\ Queued /\ BotDown
  BY DEF Init, Heirs, Queued, BotDown
<1>. QED  BY <1>6, <1>8, <1>9 DEF LoneInv

\* The pool's clients and maps stay as they are.
LEMMA PoolStays ==
  ASSUME LoneInv, SysInv, pool'.of = pool.of, SameMaps(pool, pool'),
         \A r \in Requests : request'[r].pc \in {"idle", "lookup"} => request[r].pc \in {"idle", "lookup"},
         reviving' = reviving, line' = line, login' = login
  PROVE  LoneInv'
<1>1. LonePool(pool')
  BY DEF LoneInv, LonePool, Current, SameMaps
<1>2. 1 \in Clients
  BY PoolAssumption DEF Clients
<1>3. Fresh' /\ Heirs' /\ Queued'
  BY <1>2, OneChanges
<1>4. BotDown'
  BY DEF LoneInv, BotDown, SameMaps
<1>. QED  BY <1>1, <1>3, <1>4 DEF LoneInv

\* One client changes, and the pool stays as it should be.
LEMMA PoolChanges ==
  ASSUME LoneInv, SysInv, LonePool(pool'), NEW c \in Clients,
         \A d \in Clients : d # c => pool'.of[d] = pool.of[d],
         pool'.of[c].owner = pool.of[c].owner,
         ~Alive(pool.of[c]) => ~Alive(pool'.of[c]),
         pool.of[c].inst = "none" => pool'.of[c].inst = "none",
         \A r \in Requests : request'[r].pc \in {"idle", "lookup"} => request[r].pc \in {"idle", "lookup"},
         reviving' \subseteq reviving, line' = line, Exists(pool, c),
         pool'.bot \in {pool.bot, None},
         login' = "waiting" => login = "waiting" \/ (c = pool.bot /\ ~Alive(pool'.of[c]))
  PROVE  LoneInv'
<1>1. Fresh' /\ Heirs' /\ Queued'
  BY OneChanges
<1>2. pool.bot # None => Exists(pool, pool.bot)
  BY MappedExist DEF SysInv
<1>3. \A d \in Clients : pool.of[d].inst = "closed" => pool'.of[d].inst = "closed"
  BY DEF Alive, Exists
<1>4. BotDown'
  BY <1>2, <1>3 DEF LoneInv, BotDown, Alive, Exists
<1>. QED  BY <1>1, <1>4 DEF LoneInv

LEMMA LookedLone ==
  ASSUME Lone, SysInv, LoneInv, NEW r \in Requests, Looked(r)
  PROVE  LoneInv'
<1>. DEFINE u == Asks[r]
            n == NextFree(pool)
<1>1. /\ u \in Users /\ u \in Owners /\ u # Bot /\ u # None /\ request[r].pc = "lookup" /\ PoolInv(pool)
      /\ UNCHANGED <<reviving, line, running, login>>
  BY PoolAssumption DEF Owners, Looked, SysInv
<1>2. request \in [Requests -> [pc : {"idle", "lookup", "connect", "store", "done", "failed"},
                                cli : Clients \cup {None}]]
  BY DEF SysInv, RestOK
<1>3. CASE RecheckedClient(r) # None
  <2>1. UNCHANGED pool /\ \A s \in Requests : request'[s].pc \in {"idle", "lookup"} => request'[s] = request[s]
    BY <1>2, <1>3 DEF Looked
  <2>. QED  BY <1>1, <2>1, PoolStays DEF SameMaps
<1>4. CASE RecheckedClient(r) = None
  <2>1. PICK p \in Created(pool, u, 0) :
          /\ pool' = Connecting(p, n)
          /\ request' = [request EXCEPT ![r] = [pc |-> "connect", cli |-> n]]
    BY <1>4 DEF Looked
  <2>2. \A c \in Clients : pool.of[c].owner # u
    BY <1>1 DEF LoneInv, Fresh
  <2>3. /\ PoolInv(p) /\ LonePool(p) /\ n \in Clients /\ pool.of[n].owner = None /\ Exists(p, n)
        /\ p.of[n] = NewClient(u, 0) /\ Current(p, u) = n /\ p.bot = pool.bot
        /\ \A d \in Clients : d # n => p.of[d] = pool.of[d]
    <3>1. LonePool(pool) /\ \A c \in Clients : pool.of[c].owner = u => ~Alive(pool.of[c])
      BY <2>2 DEF LoneInv
    <3>2. PoolInv(p) /\ Exists(p, n)
      BY <1>1, CreatedInv
    <3>3. /\ LonePool(p) /\ n \in Clients /\ pool.of[n].owner = None
          /\ p.of[n] = NewClient(u, 0) /\ Current(p, u) = n
          /\ \A d \in Clients : d # n => p.of[d] = pool.of[d]
          /\ p.bot = IF u = Bot THEN n ELSE pool.bot
      <4>1. u \in Owners /\ PoolInv(pool) /\ 0 \in {0, 1}
        BY <1>1
      <4>2. Entry(pool, u, 0, n, p)
        BY <3>1, <4>1, CreatedLone
      <4>. QED  BY <4>2 DEF Entry
    <3>. QED  BY <1>1, <3>2, <3>3
  <2>. HIDE DEF n
  <2>4. p.of[n].owner = u
    BY <2>3 DEF NewClient
  <2>5. /\ LonePool(pool') /\ pool'.of[n].owner = u /\ pool'.bot = pool.bot
        /\ \A d \in Clients : d # n => pool'.of[d] = pool.of[d]
    BY <2>1, <2>3, <2>4, ConnectingLone DEF SameMaps
  <2>6. \A s \in Requests : request'[s].pc \in {"idle", "lookup"} =>
          request[s].pc \in {"idle", "lookup"} /\ Asks[s] # u
    BY <1>2, <2>1 DEF Lone
  <2>7. \A c \in reviving : pool.of[c].owner # u
    BY <2>2 DEF SysInv, RestOK
  <2>8. Fresh' /\ Heirs' /\ Queued'
    BY <1>1, <2>3, <2>5, <2>6, <2>7, NewcomerStep
  <2>9. BotDown'
    <3>1. pool.bot # None => Exists(pool, pool.bot)
      BY MappedExist DEF SysInv
    <3>. QED  BY <1>1, <2>3, <2>5, <3>1 DEF LoneInv, BotDown, Exists
  <2>. QED  BY <2>5, <2>8, <2>9 DEF LoneInv
<1>. QED  BY <1>3, <1>4

LEMMA WelcomeLone ==
  ASSUME Lone, SysInv, LoneInv, NEW c \in Clients, Welcome(c)
  PROVE  LoneInv'
<1>1. Exists(pool, c) /\ pool.of[c].inst = "opening" /\ UNCHANGED <<reviving, line, running>>
  BY NotBlank DEF Welcome, SysInv
<1>2. PICK k \in Given(c) : pool' = Connected(Registered(c, k), c) /\ Succeeds(c)
  BY DEF Welcome, Lone
<1>3. /\ LonePool(pool') /\ SameMaps(pool, pool')
      /\ \A d \in Clients : d # c => pool'.of[d] = pool.of[d]
      /\ pool'.of[c].owner = pool.of[c].owner
  BY <1>1, <1>2, WelcomedLone DEF LoneInv
<1>4. \A r \in Requests : request'[r].pc \in {"idle", "lookup"} => request[r].pc \in {"idle", "lookup"}
  BY <1>2 DEF Succeeds
<1>5. login' = "waiting" => login = "waiting"
  BY <1>2 DEF Succeeds
<1>. QED  BY <1>1, <1>3, <1>4, <1>5, PoolChanges DEF SameMaps, Alive, Exists

LEMMA ConnectFailsLone ==
  ASSUME SysInv, LoneInv, NEW c \in Clients, ConnectFails(c)
  PROVE  LoneInv'
<1>. DEFINE x == pool.of[c]
            y == [x EXCEPT !.inst = "closed", !.status = "DEAD", !.resume = "done"]
            p == With(pool, c, y)
<1>1. Exists(pool, c) /\ x.inst = "opening" /\ x \in ClientType /\ PoolInv(pool)
  BY NotBlank, OfType DEF ConnectFails, SysInv, PoolInv
<1>2. pool' = p \/ pool' = Removed(p, c)
  BY DEF ConnectFails
<1>3. y \in ClientType
  BY <1>1, FieldTypes DEF Insts, Statuses, Resumes
<1>4. y.owner = x.owner /\ y.status = "DEAD" /\ y.inst = "closed" /\ y.resume = "done"
  BY <1>1 DEF ClientType
<1>. HIDE DEF y
<1>5. /\ PoolInv(p) /\ SameMaps(pool, p) /\ Exists(p, c) /\ p.of[c] = y
      /\ \A d \in Clients : d # c => p.of[d] = pool.of[d]
  BY <1>1, <1>3, <1>4, WithOf
<1>6. LonePool(p)
  <2>1. Shape(y)
    BY <1>4 DEF Shape
  <2>. QED  BY <1>4, <1>5, <2>1, LoneChange DEF LoneInv
<1>7. \A d \in Clients : p.of[d].owner = p.of[c].owner => ~Alive(p.of[d])
  <2>1. Alive(x)
    BY <1>1 DEF Alive, Exists
  <2>2. \A d \in Clients : pool.of[d].owner = x.owner /\ Alive(pool.of[d]) => d = c
    BY <2>1 DEF LoneInv, LonePool
  <2>. QED  BY <1>4, <1>5, <2>2 DEF Alive
<1>. HIDE DEF p
<1>8. /\ LonePool(pool') /\ pool'.bot \in {pool.bot, None}
      /\ pool'.of[c] = y /\ \A d \in Clients : d # c => pool'.of[d] = pool.of[d]
  BY <1>2, <1>5, <1>6, <1>7, RemovedLone DEF SameMaps
<1>9. \A r \in Requests : request'[r].pc \in {"idle", "lookup"} => request[r].pc \in {"idle", "lookup"}
  BY DEF ConnectFails
<1>10. /\ login' = "waiting" => login = "waiting" \/ c = pool.bot
       /\ reviving' = reviving /\ line' = line
  BY DEF ConnectFails
<1>. QED  BY <1>1, <1>4, <1>8, <1>9, <1>10, PoolChanges DEF Alive

LEMMA DropLone ==
  ASSUME SysInv, LoneInv, NEW c \in Clients, Drop(c)
  PROVE  LoneInv'
<1>1. Exists(pool, c) /\ pool.of[c].inst = "open" /\ PoolInv(pool)
      /\ UNCHANGED <<request, reviving, line, running, login>>
  BY NotBlank DEF Drop, SysInv
<1>2. PICK why \in Reasons : pool' = CloseInst(pool, c, why)
  BY DEF Drop, Reasons
<1>3. /\ LonePool(pool') /\ SameMaps(pool, pool')
      /\ \A d \in Clients : d # c => pool'.of[d] = pool.of[d]
      /\ pool'.of[c].owner = pool.of[c].owner
  BY <1>1, <1>2, CloseInstLone DEF LoneInv
<1>. QED  BY <1>1, <1>3, PoolChanges DEF SameMaps, Alive, Exists

LEMMA EndLone ==
  ASSUME Lone, SysInv, LoneInv, NEW c \in Clients, End(c)
  PROVE  LoneInv'
<1>. DEFINE l == Lost(c)
            o == pool.of[c].owner
<1>1. /\ Exists(pool, c) /\ pool.of[c].inst = "closing" /\ pool.of[c] \in ClientType
      /\ UNCHANGED <<request, running, login>> /\ reviving \subseteq Clients
      /\ o \in Owners
  BY NotBlank, OfType DEF End, SysInv, PoolInv, RestOK, Exists
<1>2. /\ LonePool(l) /\ PoolInv(l) /\ l.of[c].inst = "closed" /\ l.of[c].owner = o
      /\ \A d \in Clients : d # c => l.of[d] = pool.of[d]
      /\ \A d \in Clients : l.of[d].owner = o => ~Alive(l.of[d])
      /\ l.bot \in {pool.bot, None}
  BY <1>1, LostLone DEF LoneInv
<1>3. \/ pool' = l /\ UNCHANGED <<reviving, line>>
      \/ o # Bot /\ pool' = l /\ reviving' = reviving \cup {c} /\ UNCHANGED line
      \/ /\ o = Bot /\ pool' \in Created(l, Bot, pool.of[c].nick)
         /\ line' = Append(line, NextFree(l)) /\ UNCHANGED reviving
  BY DEF End
<1>. HIDE DEF l
<1>4. Alive(pool.of[c])
  BY <1>1 DEF Alive, Exists
<1>5. CASE pool' = l /\ UNCHANGED <<reviving, line>>
  BY <1>1, <1>2, <1>4, <1>5, PoolChanges
<1>6. CASE o # Bot /\ pool' = l /\ reviving' = reviving \cup {c} /\ UNCHANGED line
  <2>1. Fresh' /\ Queued'
    <3>1. \A d \in Clients : pool'.of[d].owner = pool.of[d].owner
      BY <1>2, <1>6
    <3>2. \A i \in DOMAIN line : line[i] \in Clients
      BY DEF SysInv, RestOK
    <3>3. Fresh'
      BY <1>1, <3>1 DEF LoneInv, Fresh
    <3>4. Queued'
      BY <1>1, <1>2, <1>6, <3>2 DEF LoneInv, Queued
    <3>. QED  BY <3>3, <3>4
  <2>2. Heirs'
    <3>1. \A d \in Clients : pool'.of[d].owner = pool.of[d].owner
                             /\ (~Alive(pool.of[d]) => ~Alive(pool'.of[d]))
      BY <1>2, <1>4, <1>6
    <3>2. \A d \in reviving : pool.of[d].owner # o
      BY <1>4 DEF LoneInv, Heirs
    <3>3. o \in Users
      BY <1>1, <1>6 DEF Owners
    <3>4. ASSUME NEW e \in reviving
          PROVE  /\ pool'.of[e].owner \in Users
                 /\ \A d \in Clients : pool'.of[d].owner = pool'.of[e].owner =>
                      ~Alive(pool'.of[d]) /\ (d \in reviving' => d = e)
      BY <1>1, <1>6, <3>1, <3>2 DEF LoneInv, Heirs
    <3>5. \A d \in Clients : pool'.of[d].owner = o => ~Alive(pool'.of[d]) /\ (d \in reviving' => d = c)
      BY <1>2, <1>6, <3>1, <3>2
    <3>6. pool'.of[c].owner = o
      BY <1>2, <1>6
    <3>. QED  BY <1>6, <3>3, <3>4, <3>5, <3>6 DEF Heirs
  <2>3. BotDown'
    <3>1. pool.bot # None => Exists(pool, pool.bot)
      BY MappedExist DEF SysInv
    <3>. QED  BY <1>1, <1>2, <1>6, <3>1 DEF LoneInv, BotDown, Exists
  <2>. QED  BY <1>2, <1>6, <2>1, <2>2, <2>3 DEF LoneInv
<1>7. CASE /\ o = Bot /\ pool' \in Created(l, Bot, pool.of[c].nick)
           /\ line' = Append(line, NextFree(l)) /\ UNCHANGED reviving
  <2>. DEFINE n == NextFree(l)
  <2>1. /\ LonePool(pool') /\ n \in Clients /\ l.of[n].owner = None
        /\ pool'.of[n] = NewClient(Bot, pool.of[c].nick)
        /\ \A d \in Clients : d # n => pool'.of[d] = l.of[d]
    <3>1. pool.of[c].nick \in {0, 1}
      BY <1>1 DEF ClientType
    <3>2. \A d \in Clients : l.of[d].owner = Bot => ~Alive(l.of[d])
      BY <1>2, <1>7
    <3>3. LonePool(l) /\ PoolInv(l) /\ Bot \in Owners
      BY <1>2 DEF Owners
    <3>4. Entry(l, Bot, pool.of[c].nick, n, pool')
      BY <1>7, <3>1, <3>2, <3>3, CreatedLone
    <3>. QED  BY <3>4 DEF Entry
  <2>. HIDE DEF n
  <2>2. pool'.of[n].owner = Bot /\ pool'.of[n].inst = "none" /\ pool.of[n].owner = None
    <3>1. n # c
      BY <1>1, <1>2, <2>1 DEF Exists
    <3>. QED  BY <1>2, <2>1, <3>1 DEF NewClient
  <2>3. \A d \in Clients : d # n =>
           /\ pool'.of[d].owner = pool.of[d].owner
           /\ ~Alive(pool.of[d]) => ~Alive(pool'.of[d])
           /\ pool.of[d].inst = "none" => pool'.of[d].inst = "none"
    BY <1>1, <1>2, <1>4, <2>1
  <2>4. \A d \in reviving : pool.of[d].owner # Bot
    BY PoolAssumption DEF LoneInv, Heirs
  <2>5. \A r \in Requests : Asks[r] # Bot
    BY PoolAssumption
  <2>6. Fresh' /\ Heirs' /\ Queued'
    BY <1>1, <1>7, <2>1, <2>2, <2>3, <2>4, <2>5, NewcomerStep DEF n
  <2>7. BotDown'
    <3>1. pool.bot = c /\ c # None
      BY <1>4, <1>7, PoolAssumption DEF LoneInv, LonePool, Current
    <3>2. login # "waiting"
      BY <1>1, <3>1 DEF LoneInv, BotDown
    <3>. QED  BY <1>1, <3>2 DEF BotDown
  <2>. QED  BY <2>1, <2>6, <2>7 DEF LoneInv
<1>. QED  BY <1>3, <1>5, <1>6, <1>7

LEMMA ReviveLone ==
  ASSUME Lone, SysInv, LoneInv, NEW c \in Clients, Revive(c)
  PROVE  LoneInv'
<1>. DEFINE o == pool.of[c].owner
            k == pool.of[c].nick
            n == NextFree(pool)
<1>1. /\ c \in reviving /\ reviving' = reviving \ {c} /\ UNCHANGED <<request, running, login>>
      /\ pool' \in Created(pool, o, k) /\ line' = Append(line, n)
  BY DEF Revive, Lone
<1>2. /\ o \in Owners /\ o \in Users /\ o # Bot /\ k \in {0, 1} /\ PoolInv(pool) /\ LonePool(pool)
      /\ \A d \in Clients : pool.of[d].owner = o => ~Alive(pool.of[d]) /\ (d \in reviving => d = c)
  BY <1>1, OfType, PoolAssumption DEF SysInv, PoolInv, LoneInv, Heirs, Owners
<1>3. Entry(pool, o, k, n, pool')
  BY <1>1, <1>2, CreatedLone
<1>. HIDE DEF n
<1>4. /\ LonePool(pool') /\ n \in Clients /\ pool.of[n].owner = None
      /\ pool'.of[n].owner = o /\ pool'.of[n].inst = "none" /\ pool'.bot = pool.bot
      /\ \A d \in Clients : d # n => pool'.of[d] = pool.of[d]
  BY <1>2, <1>3 DEF Entry, NewClient
<1>5. \A r \in Requests : request'[r].pc \in {"idle", "lookup"} =>
        request[r].pc \in {"idle", "lookup"} /\ Asks[r] # o
  BY <1>1 DEF LoneInv, Fresh
<1>6. \A d \in reviving' : pool.of[d].owner # o
  BY <1>1, <1>2 DEF SysInv, RestOK
<1>7. Fresh' /\ Heirs' /\ Queued'
  BY <1>1, <1>2, <1>4, <1>5, <1>6, NewcomerStep
<1>8. BotDown'
  <2>1. pool.bot # None => Exists(pool, pool.bot)
    BY MappedExist DEF SysInv
  <2>. QED  BY <1>1, <1>4, <2>1 DEF LoneInv, BotDown, Exists
<1>. QED  BY <1>4, <1>7, <1>8 DEF LoneInv

LEMMA ReconnectLone ==
  ASSUME SysInv, LoneInv, Reconnect
  PROVE  LoneInv'
<1>. DEFINE c == Head(line)
<1>1. /\ pool' = Connecting(pool, c) /\ line' = Tail(line) /\ line # <<>>
      /\ UNCHANGED <<request, reviving, login>>
  BY DEF Reconnect
<1>2. /\ line \in Seq(Clients) /\ 1 \in DOMAIN line /\ c = line[1] /\ PoolInv(pool)
      /\ reviving \subseteq Clients
  BY <1>1 DEF SysInv, RestOK
<1>3. Exists(pool, c) /\ pool.of[c].inst = "none"
  BY <1>2 DEF SysInv, RefsSound, LoneInv, Queued
<1>4. Current(pool, pool.of[c].owner) = c /\ LonePool(pool) /\ Alive(pool.of[c])
  BY <1>3 DEF LoneInv, LonePool, Alive, Exists
<1>. HIDE DEF c
<1>5. /\ LonePool(pool') /\ SameMaps(pool, pool')
      /\ pool'.of[c].owner = pool.of[c].owner
      /\ \A d \in Clients : d # c => pool'.of[d] = pool.of[d]
  BY <1>1, <1>2, <1>3, <1>4, ConnectingLone
<1>6. \A d \in Clients : /\ pool'.of[d].owner = pool.of[d].owner
                         /\ ~Alive(pool.of[d]) => ~Alive(pool'.of[d])
  BY <1>4, <1>5
<1>7. Fresh' /\ Heirs'
  BY <1>1, <1>2, <1>6 DEF LoneInv, Fresh, Heirs
<1>8. Queued'
  <2>1. /\ Len(line') = Len(line) - 1 /\ DOMAIN line' = 1..Len(line') /\ DOMAIN line = 1..Len(line)
        /\ Len(line) \in Nat
        /\ \A i \in DOMAIN line' : line'[i] = line[i + 1] /\ i + 1 \in DOMAIN line
    BY <1>1, <1>2
  <2>2. \A i \in DOMAIN line' : line'[i] # c /\ line'[i] \in Clients /\ pool.of[line'[i]].inst = "none"
    BY <1>2, <2>1 DEF LoneInv, Queued
  <2>3. \A i \in DOMAIN line' : pool'.of[line'[i]].inst = "none"
    BY <1>5, <2>2
  <2>4. \A i, j \in DOMAIN line' : line'[i] = line'[j] => i = j
    BY <2>1 DEF LoneInv, Queued
  <2>. QED  BY <2>3, <2>4 DEF Queued
<1>9. BotDown'
  <2>1. pool.bot # None => Exists(pool, pool.bot)
    BY MappedExist DEF SysInv
  <2>. QED  BY <1>1, <1>3, <1>5, <2>1 DEF LoneInv, BotDown, Exists, SameMaps
<1>. QED  BY <1>5, <1>7, <1>8, <1>9 DEF LoneInv

LEMMA LoginRetriesLone ==
  ASSUME SysInv, LoneInv, LoginRetries
  PROVE  LoneInv'
<1>. DEFINE c == pool.bot
<1>1. /\ pool' = Connecting(pool, c) /\ login' = "connecting" /\ login = "waiting" /\ c # None
      /\ UNCHANGED <<request, reviving, line, running>>
  BY DEF LoginRetries
<1>2. Exists(pool, c) /\ PoolInv(pool) /\ pool.of[c].owner = Bot /\ pool.of[c].inst = "closed"
  BY <1>1, MappedExist DEF SysInv, PoolInv, MapsSound, LoneInv, BotDown
<1>3. Current(pool, pool.of[c].owner) = c /\ LonePool(pool)
  BY <1>2 DEF LoneInv, Current
<1>4. /\ LonePool(pool') /\ pool'.of[c].owner = pool.of[c].owner
      /\ \A d \in Clients : d # c => pool'.of[d] = pool.of[d]
  BY <1>1, <1>2, <1>3, ConnectingLone
<1>5. pool.of[c].owner \notin Users /\ c \in Clients
  BY <1>2, PoolAssumption DEF Exists
<1>. HIDE DEF c
<1>6. Fresh' /\ Heirs' /\ Queued'
  BY <1>1, <1>2, <1>4, <1>5, OneChanges
<1>7. BotDown'
  BY <1>1 DEF BotDown
<1>. QED  BY <1>4, <1>6, <1>7 DEF LoneInv

LEMMA LoginAgainLone ==
  ASSUME Lone, SysInv, LoneInv, LoginAgain
  PROVE  LoneInv'
<1>. DEFINE n == NextFree(pool)
<1>1. PICK p \in Created(pool, Bot, 0) : pool' = Connecting(p, p.bot)
  BY DEF LoginAgain
<1>2. /\ pool.bot = None /\ login' = "connecting" /\ UNCHANGED <<request, reviving, line, running>>
      /\ Bot \in Owners /\ PoolInv(pool) /\ LonePool(pool)
  BY DEF LoginAgain, Owners, SysInv, LoneInv
<1>3. \A d \in Clients : pool.of[d].owner = Bot => ~Alive(pool.of[d])
  BY <1>2, PoolAssumption DEF LonePool, Current, Clients
<1>4. Entry(pool, Bot, 0, n, p)
  BY <1>2, <1>3, CreatedLone
<1>5. PoolInv(p) /\ Exists(p, n)
  BY <1>2, CreatedInv
<1>. HIDE DEF n
<1>6. /\ LonePool(p) /\ n \in Clients /\ pool.of[n].owner = None /\ p.bot = n
      /\ p.of[n].owner = Bot /\ Current(p, p.of[n].owner) = n
      /\ \A d \in Clients : d # n => p.of[d] = pool.of[d]
  BY <1>4 DEF Entry, NewClient
<1>7. /\ LonePool(pool') /\ pool'.of[n].owner = Bot
      /\ \A d \in Clients : d # n => pool'.of[d] = pool.of[d]
  BY <1>1, <1>5, <1>6, ConnectingLone
<1>8. /\ \A r \in Requests : Asks[r] # Bot
      /\ \A d \in reviving : pool.of[d].owner # Bot
  BY PoolAssumption DEF LoneInv, Heirs
<1>9. Fresh' /\ Heirs' /\ Queued'
  BY <1>2, <1>6, <1>7, <1>8, NewcomerStep
<1>10. BotDown'
  BY <1>2 DEF BotDown
<1>. QED  BY <1>7, <1>9, <1>10 DEF LoneInv

LEMMA DisconnectStep ==
  ASSUME SysInv, LoneInv, NEW c, Exists(pool, c), NEW e \in BOOLEAN, NEW why \in Reasons,
         pool' = Disconnect(pool, c, why, e), UNCHANGED <<request, reviving, line, login>>
  PROVE  LoneInv'
<1>1. PoolInv(pool) /\ LonePool(pool) /\ c \in Clients
  BY DEF SysInv, LoneInv, Exists
<1>2. LonePool(pool')
  BY <1>1, DisconnectLone
<1>3. /\ SameMaps(pool, pool') /\ \A d \in Clients : d # c => pool'.of[d] = pool.of[d]
      /\ pool'.of[c].owner = pool.of[c].owner
      /\ pool'.of[c].inst = IF pool.of[c].status = "CONNECTED" /\ pool.of[c].inst = "open"
                            THEN "closing" ELSE pool.of[c].inst
  BY <1>1, DisconnectOf DEF Disconnecting
<1>. QED  BY <1>1, <1>2, <1>3, PoolChanges DEF SameMaps, Alive, Exists

LEMMA QuitLone ==
  ASSUME SysInv, LoneInv, NEW c \in Clients, Quit(c)
  PROVE  LoneInv'
<1>1. Exists(pool, c)
  BY PoolAssumption DEF Quit, Exists, Owners
<1>2. /\ \/ pool' = Disconnect(pool, c, "idle", TRUE)
         \/ pool' = Disconnect(pool, c, "iwanttoreconnect", FALSE)
      /\ UNCHANGED <<request, reviving, line, running, login>>
  BY DEF Quit
<1>3. "idle" \in Reasons /\ "iwanttoreconnect" \in Reasons
  BY DEF Reasons
<1>. QED  BY <1>1, <1>2, <1>3, DisconnectStep

LEMMA KillLone ==
  ASSUME SysInv, LoneInv, NEW c \in Clients, Kill(c)
  PROVE  LoneInv'
<1>. DEFINE p == Disconnect(pool, c, "killed", TRUE)
            y == [p.of[c] EXCEPT !.status = "KILLED"]
<1>1. PoolInv(pool) /\ LonePool(pool)
  BY DEF SysInv, LoneInv
<1>2. Exists(pool, c)
  BY <1>1, MappedExist, PoolAssumption DEF Kill, Mapped, Owners, Exists
<1>3. "killed" \in Reasons
  BY DEF Reasons
<1>4. LonePool(p) /\ PoolInv(p) /\ Exists(p, c)
  BY <1>1, <1>2, <1>3, DisconnectLone, DisconnectInv
<1>5. /\ SameMaps(pool, p) /\ \A d \in Clients : d # c => p.of[d] = pool.of[d]
      /\ p.of[c].owner = pool.of[c].owner
      /\ p.of[c].inst = IF pool.of[c].status = "CONNECTED" /\ pool.of[c].inst = "open"
                        THEN "closing" ELSE pool.of[c].inst
  <2>1. Disconnecting(pool, c, p)
    BY <1>1, <1>2, <1>3, DisconnectOf
  <2>. QED  BY <2>1 DEF Disconnecting
<1>6. pool' = With(p, c, y) /\ UNCHANGED <<request, reviving, line, running, login>>
  BY DEF Kill
<1>. HIDE DEF p
<1>7. y \in ClientType
  BY <1>4, OfType, FieldTypes DEF PoolInv, Exists, Statuses
<1>8. /\ y.owner = p.of[c].owner /\ y.status = "KILLED" /\ y.inst = p.of[c].inst
      /\ y.resume = p.of[c].resume
  <2>1. p.of[c] \in ClientType
    BY <1>4, OfType DEF PoolInv, Exists
  <2>. QED  BY <2>1 DEF ClientType
<1>. HIDE DEF y
<1>9. /\ SameMaps(p, pool') /\ pool'.of[c] = y
      /\ \A d \in Clients : d # c => pool'.of[d] = p.of[d]
  BY <1>4, <1>6, <1>7, <1>8, WithOf
<1>10. Shape(y) /\ (y.inst # "closed" => Alive(p.of[c]))
  <2>1. Shape(p.of[c]) /\ p.of[c].inst # "open"
    <3>1. Shape(pool.of[c]) /\ Shape(p.of[c])
      BY <1>1, <1>4 DEF LonePool
    <3>. QED  BY <1>5, <3>1 DEF Shape
  <2>. QED  BY <1>4, <1>8, <2>1 DEF Shape, Alive, Exists
<1>11. LonePool(pool')
  BY <1>4, <1>8, <1>9, <1>10, LoneChange
<1>12. /\ \A d \in Clients : d # c => pool'.of[d] = pool.of[d]
       /\ pool'.of[c].owner = pool.of[c].owner /\ pool'.bot = pool.bot
       /\ ~Alive(pool.of[c]) => ~Alive(pool'.of[c])
       /\ pool.of[c].inst = "none" => pool'.of[c].inst = "none"
  BY <1>2, <1>5, <1>8, <1>9 DEF SameMaps, Alive, Exists
<1>. QED  BY <1>2, <1>6, <1>11, <1>12, PoolChanges

LEMMA LoneStep == ASSUME Lone, SysInv, LoneInv, [Next]_vars PROVE LoneInv'
<1>1. request \in [Requests -> [pc : {"idle", "lookup", "connect", "store", "done", "failed"},
                                cli : Clients \cup {None}]]
  BY DEF SysInv, RestOK
<1>2. ASSUME UNCHANGED <<pool, reviving, line, login>>,
             \A r \in Requests : request'[r].pc \in {"idle", "lookup"} => request[r].pc \in {"idle", "lookup"}
      PROVE  LoneInv'
  BY <1>2, PoolStays DEF SameMaps
<1>3. ASSUME NEW r \in Requests, Ask(r) PROVE LoneInv'
  BY <1>1, <1>2, <1>3 DEF Ask
<1>4. ASSUME NEW r \in Requests, LookupFails(r) \/ Stored(r) PROVE LoneInv'
  BY <1>1, <1>2, <1>4 DEF LookupFails, Stored, Lone
<1>5. ASSUME NEW c \in Clients, Rejoined(c) PROVE LoneInv'
  BY <1>2, <1>5 DEF Rejoined
<1>6. ASSUME NEW n \in Nicks, LookupNick(n) PROVE LoneInv'
  <2>1. pool'.of = pool.of /\ SameMaps(pool, pool')
    BY <1>6 DEF LookupNick, SysInv, PoolInv, PoolType, SameMaps
  <2>. QED  BY <1>6, <2>1, PoolStays DEF LookupNick
<1>7. \A c \in Clients : ~ConnectResumes(c)
  BY DEF ConnectResumes, LoneInv, LonePool, Shape
<1>8. CASE UNCHANGED vars
  BY <1>2, <1>8 DEF vars
<1>9. CASE Next
  BY <1>3, <1>4, <1>5, <1>6, <1>7, <1>9, LookedLone, WelcomeLone, ConnectFailsLone, DropLone,
     EndLone, ReviveLone, ReconnectLone, LoginRetriesLone, LoginAgainLone, KillLone, QuitLone
  DEF Next, Callers, Network, Bridge, Orders
<1>. QED  BY <1>8, <1>9

LEMMA AlwaysLone == ASSUME Lone PROVE Spec => []LoneInv
BY LoneInit, LoneStep, AlwaysSysInv, PTL DEF Spec

(***************************************************************************)
(* "It's imperative we wait for the disconnect, as the IrcConnectionPool   *)
(* doesn't allow us to create new connections for a given user while a     *)
(* previous one is active" (ConnectionInstance.ts, lines 166-168): through *)
(* any sequence of lost, refused, banned, killed and idle connections a    *)
(* user's new client connects only when his old one has disconnected.      *)
(***************************************************************************)
THEOREM PoolOneConnectionThroughLoss == ASSUME Lone PROVE Spec => []OneConnectionPerUser
<1>1. LoneInv => OneConnectionPerUser
  <2>. SUFFICES ASSUME LoneInv, NEW u \in Users
       PROVE  Cardinality({c \in Clients : pool.of[c].owner = u /\ Connection(c)}) <= 1
    BY DEF OneConnectionPerUser
  <2>1. u # Bot /\ u # None
    BY PoolAssumption DEF Owners
  <2>2. {c \in Clients : pool.of[c].owner = u /\ Connection(c)} \subseteq {pool.userIds[u]}
    BY <2>1 DEF LoneInv, LonePool, Alive, Current, Connection
  <2>. QED  BY <2>2, AtMostOne
<1>. QED  BY <1>1, AlwaysLone, PTL

(***************************************************************************)
(* And the client that serves him is the one the pool knows, however often *)
(* he lost one and was reconnected.                                        *)
(***************************************************************************)
THEOREM PoolNoOrphanThroughLoss == ASSUME Lone PROVE Spec => []NoOrphan
<1>1. Users \cap {Bot, None} = {}
  BY PoolAssumption DEF Owners
<1>2. LoneInv => NoOrphan
  BY <1>1 DEF LoneInv, LonePool, Alive, Current, Serving, NoOrphan
<1>. QED  BY <1>2, AlwaysLone, PTL

(***************************************************************************)
(* What a registered client of ours says on IRC is recognised as ours      *)
(* (ClientPool.ts, lines 354-359): the pool still has it under its owner,  *)
(* whichever entries of the nick cache other clients cleared, and it is    *)
(* under the nick the server gave.                                         *)
(***************************************************************************)
THEOREM PoolRecognised == ASSUME Lone PROVE Spec => []Recognised
<1>1. SysInv /\ LoneInv => Recognised
  <2>. SUFFICES ASSUME SysInv, LoneInv, NEW c \in Clients, pool.of[c].inst = "open"
       PROVE  NickIsVirtual(pool, <<pool.of[c].owner, pool.of[c].ircNick>>)
    BY DEF Recognised
  <2>1. Exists(pool, c)
    BY NotBlank DEF SysInv
  <2>2. pool.of[c].owner \in Owners /\ c # None
    BY <2>1, OfType, PoolAssumption DEF SysInv, PoolInv, Exists
  <2>3. Current(pool, pool.of[c].owner) = c
    BY <2>1 DEF LoneInv, LonePool, Alive, Exists
  <2>4. NickOf(pool, c) = <<pool.of[c].owner, pool.of[c].ircNick>>
    BY DEF NickOf, LoneInv, LonePool, Shape
  <2>. QED  BY <2>2, <2>3, <2>4 DEF NickIsVirtual, Current
<1>. QED  BY <1>1, AlwaysSysInv, AlwaysLone, PTL
------------------------------------------------------------------------------
(* When moreover no attempt to connect fails for good and nobody is killed, *)
(* a pending nick is that of a client that is not connected yet.           *)

Unrefused == "refuse" \notin Faults /\ "kill" \notin Commands

Awaiting(p, c, n) ==
  /\ NickOf(p, c) = n
  /\ p.of[c].inst \in {"none", "opening"} /\ p.of[c].status \in {"CREATED", "CONNECTING"}
PendingRight(p) == \A n \in Nicks :
  n[1] # Bot /\ p.pending[n] # None => Awaiting(p, p.pending[n], n)

\* One client changes, and entries are at most cleared.
LEMMA PendingChange ==
  ASSUME NEW p \in PoolType, PendingRight(p), NEW q, NEW c,
         \A d \in Clients : d # c => q.of[d] = p.of[d],
         \A n \in Nicks : q.pending[n] \in {p.pending[n], None},
         \A n \in Nicks : n[1] # Bot /\ q.pending[n] = c /\ Awaiting(p, c, n) => Awaiting(q, c, n)
  PROVE  PendingRight(q)
<1>. SUFFICES ASSUME NEW n \in Nicks, n[1] # Bot, q.pending[n] # None
     PROVE  Awaiting(q, q.pending[n], n)
  BY DEF PendingRight
<1>. DEFINE d == p.pending[n]
<1>1. q.pending[n] = d /\ d \in Clients /\ Awaiting(p, d, n)
  BY DEF PendingRight, PoolType
<1>2. CASE d = c
  BY <1>1, <1>2
<1>3. CASE d # c
  BY <1>1, <1>3 DEF Awaiting, NickOf
<1>. QED  BY <1>2, <1>3

LEMMA ConnectingPending ==
  ASSUME NEW p, PoolInv(p), PendingRight(p), NEW c, Exists(p, c)
  PROVE  PendingRight(Connecting(p, c))
<1>. DEFINE x == p.of[c]
            y == [x EXCEPT !.status = "CONNECTING", !.inst = "opening", !.resume = "waiting"]
            q == With(p, c, y)
<1>1. x \in ClientType /\ p \in PoolType
  BY OfType DEF PoolInv, Exists
<1>2. /\ y \in ClientType /\ y.owner = x.owner /\ y.nick = x.nick
      /\ y.status = "CONNECTING" /\ y.inst = "opening"
  <2>1. y \in ClientType
    BY <1>1, FieldTypes DEF Statuses, Insts, Resumes
  <2>. QED  BY <1>1, <2>1 DEF ClientType
<1>3. q = Connecting(p, c)
  BY DEF Connecting
<1>. HIDE DEF y
<1>4. q.of[c] = y /\ q.pending = p.pending /\ \A d \in Clients : d # c => q.of[d] = p.of[d]
  BY <1>2, WithOf
<1>. HIDE DEF q
<1>5. \A n : Awaiting(p, c, n) => Awaiting(q, c, n)
  BY <1>2, <1>4 DEF Awaiting, NickOf
<1>6. PendingRight(q)
  BY <1>1, <1>4, <1>5, PendingChange
<1>. QED  BY <1>3, <1>6

LEMMA CreatedPending ==
  ASSUME MaxClients = 0, NEW p, PoolInv(p), PendingRight(p), NEW o \in Owners, NEW k \in {0, 1},
         NEW q \in Created(p, o, k)
  PROVE  PendingRight(q)
<1>. DEFINE e == Entered(p, o, k)
            c == NextFree(p)
<1>1. Free(p) # {} /\ q \in AfterLimit(e)
  BY DEF Created, Entered
<1>2. q = e
  BY <1>1 DEF AfterLimit, Victims
<1>3. /\ \A d \in Clients : e.of[d] = IF d = c THEN NewClient(o, k) ELSE p.of[d]
      /\ c \in Clients /\ p.of[c].owner = None
  BY <1>1, EnteredInv DEF Exists
<1>4. e.pending = [p.pending EXCEPT ![<<o, k>>] = c] /\ p \in PoolType
  <2>1. p \in PoolType /\ c \in Clients /\ NewClient(o, k) \in ClientType
    BY <1>3, NewClientType DEF PoolInv
  <2>2. /\ With(p, c, NewClient(o, k)) \in PoolType
        /\ With(p, c, NewClient(o, k)).pending = p.pending
    BY <2>1, WithType
  <2>. QED  BY <2>1, <2>2 DEF Entered, PoolType
<1>. HIDE DEF e, c
<1>5. ASSUME NEW n \in Nicks, n[1] # Bot, e.pending[n] # None
      PROVE  Awaiting(e, e.pending[n], n)
  <2>1. CASE n = <<o, k>>
    <3>1. e.pending[n] = c
      BY <1>4, <2>1 DEF PoolType
    <3>. QED  BY <1>3, <2>1, <3>1 DEF Awaiting, NickOf, NewClient
  <2>2. CASE n # <<o, k>>
    <3>1. e.pending[n] = p.pending[n] /\ p.pending[n] \in Clients
      BY <1>4, <1>5, <2>2 DEF PoolType
    <3>2. Awaiting(p, p.pending[n], n)
      BY <1>5, <3>1 DEF PendingRight
    <3>3. n[1] \in Owners /\ n[1] # None
      BY PoolAssumption DEF Nicks
    <3>4. p.of[p.pending[n]].owner = n[1]
      BY <3>2 DEF Awaiting, NickOf
    <3>. QED  BY <1>3, <3>1, <3>2, <3>3, <3>4 DEF Awaiting, NickOf
  <2>. QED  BY <2>1, <2>2
<1>. QED  BY <1>2, <1>5 DEF PendingRight

LEMMA PendingInit == ASSUME MaxClients = 0, Init PROVE PendingRight(pool)
<1>1. PoolInv(NoClients) /\ PendingRight(NoClients) /\ Bot \in Owners
  <2>1. NoClients \in PoolType
    BY NewClientType DEF NoClients, PoolType
  <2>2. MapsSound(NoClients) /\ Blank(NoClients) /\ PendingRight(NoClients)
    BY DEF NoClients, MapsSound, Blank, PendingRight
  <2>. QED  BY <2>1, <2>2 DEF PoolInv, Owners
<1>2. PICK p \in Created(NoClients, Bot, 0) : pool = Connecting(p, p.bot)
  BY DEF Init
<1>3. PoolInv(p) /\ Exists(p, p.bot) /\ PendingRight(p)
  BY <1>1, CreatedInv, CreatedPending, PoolAssumption
<1>. QED  BY <1>2, <1>3, ConnectingPending

LEMMA PendingStep ==
  ASSUME Lone, Unrefused, SysInv, LoneInv, PendingRight(pool), [Next]_vars
  PROVE  PendingRight(pool')
<1>1. /\ PoolInv(pool) /\ pool \in PoolType /\ LonePool(pool) /\ MaxClients = 0
      /\ \A r \in Requests : Asks[r] \in Owners /\ Bot \in Owners
  BY PoolAssumption DEF SysInv, PoolInv, LoneInv, Lone, Owners
<1>2. ASSUME NEW r \in Requests, Looked(r), pool' # pool PROVE PendingRight(pool')
  <2>1. PICK p \in Created(pool, Asks[r], 0) : pool' = Connecting(p, NextFree(pool))
    BY <1>2 DEF Looked
  <2>2. PoolInv(p) /\ Exists(p, NextFree(pool)) /\ PendingRight(p)
    BY <1>1, CreatedInv, CreatedPending
  <2>. QED  BY <2>1, <2>2, ConnectingPending
<1>3. ASSUME NEW c \in Clients, Welcome(c) PROVE PendingRight(pool')
  <2>1. Exists(pool, c) /\ pool.of[c].inst = "opening"
    BY <1>1, <1>3, NotBlank DEF Welcome
  <2>2. PICK k \in Given(c) : pool' = Connected(Registered(c, k), c)
    BY <1>3 DEF Welcome, Lone
  <2>3. /\ \A d \in Clients : d # c => pool'.of[d] = pool.of[d]
        /\ pool'.pending = [pool.pending EXCEPT ![<<pool.of[c].owner, pool.of[c].nick>>] = None]
    BY <1>1, <2>1, <2>2, WelcomedLone
  <2>4. /\ \A n \in Nicks : pool'.pending[n] \in {pool.pending[n], None}
        /\ NickOf(pool, c) \in Nicks => pool'.pending[NickOf(pool, c)] = None
    BY <1>1, <2>3 DEF PoolType, NickOf
  <2>5. \A n \in Nicks : n[1] # Bot /\ pool'.pending[n] = c => ~Awaiting(pool, c, n)
    BY <2>4, PoolAssumption DEF Awaiting
  <2>. QED  BY <1>1, <2>3, <2>4, <2>5, PendingChange
<1>4. ASSUME NEW c \in Clients, Drop(c) PROVE PendingRight(pool')
  <2>1. Exists(pool, c) /\ pool.of[c].inst = "open"
    BY <1>1, <1>4, NotBlank DEF Drop
  <2>2. PICK why \in Reasons : pool' = CloseInst(pool, c, why)
    BY <1>4 DEF Drop, Reasons
  <2>3. pool'.pending = pool.pending /\ \A d \in Clients : d # c => pool'.of[d] = pool.of[d]
    BY <1>1, <2>1, <2>2, CloseInstLone
  <2>4. \A n : ~Awaiting(pool, c, n)
    BY <2>1 DEF Awaiting
  <2>. QED  BY <1>1, <2>3, <2>4, PendingChange
<1>5. ASSUME NEW c \in Clients, End(c) PROVE PendingRight(pool')
  <2>1. Exists(pool, c) /\ pool.of[c].inst = "closing" /\ pool.of[c].nick \in {0, 1}
    BY <1>1, <1>5, NotBlank, OfType DEF End
  <2>2. /\ PoolInv(Lost(c)) /\ \A d \in Clients : d # c => Lost(c).of[d] = pool.of[d]
        /\ Lost(c).pending = [pool.pending EXCEPT ![NickOf(pool, c)] = None]
    BY <1>1, <2>1, LostLone
  <2>3. \A n : ~Awaiting(pool, c, n)
    BY <2>1 DEF Awaiting
  <2>4. \A n \in Nicks : Lost(c).pending[n] \in {pool.pending[n], None}
    BY <1>1, <2>2 DEF PoolType
  <2>5. PendingRight(Lost(c))
    BY <1>1, <2>2, <2>3, <2>4, PendingChange
  <2>6. pool' = Lost(c) \/ pool' \in Created(Lost(c), Bot, pool.of[c].nick)
    BY <1>5 DEF End
  <2>7. Bot \in Owners
    BY DEF Owners
  <2>8. ASSUME pool' \in Created(Lost(c), Bot, pool.of[c].nick) PROVE PendingRight(pool')
    BY <1>1, <2>1, <2>2, <2>5, <2>7, <2>8, CreatedPending
  <2>. QED  BY <2>5, <2>6, <2>8
<1>6. ASSUME NEW c \in Clients, Revive(c) PROVE PendingRight(pool')
  <2>1. pool.of[c].owner \in Owners /\ pool.of[c].nick \in {0, 1}
    BY <1>1, <1>6, OfType DEF Revive, SysInv, RefsSound, Exists
  <2>2. pool' \in Created(pool, pool.of[c].owner, pool.of[c].nick)
    BY <1>6 DEF Revive, Lone
  <2>. QED  BY <1>1, <2>1, <2>2, CreatedPending
<1>7. ASSUME Reconnect PROVE PendingRight(pool')
  <2>1. Exists(pool, Head(line))
    <3>1. line \in Seq(Clients) /\ line # <<>>
      BY <1>7 DEF Reconnect, SysInv, RestOK
    <3>2. 1 \in DOMAIN line /\ Head(line) = line[1]
      BY <3>1
    <3>. QED  BY <3>2 DEF SysInv, RefsSound
  <2>. QED  BY <1>1, <1>7, <2>1, ConnectingPending DEF Reconnect
<1>8. ASSUME LoginRetries PROVE PendingRight(pool')
  <2>1. Exists(pool, pool.bot)
    BY <1>1, <1>8, MappedExist DEF LoginRetries
  <2>. QED  BY <1>1, <1>8, <2>1, ConnectingPending DEF LoginRetries
<1>9. ASSUME LoginAgain PROVE PendingRight(pool')
  <2>1. PICK p \in Created(pool, Bot, 0) : pool' = Connecting(p, p.bot)
    BY <1>9 DEF LoginAgain
  <2>2. Bot \in Owners
    BY DEF Owners
  <2>3. PoolInv(p) /\ Exists(p, p.bot) /\ PendingRight(p)
    BY <1>1, <2>2, CreatedInv, CreatedPending
  <2>. QED  BY <2>1, <2>3, ConnectingPending
<1>10. ASSUME NEW c \in Clients, Quit(c) PROVE PendingRight(pool')
  <2>1. Exists(pool, c)
    BY <1>10, PoolAssumption DEF Quit, Exists, Owners
  <2>2. PICK why \in Reasons, e \in BOOLEAN : pool' = Disconnect(pool, c, why, e)
    BY <1>10 DEF Quit, Reasons
  <2>3. Disconnecting(pool, c, pool')
    BY <1>1, <2>1, <2>2, DisconnectOf
  <2>4. \A n : Awaiting(pool, c, n) => Awaiting(pool', c, n)
    BY <2>3 DEF Disconnecting, Awaiting, NickOf
  <2>. QED  BY <1>1, <2>3, <2>4, PendingChange DEF Disconnecting
<1>11. ASSUME NEW n \in Nicks, LookupNick(n) PROVE PendingRight(pool')
  <2>1. pool'.of = pool.of /\ pool'.pending = pool.pending
    BY <1>1, <1>11 DEF LookupNick, PoolType
  <2>. QED  BY <2>1 DEF PendingRight, Awaiting, NickOf
<1>12. \A c \in Clients : ~ConnectResumes(c) /\ ~ConnectFails(c) /\ ~Kill(c)
  BY DEF Unrefused, ConnectResumes, ConnectFails, Kill, LoneInv, LonePool, Shape
<1>13. /\ \A r \in Requests : Ask(r) \/ LookupFails(r) \/ Stored(r) => UNCHANGED pool
       /\ \A c \in Clients : Rejoined(c) => UNCHANGED pool
  BY DEF Ask, LookupFails, Stored, Rejoined, Lone
<1>14. CASE pool' = pool
  BY <1>14
<1>15. CASE Next /\ pool' # pool
  BY <1>2, <1>3, <1>4, <1>5, <1>6, <1>7, <1>8, <1>9, <1>10, <1>11, <1>12, <1>13, <1>15
  DEF Next, Callers, Network, Bridge, Orders
<1>. QED  BY <1>14, <1>15 DEF vars

(***************************************************************************)
(* Only a client that is not connected yet has a pending nick: a stranger  *)
(* on IRC who has the nick a client of ours once wanted is not taken for   *)
(* it (ClientPool.nickIsVirtual, lines 348-361).  Both hypotheses on what  *)
(* goes wrong are needed: a client that is refused, or killed while it     *)
(* connects, leaves its pending nick behind.                               *)
(***************************************************************************)
THEOREM PoolPendingSound == ASSUME Lone, Unrefused PROVE Spec => []PendingSound
<1>1. PendingRight(pool) => PendingSound
  BY DEF PendingRight, Awaiting, PendingSound
<1>2. Init => PendingRight(pool)
  BY PendingInit DEF Lone
<1>3. SysInv /\ LoneInv /\ PendingRight(pool) /\ [Next]_vars => PendingRight(pool)'
  BY PendingStep
<1>. QED  BY <1>1, <1>2, <1>3, AlwaysSysInv, AlwaysLone, PTL DEF Spec

=============================================================================
