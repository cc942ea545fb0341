--------------------------- MODULE Netsplit_proofs ---------------------------
(***************************************************************************)
(* That room members follow channel members, for any number of users and   *)
(* channels, any rate and any number of requests and batches.              *)
(***************************************************************************)
EXTENDS Netsplit, TLAPS

Request == [what: {"join", "leave"}, batch: 0..MaxBatches]
Batch == [chan: Channels \cup {None}, nicks: SUBSET Nicks, current: Nicks \cup {None}]

\* A batch in progress is at one of its users, of one of the channels.
BatchesSound ==
  \A i \in Ids : \/ batches[i] = NoBatch
                 \/ batches[i].chan \in Channels /\ batches[i].current \in batches[i].nicks

NTypeOK ==
  /\ on \in [Channels -> SUBSET Nicks] /\ shown \in [Channels -> SUBSET Nicks]
  /\ splitUsers \in [Channels -> SUBSET Nicks] /\ timeouts \subseteq Channels
  /\ unnoticed \in [Channels -> SUBSET Nicks]
  /\ recent \in 0..QuitsPerSecond + 1
  /\ batches \in [Ids -> Batch]
  /\ requests \in [Channels -> [Nicks -> Seq(Request)]]

\* A request of a batch is the leave of the user the batch is at, and there is
\* at most one of them.
LinkedIn(reqs, bs) ==
  \A c \in Channels, n \in Nicks : \A k \in DOMAIN reqs[c][n] :
    reqs[c][n][k].batch # 0 =>
      /\ bs[reqs[c][n][k].batch].chan = c /\ bs[reqs[c][n][k].batch].current = n
      /\ reqs[c][n][k].what = "leave"
OnceIn(reqs) ==
  \A c \in Channels, n \in Nicks : \A j, k \in DOMAIN reqs[c][n] :
    j < k => reqs[c][n][j].batch # reqs[c][n][k].batch \/ reqs[c][n][k].batch = 0

\* Users of a batch whose leave has not been asked for yet.
LeftOf(b) == b.nicks \ {b.current}
Pending(c) == UNION {LeftOf(batches[i]) : i \in {j \in Ids : batches[j].chan = c}}

\* Whoever is in the channel while a quit of theirs is kept came back unnoticed,
\* and so did whoever has two quits kept.
KeptAway == \A c \in Channels : (splitUsers[c] \cup Kept(c)) \cap on[c] \subseteq unnoticed[c]
KeptOnce == \A c \in Channels : splitUsers[c] \cap Kept(c) \subseteq unnoticed[c]

\* A user whose quit is remembered has not been asked to leave; one who is gone,
\* and whose leave nothing will ask for any more, has.
NotAsked == \A c \in Channels, n \in Nicks :
  n \in splitUsers[c] /\ n \notin unnoticed[c] => WillBeShown(c, n)
Here == \A c \in Channels, n \in Nicks :
  n \in on[c] /\ n \notin unnoticed[c] => WillBeShown(c, n)
Gone == \A c \in Channels, n \in Nicks :
  n \notin on[c] \cup splitUsers[c] \cup Pending(c) => ~WillBeShown(c, n)

Follows == KeptAway /\ KeptOnce /\ NotAsked /\ Here /\ Gone
NInv == NTypeOK /\ BatchesSound /\ LinkedIn(requests, batches) /\ OnceIn(requests) /\ Follows
------------------------------------------------------------------------------
(* Requests: what asking adds, and what doing the first one takes away.    *)

ReqType == [Channels -> [Nicks -> Seq(Request)]]
Will(reqs, sh, c, n) ==
  IF reqs[c][n] = <<>> THEN n \in sh[c] ELSE Last(reqs[c][n]).what = "join"

LEMMA Appended ==
  ASSUME NEW s \in Seq(Request), NEW r \in Request
  PROVE  /\ Append(s, r) \in Seq(Request) /\ Append(s, r) # <<>>
         /\ Last(Append(s, r)) = r
         /\ DOMAIN Append(s, r) = DOMAIN s \cup {Len(s) + 1}
         /\ Len(s) + 1 \notin DOMAIN s /\ \A k \in DOMAIN s : k < Len(s) + 1
         /\ Append(s, r)[Len(s) + 1] = r
         /\ \A k \in DOMAIN s : Append(s, r)[k] = s[k]
BY DEF Last

LEMMA Dequeued ==
  ASSUME NEW s \in Seq(Request), s # <<>>
  PROVE  /\ Tail(s) \in Seq(Request) /\ Head(s) \in Request /\ Head(s) = s[1]
         /\ 1 \in DOMAIN s
         /\ Tail(s) = <<>> => Last(s) = Head(s)
         /\ Tail(s) # <<>> => Last(Tail(s)) = Last(s)
         /\ \A k \in DOMAIN Tail(s) : k + 1 \in DOMAIN s /\ Tail(s)[k] = s[k + 1] /\ 1 < k + 1
         /\ \A j, k \in DOMAIN Tail(s) : j < k => j + 1 < k + 1
BY DEF Last

LEMMA AskType ==
  /\ Ask("join", 0) \in Request /\ Ask("leave", 0) \in Request
  /\ \A i \in Ids : Ask("leave", i) \in Request /\ i # 0
  /\ \A w, i : Ask(w, i).what = w /\ Ask(w, i).batch = i
BY NetsplitAssumption DEF Ask, Request, Ids

\* Requests that belong to no batch disturb none.
LEMMA AskedOutside ==
  ASSUME NEW reqs \in ReqType, NEW new \in ReqType, NEW bs,
         LinkedIn(reqs, bs), OnceIn(reqs),
         \A c \in Channels, n \in Nicks :
           \/ new[c][n] = reqs[c][n]
           \/ \E w \in {"join", "leave"} : new[c][n] = Append(reqs[c][n], Ask(w, 0))
  PROVE  LinkedIn(new, bs) /\ OnceIn(new)
<1>1. ASSUME NEW c \in Channels, NEW n \in Nicks
      PROVE  \A k \in DOMAIN new[c][n] : new[c][n][k].batch # 0 =>
               k \in DOMAIN reqs[c][n] /\ new[c][n][k] = reqs[c][n][k]
  <2>1. reqs[c][n] \in Seq(Request)
    BY DEF ReqType
  <2>2. CASE new[c][n] = reqs[c][n]
    BY <2>2
  <2>3. ASSUME NEW w \in {"join", "leave"}, new[c][n] = Append(reqs[c][n], Ask(w, 0))
        PROVE  \A k \in DOMAIN new[c][n] : new[c][n][k].batch # 0 =>
                 k \in DOMAIN reqs[c][n] /\ new[c][n][k] = reqs[c][n][k]
    <3>1. Ask(w, 0) \in Request /\ Ask(w, 0).batch = 0
      BY AskType
    <3>. QED  BY <2>1, <2>3, <3>1, Appended
  <2>. QED  BY <2>2, <2>3
<1>2. LinkedIn(new, bs)
  BY <1>1 DEF LinkedIn
<1>3. OnceIn(new)
  <2>1. SUFFICES ASSUME NEW c \in Channels, NEW n \in Nicks,
                        NEW j \in DOMAIN new[c][n], NEW k \in DOMAIN new[c][n],
                        j < k, new[c][n][j].batch = new[c][n][k].batch, new[c][n][k].batch # 0
                 PROVE  FALSE
    BY DEF OnceIn
  <2>. QED  BY <1>1, <2>1 DEF OnceIn
<1>. QED  BY <1>2, <1>3

Taken(reqs, c, n) == [reqs EXCEPT ![c][n] = Tail(@)]
NoneOf(reqs, i) ==
  \A d \in Channels, m \in Nicks : \A k \in DOMAIN reqs[d][m] : reqs[d][m][k].batch # i

\* Doing a request takes the only one of its batch away.
LEMMA DoneTakes ==
  ASSUME NEW reqs \in ReqType, NEW bs, LinkedIn(reqs, bs), OnceIn(reqs),
         NEW c \in Channels, NEW n \in Nicks, reqs[c][n] # <<>>
  PROVE  /\ Taken(reqs, c, n) \in ReqType
         /\ LinkedIn(Taken(reqs, c, n), bs) /\ OnceIn(Taken(reqs, c, n))
         /\ Head(reqs[c][n]).batch # 0 => NoneOf(Taken(reqs, c, n), Head(reqs[c][n]).batch)
<1>. DEFINE rest == Taken(reqs, c, n)
<1>1. reqs[c][n] \in Seq(Request)
  BY DEF ReqType
<1>2. rest[c][n] = Tail(reqs[c][n])
      /\ \A d \in Channels, m \in Nicks : d # c \/ m # n => rest[d][m] = reqs[d][m]
  BY DEF ReqType, Taken
<1>3. rest \in ReqType
  BY <1>1, Dequeued DEF ReqType, Taken
<1>. HIDE DEF rest
<1>4. ASSUME NEW d \in Channels, NEW m \in Nicks
      PROVE  \A k \in DOMAIN rest[d][m] : \E l \in DOMAIN reqs[d][m] :
               rest[d][m][k] = reqs[d][m][l] /\ (d = c /\ m = n => 1 < l)
  <2>1. CASE d = c /\ m = n
    <3>1. rest[d][m] = Tail(reqs[c][n]) /\ reqs[d][m] = reqs[c][n]
      BY <1>2, <2>1
    <3>2. \A k \in DOMAIN Tail(reqs[c][n]) :
            k + 1 \in DOMAIN reqs[c][n] /\ Tail(reqs[c][n])[k] = reqs[c][n][k + 1] /\ 1 < k + 1
      BY <1>1, Dequeued
    <3>. QED  BY <3>1, <3>2
  <2>2. CASE d # c \/ m # n
    BY <1>2, <2>2
  <2>. QED  BY <2>1, <2>2
<1>5. LinkedIn(rest, bs)
  BY <1>4 DEF LinkedIn
<1>6. OnceIn(rest)
  <2>1. SUFFICES ASSUME NEW d \in Channels, NEW m \in Nicks
                 PROVE  \A j, k \in DOMAIN rest[d][m] :
                   j < k => rest[d][m][j].batch # rest[d][m][k].batch \/ rest[d][m][k].batch = 0
    BY DEF OnceIn
  <2>2. CASE d = c /\ m = n
    <3>1. rest[d][m] = Tail(reqs[c][n])
      BY <1>2, <2>2
    <3>2. SUFFICES ASSUME NEW j \in DOMAIN rest[d][m], NEW k \in DOMAIN rest[d][m], j < k
                   PROVE  rest[d][m][j].batch # rest[d][m][k].batch \/ rest[d][m][k].batch = 0
      OBVIOUS
    <3>3. j \in DOMAIN Tail(reqs[c][n]) /\ k \in DOMAIN Tail(reqs[c][n])
      BY <3>1, <3>2
    <3>4. /\ j + 1 \in DOMAIN reqs[c][n] /\ k + 1 \in DOMAIN reqs[c][n] /\ j + 1 < k + 1
          /\ rest[d][m][j] = reqs[c][n][j + 1] /\ rest[d][m][k] = reqs[c][n][k + 1]
      BY <1>1, <3>1, <3>2, <3>3, Dequeued
    <3>. QED  BY <3>4 DEF OnceIn
  <2>3. CASE d # c \/ m # n
    BY <1>2, <2>3 DEF OnceIn
  <2>. QED  BY <2>2, <2>3
<1>7. ASSUME Head(reqs[c][n]).batch # 0, NEW d \in Channels, NEW m \in Nicks,
             NEW k \in DOMAIN rest[d][m], rest[d][m][k].batch = Head(reqs[c][n]).batch
      PROVE  FALSE
  <2>1. Head(reqs[c][n]) = reqs[c][n][1] /\ 1 \in DOMAIN reqs[c][n]
    BY <1>1, Dequeued
  <2>2. PICK l \in DOMAIN reqs[d][m] : rest[d][m][k] = reqs[d][m][l] /\ (d = c /\ m = n => 1 < l)
    BY <1>4
  <2>3. d = c /\ m = n
    BY <1>7, <2>1, <2>2 DEF LinkedIn
  <2>. QED  BY <1>7, <2>1, <2>2, <2>3 DEF OnceIn
<1>8. Head(reqs[c][n]).batch # 0 => NoneOf(rest, Head(reqs[c][n]).batch)
  BY <1>7 DEF NoneOf
<1>. QED  BY <1>3, <1>5, <1>6, <1>8 DEF rest
------------------------------------------------------------------------------
(* handleDebouncedQuit: what turning to the next user changes.             *)

\* The call i has asked a user of the channel to leave.
AskedBy(reqs, i, c, m) == requests'[c][m] = Append(reqs[c][m], Ask("leave", i))

LEMMA AdvanceRequests ==
  ASSUME NTypeOK, BatchesSound, NEW reqs \in ReqType, NEW i \in Ids, NEW c \in Channels,
         NEW left \in SUBSET Nicks, LinkedIn(reqs, batches), OnceIn(reqs),
         NoneOf(reqs, i), Advance(reqs, i, c, left)
  PROVE  /\ batches' \in [Ids -> Batch] /\ BatchesSound'
         /\ requests' \in ReqType /\ LinkedIn(requests', batches') /\ OnceIn(requests')
         /\ \A j \in Ids \ {i} : batches'[j] = batches[j]
         /\ \A d \in Channels, m \in Nicks :
              requests'[d][m] = reqs[d][m] \/ (d = c /\ m \in left /\ AskedBy(reqs, i, c, m))
         /\ \/ batches'[i] = NoBatch /\ left = {}
            \/ \E n \in left : /\ batches'[i] = [chan |-> c, nicks |-> left, current |-> n]
                               /\ AskedBy(reqs, i, c, n)
<1>1. /\ batches \in [Ids -> Batch]
      /\ NoBatch \in Batch
  BY DEF NTypeOK, NoBatch, Batch
<1>2. ASSUME NEW d \in Channels, NEW m \in Nicks, NEW k \in DOMAIN reqs[d][m],
             reqs[d][m][k].batch # 0
      PROVE  reqs[d][m][k].batch \in Ids \ {i}
  <2>1. reqs[d][m][k] \in Request
    BY DEF ReqType
  <2>2. reqs[d][m][k].batch \in 0..MaxBatches /\ reqs[d][m][k].batch # i
    BY <2>1 DEF Request, NoneOf
  <2>. QED  BY <1>2, <2>2, NetsplitAssumption DEF Ids
<1>3. CASE left = {} /\ batches' = [batches EXCEPT ![i] = NoBatch] /\ requests' = reqs
  <2>1. /\ batches' \in [Ids -> Batch] /\ batches'[i] = NoBatch
        /\ \A j \in Ids \ {i} : batches'[j] = batches[j]
    BY <1>1, <1>3
  <2>2. BatchesSound'
    BY <2>1 DEF BatchesSound
  <2>3. LinkedIn(requests', batches')
    BY <1>2, <1>3, <2>1 DEF LinkedIn
  <2>. QED  BY <1>3, <2>1, <2>2, <2>3
<1>4. ASSUME NEW n \in left,
             batches' = [batches EXCEPT ![i] = [chan |-> c, nicks |-> left, current |-> n]],
             requests' = [reqs EXCEPT ![c][n] = Append(@, Ask("leave", i))]
      PROVE  /\ batches' \in [Ids -> Batch] /\ BatchesSound'
             /\ requests' \in ReqType /\ LinkedIn(requests', batches') /\ OnceIn(requests')
             /\ \A j \in Ids \ {i} : batches'[j] = batches[j]
             /\ \A d \in Channels, m \in Nicks :
                  requests'[d][m] = reqs[d][m] \/ (d = c /\ m \in left /\ AskedBy(reqs, i, c, m))
             /\ \E x \in left : /\ batches'[i] = [chan |-> c, nicks |-> left, current |-> x]
                                /\ AskedBy(reqs, i, c, x)
  <2>. DEFINE b == [chan |-> c, nicks |-> left, current |-> n]
  <2>1. b \in Batch /\ n \in Nicks
    BY DEF Batch
  <2>2. /\ batches' \in [Ids -> Batch] /\ batches'[i] = b
        /\ \A j \in Ids \ {i} : batches'[j] = batches[j]
    BY <1>1, <1>4, <2>1
  <2>3. BatchesSound'
    BY <2>2 DEF BatchesSound
  <2>4. /\ reqs[c][n] \in Seq(Request)
        /\ Ask("leave", i) \in Request /\ i # 0
        /\ Ask("leave", i).what = "leave" /\ Ask("leave", i).batch = i
    BY <2>1, AskType DEF ReqType
  <2>5. /\ AskedBy(reqs, i, c, n)
        /\ \A d \in Channels, m \in Nicks : d # c \/ m # n => requests'[d][m] = reqs[d][m]
    BY <1>4, <2>1 DEF ReqType, AskedBy
  <2>6. requests' \in ReqType
    BY <1>4, <2>1, <2>4, Appended DEF ReqType
  <2>7. ASSUME NEW d \in Channels, NEW m \in Nicks, NEW k \in DOMAIN requests'[d][m],
               requests'[d][m][k].batch # 0
        PROVE  \/ k \in DOMAIN reqs[d][m] /\ requests'[d][m][k] = reqs[d][m][k]
               \/ d = c /\ m = n /\ k = Len(reqs[c][n]) + 1 /\ requests'[d][m][k] = Ask("leave", i)
    <3>1. CASE d = c /\ m = n
      BY <2>4, <2>5, <2>7, <3>1, Appended DEF AskedBy
    <3>2. CASE d # c \/ m # n
      BY <2>5, <2>7, <3>2
    <3>. QED  BY <3>1, <3>2
  <2>8. LinkedIn(requests', batches')
    <3>1. SUFFICES ASSUME NEW d \in Channels, NEW m \in Nicks, NEW k \in DOMAIN requests'[d][m],
                          requests'[d][m][k].batch # 0
                   PROVE  /\ batches'[requests'[d][m][k].batch].chan = d
                          /\ batches'[requests'[d][m][k].batch].current = m
                          /\ requests'[d][m][k].what = "leave"
      BY DEF LinkedIn
    <3>2. CASE k \in DOMAIN reqs[d][m] /\ requests'[d][m][k] = reqs[d][m][k]
      BY <1>2, <2>2, <3>1, <3>2 DEF LinkedIn
    <3>3. CASE d = c /\ m = n /\ requests'[d][m][k] = Ask("leave", i)
      BY <2>2, <2>4, <3>3
    <3>. QED  BY <2>7, <3>1, <3>2, <3>3
  <2>9. OnceIn(requests')
    <3>1. SUFFICES ASSUME NEW d \in Channels, NEW m \in Nicks,
                          NEW j \in DOMAIN requests'[d][m], NEW k \in DOMAIN requests'[d][m], j < k,
                          requests'[d][m][j].batch = requests'[d][m][k].batch,
                          requests'[d][m][k].batch # 0
                   PROVE  FALSE
      BY DEF OnceIn
    <3>2. CASE d = c /\ m = n
      <4>1. DOMAIN requests'[d][m] = DOMAIN reqs[d][m] \cup {Len(reqs[c][n]) + 1}
        BY <2>4, <2>5, <3>2, Appended DEF AskedBy
      <4>2. \A l \in DOMAIN reqs[c][n] : l < Len(reqs[c][n]) + 1 /\ l \in Nat
        BY <2>4
      <4>3. j \in DOMAIN reqs[d][m] /\ requests'[d][m][j] = reqs[d][m][j]
        BY <2>4, <2>7, <3>1, <3>2, <4>1, <4>2
      <4>4. CASE k \in DOMAIN reqs[d][m] /\ requests'[d][m][k] = reqs[d][m][k]
        BY <3>1, <4>3, <4>4 DEF OnceIn
      <4>5. CASE requests'[d][m][k] = Ask("leave", i)
        BY <2>4, <3>1, <4>3, <4>5 DEF NoneOf
      <4>. QED  BY <2>7, <3>1, <4>4, <4>5
    <3>3. CASE d # c \/ m # n
      BY <2>7, <3>1, <3>3 DEF OnceIn
    <3>. QED  BY <3>2, <3>3
  <2>10. \A d \in Channels, m \in Nicks :
           requests'[d][m] = reqs[d][m] \/ (d = c /\ m \in left /\ AskedBy(reqs, i, c, m))
    BY <2>5
  <2>. QED  BY <2>2, <2>3, <2>5, <2>6, <2>8, <2>9, <2>10
<1>5. \/ left = {} /\ batches' = [batches EXCEPT ![i] = NoBatch] /\ requests' = reqs
      \/ \E n \in left :
           /\ batches' = [batches EXCEPT ![i] = [chan |-> c, nicks |-> left, current |-> n]]
           /\ requests' = [reqs EXCEPT ![c][n] = Append(@, Ask("leave", i))]
  BY DEF Advance
<1>. QED  BY <1>3, <1>4, <1>5

\* Members of the two unions, in words that need no unions.
LEMMA Members ==
  ASSUME NEW c \in Channels, NEW m
  PROVE  /\ m \in Kept(c) <=> \E j \in Ids : batches[j].chan = c /\ m \in batches[j].nicks
         /\ m \in Pending(c) <=> \E j \in Ids : batches[j].chan = c /\ m \in LeftOf(batches[j])
BY DEF Kept, Pending

LEMMA MembersNext ==
  ASSUME NEW c \in Channels, NEW m
  PROVE  /\ m \in Kept(c)' <=> \E j \in Ids : batches'[j].chan = c /\ m \in batches'[j].nicks
         /\ m \in Pending(c)' <=> \E j \in Ids : batches'[j].chan = c /\ m \in LeftOf(batches'[j])
BY DEF Kept, Pending

\* Users move from a channel's remembered quits to the call, or from the call to
\* its requests; nobody else is concerned.
LEMMA AdvanceFollows ==
  ASSUME NTypeOK, BatchesSound, Follows,
         NEW reqs \in ReqType, NEW i \in Ids, NEW c \in Channels, NEW left \in SUBSET Nicks,
         \A d \in Channels, m \in Nicks :
           requests'[d][m] = reqs[d][m] \/ (d = c /\ m \in left /\ AskedBy(reqs, i, c, m)),
         \/ batches'[i] = NoBatch /\ left = {}
         \/ \E n \in left : /\ batches'[i] = [chan |-> c, nicks |-> left, current |-> n]
                            /\ AskedBy(reqs, i, c, n),
         \A j \in Ids \ {i} : batches'[j] = batches[j],
         batches[i] = NoBatch \/ (batches[i].chan = c /\ LeftOf(batches[i]) = left),
         \A d \in Channels, m \in Nicks : Will(reqs, shown', d, m) <=> WillBeShown(d, m),
         \/ left \subseteq Kept(c) /\ UNCHANGED splitUsers
         \/ left = splitUsers[c] /\ splitUsers' = [splitUsers EXCEPT ![c] = {}],
         UNCHANGED <<on, unnoticed>>
  PROVE  Follows'
<1>1. \A d \in Channels : /\ Kept(d)' \subseteq Kept(d) \cup (IF d = c THEN left ELSE {})
  <2>1. ASSUME NEW d \in Channels, NEW j \in Ids, batches'[j].chan = d, NEW m \in batches'[j].nicks
        PROVE  m \in Kept(d) \/ (d = c /\ m \in left)
    <3>1. CASE j # i
      BY <2>1, <3>1, Members
    <3>2. CASE j = i
      <4>1. batches'[i] # NoBatch
        BY <2>1, <3>2 DEF NoBatch
      <4>2. PICK n \in left : batches'[i] = [chan |-> c, nicks |-> left, current |-> n]
        BY <4>1
      <4>3. batches'[i].chan = c /\ batches'[i].nicks = left
        BY <4>2
      <4>. QED  BY <2>1, <3>2, <4>3
    <3>. QED  BY <3>1, <3>2
  <2>. QED  BY <2>1, MembersNext
<1>2. ASSUME NEW d \in Channels, NEW m \in Pending(d)
      PROVE  m \in Pending(d)' \/ (d = c /\ AskedBy(reqs, i, c, m))
  <2>1. PICK j \in Ids : batches[j].chan = d /\ m \in LeftOf(batches[j])
    BY Members
  <2>2. CASE j # i
    BY <2>1, <2>2, MembersNext
  <2>3. CASE j = i
    <3>1. d = c /\ m \in left
      BY <2>1, <2>3, NetsplitAssumption DEF NoBatch
    <3>2. PICK n \in left : /\ batches'[i] = [chan |-> c, nicks |-> left, current |-> n]
                            /\ AskedBy(reqs, i, c, n)
      BY <3>1
    <3>3. m = n \/ m \in LeftOf(batches'[i])
      BY <3>1, <3>2 DEF LeftOf
    <3>. QED  BY <3>1, <3>2, <3>3, MembersNext
  <2>. QED  BY <2>2, <2>3
<1>3. \A m \in left : m \in Pending(c)' \/ AskedBy(reqs, i, c, m)
  <2>1. ASSUME NEW m \in left
        PROVE  m \in Pending(c)' \/ AskedBy(reqs, i, c, m)
    <3>1. PICK n \in left : /\ batches'[i] = [chan |-> c, nicks |-> left, current |-> n]
                            /\ AskedBy(reqs, i, c, n)
      OBVIOUS
    <3>2. m = n \/ m \in LeftOf(batches'[i])
      BY <3>1 DEF LeftOf
    <3>. QED  BY <3>1, <3>2, MembersNext
  <2>. QED  BY <2>1
<1>4. ASSUME NEW m \in Nicks, AskedBy(reqs, i, c, m)
      PROVE  ~Will(requests', shown', c, m)
  <2>1. reqs[c][m] \in Seq(Request) /\ Ask("leave", i) \in Request /\ Ask("leave", i).what = "leave"
    BY AskType DEF ReqType
  <2>. QED  BY <1>4, <2>1, Appended DEF AskedBy, Will
<1>5. ASSUME NEW d \in Channels, NEW m \in Nicks, requests'[d][m] = reqs[d][m]
      PROVE  Will(requests', shown', d, m) <=> WillBeShown(d, m)
  BY <1>5 DEF Will
<1>6. \A d \in Channels, m \in Nicks : WillBeShown(d, m)' <=> Will(requests', shown', d, m)
  BY DEF WillBeShown, Will
<1>7. /\ \A d \in Channels : splitUsers'[d] \subseteq splitUsers[d]
      /\ \A d \in Channels : d # c => splitUsers'[d] = splitUsers[d]
      /\ left \subseteq splitUsers[c] \cup Kept(c)
      /\ splitUsers'[c] \cap left \subseteq splitUsers[c] \cap Kept(c)
      /\ splitUsers[c] \ splitUsers'[c] \subseteq left
      /\ splitUsers'[c] # {} => left \subseteq Kept(c)
  BY DEF NTypeOK
<1>8. KeptAway'
  BY <1>1, <1>7 DEF Follows, KeptAway
<1>9. KeptOnce'
  BY <1>1, <1>7 DEF Follows, KeptOnce
<1>10. NotAsked'
  <2>1. SUFFICES ASSUME NEW d \in Channels, NEW m \in Nicks,
                        m \in splitUsers'[d], m \notin unnoticed[d]
                 PROVE  Will(requests', shown', d, m)
    BY <1>6 DEF NotAsked
  <2>2. requests'[d][m] = reqs[d][m]
    BY <1>7, <2>1 DEF Follows, KeptOnce
  <2>. QED  BY <1>5, <1>7, <2>1, <2>2 DEF Follows, NotAsked
<1>11. Here'
  <2>1. SUFFICES ASSUME NEW d \in Channels, NEW m \in Nicks,
                        m \in on[d], m \notin unnoticed[d]
                 PROVE  Will(requests', shown', d, m)
    BY <1>6 DEF Here
  <2>2. requests'[d][m] = reqs[d][m]
    BY <1>7, <2>1 DEF Follows, KeptAway
  <2>. QED  BY <1>5, <2>1, <2>2 DEF Follows, Here
<1>12. Gone'
  <2>1. SUFFICES ASSUME NEW d \in Channels, NEW m \in Nicks,
                        m \notin on[d] \cup splitUsers'[d] \cup Pending(d)'
                 PROVE  ~Will(requests', shown', d, m)
    BY <1>6 DEF Gone
  <2>2. CASE d = c /\ AskedBy(reqs, i, c, m)
    BY <1>4, <2>2
  <2>3. CASE ~(d = c /\ AskedBy(reqs, i, c, m))
    <3>1. requests'[d][m] = reqs[d][m]
      BY <2>3
    <3>2. m \notin splitUsers[d] /\ m \notin Pending(d)
      BY <1>2, <1>3, <1>7, <2>1, <2>3
    <3>. QED  BY <1>5, <2>1, <3>1, <3>2 DEF Follows, Gone
  <2>. QED  BY <2>2, <2>3
<1>. QED  BY <1>8, <1>9, <1>10, <1>11, <1>12 DEF Follows
------------------------------------------------------------------------------
(* The other steps leave the batches alone: Follows, for one user of one    *)
(* channel.                                                                *)

FollowsAt(c, n) ==
  /\ n \in splitUsers[c] \/ n \in Kept(c) => (n \in on[c] => n \in unnoticed[c])
  /\ n \in splitUsers[c] /\ n \in Kept(c) => n \in unnoticed[c]
  /\ n \in splitUsers[c] /\ n \notin unnoticed[c] => WillBeShown(c, n)
  /\ n \in on[c] /\ n \notin unnoticed[c] => WillBeShown(c, n)
  /\ n \notin on[c] /\ n \notin splitUsers[c] /\ n \notin Pending(c) => ~WillBeShown(c, n)

LEMMA Locally == NTypeOK => (Follows <=> \A c \in Channels, n \in Nicks : FollowsAt(c, n))
<1>. SUFFICES ASSUME NTypeOK PROVE Follows <=> \A c \in Channels, n \in Nicks : FollowsAt(c, n)
  OBVIOUS
<1>1. \A c \in Channels : on[c] \subseteq Nicks /\ splitUsers[c] \subseteq Nicks
  BY DEF NTypeOK
<1>2. Follows => \A c \in Channels, n \in Nicks : FollowsAt(c, n)
  BY <1>1 DEF Follows, KeptAway, KeptOnce, NotAsked, Here, Gone, FollowsAt
<1>3. (\A c \in Channels, n \in Nicks : FollowsAt(c, n)) => Follows
  BY <1>1 DEF Follows, KeptAway, KeptOnce, NotAsked, Here, Gone, FollowsAt
<1>. QED  BY <1>2, <1>3

\* What somebody who has been asked to join or leave will do.
LEMMA AskedWill ==
  ASSUME NTypeOK, NEW c \in Channels, NEW n \in Nicks, NEW w \in {"join", "leave"},
         requests'[c][n] = Append(requests[c][n], Ask(w, 0))
  PROVE  WillBeShown(c, n)' <=> w = "join"
<1>1. requests[c][n] \in Seq(Request) /\ Ask(w, 0) \in Request /\ Ask(w, 0).what = w
  BY AskType DEF NTypeOK
<1>. QED  BY <1>1, Appended DEF WillBeShown

LEMMA SameWill ==
  ASSUME NEW c \in Channels, NEW n \in Nicks, requests'[c][n] = requests[c][n], UNCHANGED shown
  PROVE  WillBeShown(c, n)' <=> WillBeShown(c, n)
BY DEF WillBeShown

\* Nobody's channel, quits or requests change.
LEMMA Unconcerned ==
  ASSUME NEW c \in Channels, NEW n \in Nicks, FollowsAt(c, n), UNCHANGED <<batches, shown>>,
         requests'[c][n] = requests[c][n], n \in on'[c] <=> n \in on[c],
         n \in splitUsers'[c] <=> n \in splitUsers[c],
         n \in unnoticed'[c] <=> n \in unnoticed[c]
  PROVE  FollowsAt(c, n)'
<1>1. Kept(c)' = Kept(c) /\ Pending(c)' = Pending(c)
  BY DEF Kept, Pending
<1>. QED  BY <1>1, SameWill DEF FollowsAt

LEMMA StepAside ==
  ASSUME NInv, NTypeOK', UNCHANGED batches,
         \A c \in Channels, n \in Nicks :
           \/ requests'[c][n] = requests[c][n]
           \/ \E w \in {"join", "leave"} : requests'[c][n] = Append(requests[c][n], Ask(w, 0)),
         \A c \in Channels, n \in Nicks : FollowsAt(c, n)'
  PROVE  NInv'
<1>1. LinkedIn(requests', batches') /\ OnceIn(requests')
  BY AskedOutside DEF NInv, NTypeOK, ReqType
<1>2. Follows'
  <2>1. \A c \in Channels : on'[c] \subseteq Nicks /\ splitUsers'[c] \subseteq Nicks
    BY DEF NTypeOK
  <2>. QED  BY <2>1 DEF Follows, KeptAway, KeptOnce, NotAsked, Here, Gone, FollowsAt
<1>3. BatchesSound'
  BY DEF NInv, BatchesSound
<1>. QED  BY <1>1, <1>2, <1>3 DEF NInv

LEMMA InitNInv == Init => NInv
<1>. SUFFICES ASSUME Init PROVE NInv
  OBVIOUS
<1>1. NTypeOK /\ BatchesSound
  BY NetsplitAssumption DEF Init, NTypeOK, BatchesSound, Batch, NoBatch
<1>2. LinkedIn(requests, batches) /\ OnceIn(requests)
  BY DEF Init, LinkedIn, OnceIn
<1>3. \A c \in Channels : Kept(c) = {} /\ Pending(c) = {}
  BY Members DEF Init, NoBatch, LeftOf
<1>4. \A c \in Channels, n \in Nicks : WillBeShown(c, n) <=> n \in on[c]
  BY DEF Init, WillBeShown
<1>5. Follows
  BY <1>1, <1>3, <1>4, Locally DEF Init, FollowsAt
<1>. QED  BY <1>1, <1>2, <1>5 DEF NInv
------------------------------------------------------------------------------
(* One lemma for each step.                                                *)

LEMMA QuitNInv == ASSUME NInv, NEW n \in Nicks, Quit(n) PROVE NInv'
<1>. DEFINE gone(d, m) == m = n /\ d \in In(n)
<1>1. /\ NTypeOK /\ \A c \in Channels, m \in Nicks : FollowsAt(c, m)
      /\ \A c \in Channels : c \in In(n) <=> n \in on[c]
  BY Locally DEF NInv, In
<1>2. CASE SplitOccurs
  <2>1. /\ on' = [c \in Channels |-> on[c] \ {n}]
        /\ splitUsers' = [c \in Channels |->
                            IF c \in In(n) THEN splitUsers[c] \cup {n} ELSE splitUsers[c]]
        /\ UNCHANGED <<timeouts, batches, shown, unnoticed, requests>>
        /\ recent' = Counted
    BY <1>2 DEF Quit
  <2>2. recent' \in 0..QuitsPerSecond + 1
    BY <1>1, <2>1, NetsplitAssumption DEF NTypeOK, Counted
  <2>3. NTypeOK'
    BY <1>1, <2>1, <2>2 DEF NTypeOK
  <2>4. ASSUME NEW d \in Channels, NEW m \in Nicks
        PROVE  FollowsAt(d, m)'
    <3>1. CASE gone(d, m)
      <4>1. Kept(d)' = Kept(d) /\ Pending(d)' = Pending(d)
        BY <2>1 DEF Kept, Pending
      <4>2. m \notin on'[d] /\ m \in splitUsers'[d] /\ m \in on[d] /\ unnoticed' = unnoticed
        BY <1>1, <2>1, <3>1
      <4>3. WillBeShown(d, m)' <=> WillBeShown(d, m)
        BY <2>1, SameWill
      <4>. QED  BY <1>1, <4>1, <4>2, <4>3 DEF FollowsAt
    <3>2. CASE ~gone(d, m)
      BY <1>1, <2>1, <3>2, Unconcerned
    <3>. QED  BY <3>1, <3>2
  <2>. QED  BY <2>1, <2>3, <2>4, StepAside
<1>3. CASE ~SplitOccurs
  <2>1. /\ on' = [c \in Channels |-> on[c] \ {n}]
        /\ requests' = [c \in Channels |->
                           IF c \in In(n)
                           THEN [requests[c] EXCEPT ![n] = Append(@, Ask("leave", 0))]
                           ELSE requests[c]]
        /\ UNCHANGED <<timeouts, batches, shown, unnoticed, splitUsers>>
        /\ recent' = Counted
    BY <1>3 DEF Quit
  <2>2. recent' \in 0..QuitsPerSecond + 1
    BY <1>1, <2>1, NetsplitAssumption DEF NTypeOK, Counted
  <2>3. /\ \A d \in Channels, m \in Nicks : requests'[d][m] =
              IF gone(d, m) THEN Append(requests[d][m], Ask("leave", 0)) ELSE requests[d][m]
        /\ requests' \in ReqType
    BY <1>1, <2>1, AskType, Appended DEF NTypeOK, ReqType
  <2>4. NTypeOK'
    BY <1>1, <2>1, <2>2, <2>3 DEF NTypeOK, ReqType
  <2>5. ASSUME NEW d \in Channels, NEW m \in Nicks
        PROVE  FollowsAt(d, m)'
    <3>1. CASE gone(d, m)
      <4>1. Kept(d)' = Kept(d) /\ Pending(d)' = Pending(d)
        BY <2>1 DEF Kept, Pending
      <4>2. m \notin on'[d] /\ m \in on[d] /\ UNCHANGED <<splitUsers, unnoticed>>
        BY <1>1, <2>1, <3>1
      <4>3. ~WillBeShown(d, m)'
        BY <1>1, <2>3, <3>1, AskedWill
      <4>. QED  BY <1>1, <4>1, <4>2, <4>3 DEF FollowsAt
    <3>2. CASE ~gone(d, m)
      BY <1>1, <2>1, <2>3, <3>2, Unconcerned
    <3>. QED  BY <3>1, <3>2
  <2>. QED  BY <2>1, <2>3, <2>4, <2>5, StepAside
<1>. QED  BY <1>2, <1>3

LEMMA ElapseNInv == ASSUME NInv, Elapse PROVE NInv'
<1>1. UNCHANGED <<on, splitUsers, timeouts, batches, requests, shown, unnoticed>>
  BY DEF Elapse
<1>2. recent' \in 0..QuitsPerSecond + 1
  BY NetsplitAssumption DEF NInv, NTypeOK, Elapse
<1>3. NTypeOK'
  BY <1>1, <1>2 DEF NInv, NTypeOK
<1>4. \A c \in Channels, m \in Nicks : FollowsAt(c, m)'
  BY <1>1, Locally, Unconcerned DEF NInv
<1>. QED  BY <1>1, <1>3, <1>4, StepAside

LEMMA JoinNInv == ASSUME NInv, NEW n \in Nicks, NEW c \in Channels, Join(n, c) PROVE NInv'
<1>1. /\ NTypeOK /\ \A d \in Channels, m \in Nicks : FollowsAt(d, m)
      /\ n \notin on[c] /\ on' = [on EXCEPT ![c] = @ \cup {n}]
      /\ unnoticed' = [unnoticed EXCEPT
                          ![c] = Overlooked(@, {n} \ splitUsers[c], {n} \cap Kept(c))]
      /\ UNCHANGED <<recent, batches, shown>>
  BY Locally DEF NInv, Join
<1>2. /\ on' \in [Channels -> SUBSET Nicks] /\ unnoticed' \in [Channels -> SUBSET Nicks]
      /\ \A d \in Channels, m \in Nicks : d # c \/ m # n =>
           (m \in on'[d] <=> m \in on[d]) /\ (m \in unnoticed'[d] <=> m \in unnoticed[d])
      /\ n \in on'[c]
      /\ n \in unnoticed'[c] <=> n \in Kept(c) \/ (n \in unnoticed[c] /\ n \in splitUsers[c])
  BY <1>1 DEF NTypeOK, Overlooked
<1>3. Kept(c)' = Kept(c) /\ Pending(c)' = Pending(c)
  BY <1>1 DEF Kept, Pending
<1>4. CASE Rejoin(n, c)
  <2>1. /\ n \in splitUsers[c] /\ splitUsers' = [splitUsers EXCEPT ![c] = @ \ {n}]
        /\ timeouts' = timeouts \cup {c} /\ UNCHANGED requests
    BY <1>4 DEF Rejoin
  <2>2. NTypeOK'
    BY <1>1, <1>2, <2>1 DEF NTypeOK
  <2>3. FollowsAt(c, n)'
    <3>1. n \notin splitUsers'[c]
      BY <1>1, <2>1 DEF NTypeOK
    <3>2. WillBeShown(c, n)' <=> WillBeShown(c, n)
      BY <1>1, <2>1, SameWill
    <3>. QED  BY <1>1, <1>2, <1>3, <2>1, <3>1, <3>2 DEF FollowsAt
  <2>4. ASSUME NEW d \in Channels, NEW m \in Nicks, d # c \/ m # n
        PROVE  FollowsAt(d, m)'
    <3>1. m \in splitUsers'[d] <=> m \in splitUsers[d]
      BY <1>1, <2>1, <2>4 DEF NTypeOK
    <3>. QED  BY <1>1, <1>2, <2>1, <2>4, <3>1, Unconcerned
  <2>. QED  BY <1>1, <2>1, <2>2, <2>3, <2>4, StepAside
<1>5. CASE FirstJoin(n, c)
  <2>1. /\ n \notin splitUsers[c] /\ UNCHANGED <<splitUsers, timeouts>>
        /\ requests' = [requests EXCEPT ![c][n] = Append(@, Ask("join", 0))]
    BY <1>5 DEF FirstJoin
  <2>2. /\ requests' \in ReqType
        /\ requests'[c][n] = Append(requests[c][n], Ask("join", 0))
        /\ \A d \in Channels, m \in Nicks : d # c \/ m # n => requests'[d][m] = requests[d][m]
    BY <1>1, <2>1, AskType, Appended DEF NTypeOK, ReqType
  <2>3. NTypeOK'
    BY <1>1, <1>2, <2>1, <2>2 DEF NTypeOK, ReqType
  <2>4. FollowsAt(c, n)'
    <3>1. WillBeShown(c, n)'
      BY <1>1, <2>2, AskedWill
    <3>. QED  BY <1>1, <1>2, <1>3, <2>1, <3>1 DEF FollowsAt
  <2>5. ASSUME NEW d \in Channels, NEW m \in Nicks, d # c \/ m # n
        PROVE  FollowsAt(d, m)'
    <3>1. requests'[d][m] = requests[d][m] /\ splitUsers' = splitUsers
      BY <2>1, <2>2, <2>5
    <3>2. FollowsAt(d, m) /\ UNCHANGED <<batches, shown>>
      BY <1>1
    <3>3. (m \in on'[d] <=> m \in on[d]) /\ (m \in unnoticed'[d] <=> m \in unnoticed[d])
      BY <1>2, <2>5
    <3>. QED  BY <3>1, <3>2, <3>3, Unconcerned
  <2>6. \A d \in Channels, m \in Nicks :
           \/ requests'[d][m] = requests[d][m]
           \/ \E w \in {"join", "leave"} : requests'[d][m] = Append(requests[d][m], Ask(w, 0))
    BY <2>2
  <2>. QED  BY <1>1, <2>3, <2>4, <2>5, <2>6, StepAside
<1>. QED  BY <1>4, <1>5 DEF Join

LEMMA PartNInv == ASSUME NInv, NEW n \in Nicks, NEW c \in Channels, Part(n, c) PROVE NInv'
<1>1. /\ NTypeOK /\ \A d \in Channels, m \in Nicks : FollowsAt(d, m)
      /\ n \in on[c] /\ on' = [on EXCEPT ![c] = @ \ {n}]
      /\ requests' = [requests EXCEPT ![c][n] = Append(@, Ask("leave", 0))]
      /\ UNCHANGED <<recent, splitUsers, timeouts, batches, shown, unnoticed>>
  BY Locally DEF NInv, Part, debouncer
<1>2. /\ on' \in [Channels -> SUBSET Nicks] /\ n \notin on'[c]
      /\ \A d \in Channels, m \in Nicks : d # c \/ m # n => (m \in on'[d] <=> m \in on[d])
  BY <1>1 DEF NTypeOK
<1>3. /\ requests' \in ReqType
      /\ requests'[c][n] = Append(requests[c][n], Ask("leave", 0))
      /\ \A d \in Channels, m \in Nicks : d # c \/ m # n => requests'[d][m] = requests[d][m]
  BY <1>1, AskType, Appended DEF NTypeOK, ReqType
<1>4. NTypeOK'
  BY <1>1, <1>2, <1>3 DEF NTypeOK, ReqType
<1>5. FollowsAt(c, n)'
  <2>1. ~WillBeShown(c, n)'
    BY <1>1, <1>3, AskedWill
  <2>2. Kept(c)' = Kept(c) /\ Pending(c)' = Pending(c)
    BY <1>1 DEF Kept, Pending
  <2>. QED  BY <1>1, <1>2, <2>1, <2>2 DEF FollowsAt
<1>6. ASSUME NEW d \in Channels, NEW m \in Nicks, d # c \/ m # n
      PROVE  FollowsAt(d, m)'
  BY <1>1, <1>2, <1>3, <1>6, Unconcerned
<1>7. \A d \in Channels, m \in Nicks :
         \/ requests'[d][m] = requests[d][m]
         \/ \E w \in {"join", "leave"} : requests'[d][m] = Append(requests[d][m], Ask(w, 0))
  BY <1>3
<1>. QED  BY <1>1, <1>4, <1>5, <1>6, <1>7, StepAside

LEMMA RenameNInv == ASSUME NInv, NEW n \in Nicks, NEW m \in Nicks, Rename(n, m) PROVE NInv'
<1>. DEFINE old(d, x) == d \in In(n) /\ x = n
            new(d, x) == d \in In(n) /\ x = m
<1>1. /\ NTypeOK /\ \A d \in Channels, x \in Nicks : FollowsAt(d, x)
      /\ n # m
      /\ on' = [c \in Channels |-> IF c \in In(n) THEN (on[c] \ {n}) \cup {m} ELSE on[c]]
      /\ requests' = [c \in Channels |->
                        IF c \in In(n)
                        THEN [requests[c] EXCEPT ![n] = Append(@, Ask("leave", 0)),
                                                 ![m] = Append(@, Ask("join", 0))]
                        ELSE requests[c]]
      /\ unnoticed' = [c \in Channels |->
                         IF c \in In(n)
                         THEN Overlooked(unnoticed[c], {m}, {m} \cap (splitUsers[c] \cup Kept(c)))
                         ELSE unnoticed[c]]
      /\ UNCHANGED <<recent, splitUsers, timeouts, batches, shown>>
  BY Locally DEF NInv, Rename, debouncer
<1>2. \A c \in Channels : c \in In(n) => n \in on[c]
  BY DEF In
<1>3. /\ on' \in [Channels -> SUBSET Nicks] /\ unnoticed' \in [Channels -> SUBSET Nicks]
      /\ \A d \in Channels, x \in Nicks :
           /\ ~old(d, x) /\ ~new(d, x) =>
                (x \in on'[d] <=> x \in on[d]) /\ (x \in unnoticed'[d] <=> x \in unnoticed[d])
           /\ old(d, x) => x \notin on'[d] /\ (x \in unnoticed'[d] <=> x \in unnoticed[d])
           /\ new(d, x) =>
                x \in on'[d] /\ (x \in unnoticed'[d] <=> x \in splitUsers[d] \/ x \in Kept(d))
  BY <1>1 DEF NTypeOK, Overlooked
<1>4. /\ requests' \in ReqType
      /\ \A d \in Channels, x \in Nicks :
           /\ ~old(d, x) /\ ~new(d, x) => requests'[d][x] = requests[d][x]
           /\ old(d, x) => requests'[d][x] = Append(requests[d][x], Ask("leave", 0))
           /\ new(d, x) => requests'[d][x] = Append(requests[d][x], Ask("join", 0))
  <2>1. requests \in ReqType
    BY <1>1 DEF NTypeOK, ReqType
  <2>2. ASSUME NEW d \in Channels
        PROVE  /\ requests'[d] \in [Nicks -> Seq(Request)]
               /\ \A x \in Nicks :
                    /\ ~old(d, x) /\ ~new(d, x) => requests'[d][x] = requests[d][x]
                    /\ old(d, x) => requests'[d][x] = Append(requests[d][x], Ask("leave", 0))
                    /\ new(d, x) => requests'[d][x] = Append(requests[d][x], Ask("join", 0))
    <3>1. requests[d] \in [Nicks -> Seq(Request)]
      BY <2>1 DEF ReqType
    <3>2. CASE d \in In(n)
      <4>1. requests'[d] = [requests[d] EXCEPT ![n] = Append(@, Ask("leave", 0)),
                                               ![m] = Append(@, Ask("join", 0))]
        BY <1>1, <3>2
      <4>2. /\ Append(requests[d][n], Ask("leave", 0)) \in Seq(Request)
            /\ Append(requests[d][m], Ask("join", 0)) \in Seq(Request)
        BY <3>1, AskType, Appended
      <4>3. \A x \in Nicks :
              /\ x # n /\ x # m => requests'[d][x] = requests[d][x]
              /\ x = n => requests'[d][x] = Append(requests[d][x], Ask("leave", 0))
              /\ x = m => requests'[d][x] = Append(requests[d][x], Ask("join", 0))
        BY <1>1, <3>1, <4>1
      <4>4. requests'[d] \in [Nicks -> Seq(Request)]
        BY <3>1, <4>1, <4>2
      <4>. QED  BY <3>2, <4>3, <4>4
    <3>3. CASE d \notin In(n)
      BY <1>1, <3>1, <3>3
    <3>. QED  BY <3>2, <3>3
  <2>3. requests' = [d \in Channels |-> requests'[d]]
    BY <1>1
  <2>4. requests' \in ReqType
    BY <2>2, <2>3 DEF ReqType
  <2>. QED  BY <2>2, <2>4
<1>5. NTypeOK'
  BY <1>1, <1>3, <1>4 DEF NTypeOK, ReqType
<1>6. ASSUME NEW d \in Channels, NEW x \in Nicks
      PROVE  FollowsAt(d, x)'
  <2>1. Kept(d)' = Kept(d) /\ Pending(d)' = Pending(d) /\ splitUsers' = splitUsers
    BY <1>1 DEF Kept, Pending
  <2>2. CASE old(d, x)
    <3>1. ~WillBeShown(d, x)'
      BY <1>1, <1>4, <2>2, AskedWill
    <3>2. x \in on[d] /\ x \notin on'[d] /\ (x \in unnoticed'[d] <=> x \in unnoticed[d])
      BY <1>2, <1>3, <2>2
    <3>. QED  BY <1>1, <2>1, <3>1, <3>2 DEF FollowsAt
  <2>3. CASE new(d, x)
    <3>1. WillBeShown(d, x)'
      BY <1>1, <1>4, <2>3, AskedWill
    <3>2. x \in on'[d] /\ (x \in unnoticed'[d] <=> x \in splitUsers[d] \/ x \in Kept(d))
      BY <1>3, <2>3
    <3>. QED  BY <2>1, <3>1, <3>2 DEF FollowsAt
  <2>4. CASE ~old(d, x) /\ ~new(d, x)
    <3>1. requests'[d][x] = requests[d][x]
      BY <1>4, <2>4
    <3>2. (x \in on'[d] <=> x \in on[d]) /\ (x \in unnoticed'[d] <=> x \in unnoticed[d])
      BY <1>3, <2>4
    <3>. QED  BY <1>1, <3>1, <3>2, Unconcerned
  <2>. QED  BY <2>2, <2>3, <2>4
<1>7. \A d \in Channels, x \in Nicks :
         \/ requests'[d][x] = requests[d][x]
         \/ \E w \in {"join", "leave"} : requests'[d][x] = Append(requests[d][x], Ask(w, 0))
  BY <1>4
<1>. QED  BY <1>1, <1>5, <1>6, <1>7, StepAside

LEMMA ExpireNInv == ASSUME NInv, NEW c \in Channels, Expire(c) PROVE NInv'
<1>1. /\ NTypeOK /\ BatchesSound /\ Follows
      /\ LinkedIn(requests, batches) /\ OnceIn(requests) /\ requests \in ReqType
      /\ timeouts' = timeouts \ {c} /\ splitUsers' = [splitUsers EXCEPT ![c] = {}]
      /\ UNCHANGED <<on, recent, shown, unnoticed>>
  BY DEF NInv, Expire, NTypeOK, ReqType
<1>2. PICK i \in Ids : batches[i] = NoBatch /\ Advance(requests, i, c, splitUsers[c])
  BY DEF Expire
<1>3. ASSUME NEW d \in Channels, NEW m \in Nicks, NEW k \in DOMAIN requests[d][m],
             requests[d][m][k].batch = i
      PROVE  FALSE
  <2>1. i # 0
    BY DEF Ids
  <2>2. batches[i].chan = d
    BY <1>1, <1>3, <2>1 DEF LinkedIn
  <2>. QED  BY <1>2, <2>2, NetsplitAssumption DEF NoBatch
<1>4. splitUsers[c] \in SUBSET Nicks
  BY <1>1 DEF NTypeOK
<1>5. /\ batches' \in [Ids -> Batch] /\ BatchesSound'
      /\ requests' \in ReqType /\ LinkedIn(requests', batches') /\ OnceIn(requests')
      /\ \A j \in Ids \ {i} : batches'[j] = batches[j]
      /\ \A d \in Channels, m \in Nicks :
           \/ requests'[d][m] = requests[d][m]
           \/ d = c /\ m \in splitUsers[c] /\ AskedBy(requests, i, c, m)
      /\ \/ batches'[i] = NoBatch /\ splitUsers[c] = {}
         \/ \E n \in splitUsers[c] :
              /\ batches'[i] = [chan |-> c, nicks |-> splitUsers[c], current |-> n]
              /\ AskedBy(requests, i, c, n)
  <2>1. NoneOf(requests, i)
    BY <1>3 DEF NoneOf
  <2>2. Advance(requests, i, c, splitUsers[c])
    BY <1>2
  <2>. QED  BY <1>1, <1>4, <2>1, <2>2, AdvanceRequests
<1>6. \A d \in Channels, m \in Nicks : Will(requests, shown', d, m) <=> WillBeShown(d, m)
  BY <1>1 DEF Will, WillBeShown
<1>7. Follows'
  BY <1>1, <1>2, <1>4, <1>5, <1>6, AdvanceFollows
<1>8. NTypeOK'
  BY <1>1, <1>5 DEF NTypeOK, ReqType
<1>. QED  BY <1>5, <1>7, <1>8 DEF NInv

LEMMA DoneNInv == ASSUME NInv, NEW c \in Channels, NEW n \in Nicks, Done(c, n) PROVE NInv'
<1>. DEFINE r == Head(requests[c][n])
            rest == Taken(requests, c, n)
<1>1. /\ NTypeOK /\ BatchesSound /\ Follows
      /\ LinkedIn(requests, batches) /\ OnceIn(requests) /\ requests \in ReqType
      /\ requests[c][n] # <<>> /\ requests[c][n] \in Seq(Request)
      /\ shown' = [shown EXCEPT ![c] = IF r.what = "join" THEN @ \cup {n} ELSE @ \ {n}]
      /\ UNCHANGED <<on, recent, splitUsers, timeouts, unnoticed>>
  BY DEF NInv, Done, debouncer, NTypeOK, ReqType
<1>2. /\ r \in Request /\ r = requests[c][n][1] /\ 1 \in DOMAIN requests[c][n]
  BY <1>1, Dequeued
<1>3. /\ rest \in ReqType /\ LinkedIn(rest, batches) /\ OnceIn(rest)
      /\ r.batch # 0 => NoneOf(rest, r.batch)
  BY <1>1, DoneTakes
<1>4. shown' \in [Channels -> SUBSET Nicks]
  BY <1>1 DEF NTypeOK
<1>5. \A d \in Channels, m \in Nicks : Will(rest, shown', d, m) <=> WillBeShown(d, m)
  <2>1. /\ rest[c][n] = Tail(requests[c][n])
        /\ \A d \in Channels, m \in Nicks : d # c \/ m # n =>
             rest[d][m] = requests[d][m] /\ (m \in shown'[d] <=> m \in shown[d])
        /\ n \in shown'[c] <=> r.what = "join"
    BY <1>1 DEF NTypeOK, ReqType, Taken
  <2>2. ASSUME NEW d \in Channels, NEW m \in Nicks, d # c \/ m # n
        PROVE  Will(rest, shown', d, m) <=> WillBeShown(d, m)
    BY <2>1, <2>2 DEF Will, WillBeShown
  <2>3. Will(rest, shown', c, n) <=> WillBeShown(c, n)
    <3>1. CASE Tail(requests[c][n]) = <<>>
      <4>1. Last(requests[c][n]) = r
        BY <1>1, <3>1, Dequeued
      <4>. QED  BY <1>1, <2>1, <3>1, <4>1 DEF Will, WillBeShown
    <3>2. CASE Tail(requests[c][n]) # <<>>
      <4>1. Last(requests[c][n]) = Last(Tail(requests[c][n]))
        BY <1>1, <3>2, Dequeued
      <4>. QED  BY <1>1, <2>1, <3>2, <4>1 DEF Will, WillBeShown
    <3>. QED  BY <3>1, <3>2
  <2>. QED  BY <2>2, <2>3
<1>6. CASE r.batch = 0
  <2>1. requests' = rest /\ UNCHANGED batches
    BY <1>6 DEF Done, Taken
  <2>2. NTypeOK'
    BY <1>1, <1>3, <1>4, <2>1 DEF NTypeOK, ReqType
  <2>3. BatchesSound' /\ LinkedIn(requests', batches') /\ OnceIn(requests')
    BY <1>1, <1>3, <2>1 DEF BatchesSound
  <2>4. \A d \in Channels, m \in Nicks : WillBeShown(d, m)' <=> WillBeShown(d, m)
    BY <1>5, <2>1 DEF Will, WillBeShown
  <2>5. \A d \in Channels : Kept(d)' = Kept(d) /\ Pending(d)' = Pending(d)
    BY <2>1 DEF Kept, Pending
  <2>6. Follows'
    BY <1>1, <2>4, <2>5 DEF Follows, KeptAway, KeptOnce, NotAsked, Here, Gone
  <2>. QED  BY <2>2, <2>3, <2>6 DEF NInv
<1>7. CASE r.batch # 0
  <2>. DEFINE i == r.batch
              left == batches[i].nicks \ {n}
  <2>1. /\ Advance(rest, i, c, left)
        /\ i \in Ids
    BY <1>2, <1>7, NetsplitAssumption DEF Done, Request, Ids, Taken
  <2>2. batches[i].chan = c /\ batches[i].current = n
    BY <1>1, <1>2, <1>7 DEF LinkedIn
  <2>3. LeftOf(batches[i]) = left
    BY <2>2 DEF LeftOf
  <2>4. left \in SUBSET Nicks
    <3>1. batches[i] \in Batch
      BY <1>1, <2>1 DEF NTypeOK
    <3>. QED  BY <3>1 DEF Batch
  <2>5. left \subseteq Kept(c)
    BY <2>1, <2>2, Members
  <2>. HIDE DEF i, left, rest
  <2>6. NoneOf(rest, i)
    BY <1>3, <1>7 DEF i
  <2>7. /\ batches' \in [Ids -> Batch] /\ BatchesSound'
        /\ requests' \in ReqType /\ LinkedIn(requests', batches') /\ OnceIn(requests')
        /\ \A j \in Ids \ {i} : batches'[j] = batches[j]
        /\ \A d \in Channels, m \in Nicks :
             requests'[d][m] = rest[d][m] \/ (d = c /\ m \in left /\ AskedBy(rest, i, c, m))
        /\ \/ batches'[i] = NoBatch /\ left = {}
           \/ \E x \in left : /\ batches'[i] = [chan |-> c, nicks |-> left, current |-> x]
                              /\ AskedBy(rest, i, c, x)
    BY <1>1, <1>3, <2>1, <2>4, <2>6, AdvanceRequests
  <2>8. Follows'
    <3>1. /\ NTypeOK /\ BatchesSound /\ Follows
          /\ UNCHANGED <<on, unnoticed>> /\ rest \in ReqType /\ i \in Ids
          /\ left \subseteq Kept(c) /\ UNCHANGED splitUsers
          /\ batches[i].chan = c /\ LeftOf(batches[i]) = left
      BY <1>1, <1>3, <2>1, <2>2, <2>3, <2>5
    <3>. QED  BY <1>5, <2>4, <2>7, <3>1, AdvanceFollows
  <2>9. NTypeOK'
    BY <1>1, <1>4, <2>7 DEF NTypeOK, ReqType
  <2>. QED  BY <2>7, <2>8, <2>9 DEF NInv
<1>. QED  BY <1>6, <1>7
------------------------------------------------------------------------------
LEMMA NextNInv == NInv /\ [Next]_vars => NInv'
<1>. SUFFICES ASSUME NInv, [Next]_vars PROVE NInv'
  OBVIOUS
<1>1. ASSUME NEW n \in Nicks, Quit(n) PROVE NInv'
  BY <1>1, QuitNInv
<1>2. CASE Elapse
  BY <1>2, ElapseNInv
<1>3. ASSUME NEW n \in Nicks, NEW c \in Channels, Join(n, c) \/ Part(n, c) \/ Done(c, n)
      PROVE  NInv'
  BY <1>3, JoinNInv, PartNInv, DoneNInv
<1>4. ASSUME NEW n \in Nicks, NEW m \in Nicks, Rename(n, m) PROVE NInv'
  BY <1>4, RenameNInv
<1>5. ASSUME NEW c \in Channels, Expire(c) PROVE NInv'
  BY <1>5, ExpireNInv
<1>6. CASE UNCHANGED vars
  BY <1>6 DEF vars, debouncer, NInv, NTypeOK, BatchesSound, Follows, KeptAway, KeptOnce,
              NotAsked, Here, Gone, Kept, Pending, WillBeShown, LinkedIn, OnceIn
<1>. QED  BY <1>1, <1>2, <1>3, <1>4, <1>5, <1>6 DEF Next

\* Users of a batch whose leave has not been asked for are users of the batch.
LEMMA NInvFollows == NInv => RoomFollows
<1>. SUFFICES ASSUME NInv, NEW c \in Channels, NEW n \in Nicks
              PROVE  /\ n \in on[c] /\ n \notin unnoticed[c] => WillBeShown(c, n)
                     /\ n \notin on[c] \cup splitUsers[c] \cup Kept(c) => ~WillBeShown(c, n)
  BY DEF RoomFollows
<1>1. n \in Pending(c) => n \in Kept(c)
  BY Members DEF LeftOf
<1>. QED  BY <1>1 DEF NInv, Follows, Here, Gone

LEMMA SpecNInv == Spec => []NInv
BY InitNInv, NextNInv, PTL DEF Spec

(***************************************************************************)
(* The variables keep their types: in particular every call of             *)
(* handleDebouncedQuit that is under way is at one of its users.           *)
(***************************************************************************)
THEOREM NetsplitTypeCorrect == Spec => []TypeOK
<1>1. NInv => TypeOK
  BY DEF NInv, NTypeOK, BatchesSound, TypeOK, Batch, Request, Ids
<1>. QED  BY <1>1, SpecNInv, PTL

(***************************************************************************)
(* For any number of users, channels, requests and calls, and any rate of  *)
(* quits, room members follow channel members: QuitDebouncer never takes a *)
(* user out of a room, or leaves one in it, but in the ways RoomFollows    *)
(* names.                                                                  *)
(***************************************************************************)
THEOREM NetsplitRoomFollows == Spec => []RoomFollows
BY SpecNInv, NInvFollows, PTL
==============================================================================
