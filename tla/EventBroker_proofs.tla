------------------------- MODULE EventBroker_proofs -------------------------
(***************************************************************************)
(* What EventBroker guarantees for any number of clients, nicks and lines: *)
(* a line is passed on once by the clients that keep connection and nick,  *)
(* a line left to a client that has it to read is not lost, and the        *)
(* messages of a channel start in order.                                   *)
(***************************************************************************)
EXTENDS EventBroker, TLAPS

\* Types, and what the network guarantees of nicks.
BTypeOK ==
  /\ botEnabled \in BOOLEAN /\ alive \subseteq Clients
  /\ nick \in [Clients -> Nicks \cup {NoNick}]
  /\ \A c, d \in alive : nick[c] = nick[d] => c = d
  /\ \A c \in alive : nick[c] # NoNick
  /\ texts \in Seq(Texts) /\ Len(texts) <= MaxLines
  /\ inbox \in [Clients -> Seq(Nat)]
  /\ processed \in [Texts -> Nicks \cup {NoNick}]
  /\ passers \in [Lines -> SUBSET Clients] /\ passed \subseteq Lines

\* A client is sent a line once, and only lines that exist.
Distinct ==
  \A c \in Clients : \A i \in DOMAIN inbox[c] :
    /\ inbox[c][i] \in 1..Len(texts)
    /\ \A j \in DOMAIN inbox[c] : i < j => inbox[c][i] < inbox[c][j]

\* Whoever passed a line on, and kept connection and nick, has read it and, without
\* a bot, still owns its text while there are copies of it to be read.
Owned ==
  \A l \in Lines : \A c \in passers[l] :
    /\ c \in alive /\ l \in 1..Len(texts) /\ l \in passed
    /\ ~InboxHas(c, l)
    /\ botEnabled => c = Bot
    /\ ~botEnabled => \/ processed[texts[l]] = nick[c]
                      \/ \A d \in Clients : ~InboxHas(d, l)

BInv == BTypeOK /\ Distinct /\ Owned /\ AtMostOnce
------------------------------------------------------------------------------
\* What is in the inbox of a client after it read a line.
LEMMA TailHas ==
  ASSUME NEW s \in Seq(Nat), s # <<>>
  PROVE  /\ Tail(s) \in Seq(Nat) /\ Head(s) = s[1] /\ 1 \in DOMAIN s
         /\ \A i \in DOMAIN Tail(s) : i + 1 \in DOMAIN s /\ Tail(s)[i] = s[i + 1]
         /\ Range(Tail(s)) \subseteq Range(s) /\ Head(s) \in Range(s)
BY DEF Range

LEMMA AppendHas ==
  ASSUME NEW s \in Seq(Nat), NEW l \in Nat
  PROVE  /\ Append(s, l) \in Seq(Nat)
         /\ \A i \in DOMAIN Append(s, l) :
              \/ i \in DOMAIN s /\ Append(s, l)[i] = s[i]
              \/ i = Len(s) + 1 /\ Append(s, l)[i] = l
         /\ Range(Append(s, l)) = Range(s) \cup {l}
<1>1. \A i \in DOMAIN Append(s, l) :
         \/ i \in DOMAIN s /\ Append(s, l)[i] = s[i]
         \/ i = Len(s) + 1 /\ Append(s, l)[i] = l
  OBVIOUS
<1>2. \A i \in DOMAIN s : i \in DOMAIN Append(s, l) /\ Append(s, l)[i] = s[i]
  OBVIOUS
<1>3. Len(s) + 1 \in DOMAIN Append(s, l) /\ Append(s, l)[Len(s) + 1] = l
  OBVIOUS
<1>. QED  BY <1>1, <1>2, <1>3 DEF Range

LEMMA InitBInv == Init => BInv
<1>. SUFFICES ASSUME Init PROVE BInv
  OBVIOUS
<1>1. BTypeOK
  BY BrokerAssumption DEF Init, BTypeOK
<1>2. Distinct
  BY DEF Init, Distinct
<1>3. Owned /\ AtMostOnce
  BY DEF Init, Owned, AtMostOnce
<1>. QED  BY <1>1, <1>2, <1>3 DEF BInv

LEMMA SendStep ==
  ASSUME BInv, NEW t \in Texts, NEW inChannel \in SUBSET alive, Send(t, inChannel)
  PROVE  BInv'
<1>. DEFINE new == Len(texts) + 1
<1>1. /\ texts \in Seq(Texts) /\ texts' = Append(texts, t) /\ Len(texts') = new
      /\ new \in Nat /\ new <= MaxLines /\ MaxLines \in Nat
      /\ \A l \in 1..Len(texts) : texts'[l] = texts[l]
  BY BrokerAssumption DEF BInv, BTypeOK, Send
<1>2. /\ inbox \in [Clients -> Seq(Nat)]
      /\ \A c \in Clients : inbox'[c] = IF c \in inChannel THEN Append(inbox[c], new) ELSE inbox[c]
      /\ inbox' \in [Clients -> Seq(Nat)]
  BY <1>1 DEF BInv, BTypeOK, Send
<1>3. UNCHANGED <<botEnabled, alive, nick, processed, passed, passers>>
  BY DEF Send
<1>4. BTypeOK'
  BY <1>1, <1>2, <1>3 DEF BInv, BTypeOK
<1>5. Distinct'
  <2>. SUFFICES ASSUME NEW c \in Clients, NEW i \in DOMAIN inbox'[c]
                PROVE  /\ inbox'[c][i] \in 1..Len(texts')
                       /\ \A j \in DOMAIN inbox'[c] : i < j => inbox'[c][i] < inbox'[c][j]
    BY DEF Distinct
  <2>1. CASE c \notin inChannel
    BY <1>1, <1>2, <2>1 DEF BInv, Distinct
  <2>2. CASE c \in inChannel
    <3>1. inbox[c] \in Seq(Nat) /\ inbox'[c] = Append(inbox[c], new)
      BY <1>2, <2>2
    <3>2. \A j \in DOMAIN inbox'[c] : \/ j \in DOMAIN inbox[c] /\ inbox'[c][j] = inbox[c][j]
                                      \/ j = Len(inbox[c]) + 1 /\ inbox'[c][j] = new
      BY <1>1, <3>1, AppendHas
    <3>. QED  BY <1>1, <3>1, <3>2 DEF BInv, Distinct
  <2>. QED  BY <2>1, <2>2
<1>6. Owned'
  <2>. SUFFICES ASSUME NEW l \in Lines, NEW c \in passers[l]
                PROVE  /\ c \in alive /\ l \in 1..Len(texts') /\ l \in passed
                       /\ ~InboxHas(c, l)'
                       /\ botEnabled => c = Bot
                       /\ ~botEnabled => \/ processed[texts'[l]] = nick[c]
                                         \/ \A d \in Clients : ~InboxHas(d, l)'
    BY <1>3 DEF Owned
  <2>1. /\ c \in alive /\ l \in 1..Len(texts) /\ l \in passed /\ ~InboxHas(c, l)
        /\ botEnabled => c = Bot
        /\ ~botEnabled => processed[texts[l]] = nick[c] \/ \A d \in Clients : ~InboxHas(d, l)
    BY DEF BInv, Owned
  <2>2. c \in Clients
    BY <2>1 DEF BInv, BTypeOK
  <2>3. \A d \in Clients : InboxHas(d, l)' => InboxHas(d, l)
    <3>1. ASSUME NEW d \in Clients PROVE Range(inbox'[d]) \subseteq Range(inbox[d]) \cup {new}
      <4>1. inbox[d] \in Seq(Nat) /\ new \in Nat
        BY <1>1, <1>2
      <4>2. Range(Append(inbox[d], new)) = Range(inbox[d]) \cup {new}
        BY <4>1, AppendHas
      <4>. QED  BY <1>2, <4>2
    <3>2. l # new
      BY <1>1, <2>1
    <3>. QED  BY <3>1, <3>2 DEF InboxHas
  <2>. QED  BY <1>1, <2>1, <2>2, <2>3
<1>7. AtMostOnce'
  BY <1>3 DEF BInv, AtMostOnce
<1>. QED  BY <1>4, <1>5, <1>6, <1>7 DEF BInv

\* A client that reads a line no longer has it, and others keep what they have.
LEMMA ReadInbox ==
  ASSUME BInv, NEW c \in Clients, Read(c)
  PROVE  /\ inbox' \in [Clients -> Seq(Nat)] /\ Distinct'
         /\ Head(inbox[c]) \in Lines /\ Head(inbox[c]) \in 1..Len(texts)
         /\ InboxHas(c, Head(inbox[c]))
         /\ \A l \in Nat : l = Head(inbox[c]) => ~InboxHas(c, l)'
         /\ \A d \in Clients, l \in Nat : InboxHas(d, l)' => InboxHas(d, l)
<1>1. /\ inbox \in [Clients -> Seq(Nat)] /\ inbox[c] \in Seq(Nat) /\ inbox[c] # <<>>
      /\ inbox' = [inbox EXCEPT ![c] = Tail(@)] /\ texts' = texts
      /\ texts \in Seq(Texts) /\ Len(texts) <= MaxLines /\ MaxLines \in Nat
  BY BrokerAssumption DEF BInv, BTypeOK, Read
<1>2. /\ Tail(inbox[c]) \in Seq(Nat) /\ Head(inbox[c]) = inbox[c][1] /\ 1 \in DOMAIN inbox[c]
      /\ \A i \in DOMAIN Tail(inbox[c]) : /\ i + 1 \in DOMAIN inbox[c]
                                          /\ Tail(inbox[c])[i] = inbox[c][i + 1]
      /\ Range(Tail(inbox[c])) \subseteq Range(inbox[c])
      /\ Head(inbox[c]) \in Range(inbox[c])
  BY <1>1, TailHas
<1>3. /\ inbox' \in [Clients -> Seq(Nat)] /\ inbox'[c] = Tail(inbox[c])
      /\ \A d \in Clients : d # c => inbox'[d] = inbox[d]
  BY <1>1, <1>2
<1>4. /\ Head(inbox[c]) \in 1..Len(texts) /\ Head(inbox[c]) \in Lines
      /\ InboxHas(c, Head(inbox[c]))
  BY <1>1, <1>2 DEF BInv, Distinct, InboxHas, Lines
<1>5. Distinct'
  <2>. SUFFICES ASSUME NEW d \in Clients, NEW i \in DOMAIN inbox'[d]
                PROVE  /\ inbox'[d][i] \in 1..Len(texts)
                       /\ \A j \in DOMAIN inbox'[d] : i < j => inbox'[d][i] < inbox'[d][j]
    BY <1>1 DEF Distinct
  <2>1. CASE d # c
    BY <1>3, <2>1 DEF BInv, Distinct
  <2>2. CASE d = c
    <3>1. DOMAIN inbox'[c] \subseteq Nat
      BY <1>2, <1>3
    <3>2. i + 1 \in DOMAIN inbox[c] /\ inbox'[c][i] = inbox[c][i + 1]
      BY <1>2, <1>3, <2>2
    <3>3. inbox[c][i + 1] \in 1..Len(texts)
      BY <3>2 DEF BInv, Distinct
    <3>4. ASSUME NEW j \in DOMAIN inbox'[c], i < j PROVE inbox'[c][i] < inbox'[c][j]
      <4>1. j + 1 \in DOMAIN inbox[c] /\ inbox'[c][j] = inbox[c][j + 1]
        BY <1>2, <1>3
      <4>2. i + 1 < j + 1
        BY <2>2, <3>1, <3>4
      <4>. QED  BY <3>2, <4>1, <4>2 DEF BInv, Distinct
    <3>. QED  BY <2>2, <3>2, <3>3, <3>4
  <2>. QED  BY <2>1, <2>2
<1>6. \A l \in Nat : l = Head(inbox[c]) => ~InboxHas(c, l)'
  <2>1. \A i \in DOMAIN Tail(inbox[c]) : Tail(inbox[c])[i] > Head(inbox[c])
    <3>1. DOMAIN Tail(inbox[c]) \subseteq Nat \ {0}
      BY <1>2
    <3>. SUFFICES ASSUME NEW i \in DOMAIN Tail(inbox[c])
                  PROVE  Tail(inbox[c])[i] > Head(inbox[c])
      OBVIOUS
    <3>2. i + 1 \in DOMAIN inbox[c] /\ 1 < i + 1 /\ Tail(inbox[c])[i] = inbox[c][i + 1]
      BY <1>2, <3>1
    <3>3. inbox[c][1] < inbox[c][i + 1] /\ inbox[c][1] \in Nat /\ inbox[c][i + 1] \in Nat
      BY <1>1, <1>2, <3>2 DEF BInv, Distinct
    <3>. QED  BY <1>2, <3>2, <3>3
  <2>2. Head(inbox[c]) \in Nat /\ inbox' [c] = Tail(inbox[c])
    BY <1>3, <1>4
  <2>3. Head(inbox[c]) \notin Range(Tail(inbox[c]))
    BY <2>1, <2>2 DEF Range
  <2>. QED  BY <2>2, <2>3 DEF InboxHas
<1>7. \A d \in Clients, l \in Nat : InboxHas(d, l)' => InboxHas(d, l)
  BY <1>2, <1>3 DEF InboxHas
<1>. QED  BY <1>3, <1>4, <1>5, <1>6, <1>7

LEMMA ReadStep == ASSUME BInv, NEW c \in Clients, Read(c) PROVE BInv'
<1>. DEFINE l == Head(inbox[c])
            t == texts[l]
<1>1. /\ inbox' \in [Clients -> Seq(Nat)] /\ Distinct' /\ l \in Lines /\ l \in 1..Len(texts)
      /\ l \in Nat /\ InboxHas(c, l)
      /\ \A k \in Nat : k = l => ~InboxHas(c, k)'
      /\ \A d \in Clients, k \in Nat : InboxHas(d, k)' => InboxHas(d, k)
  BY ReadInbox
<1>2. /\ UNCHANGED <<botEnabled, alive, nick, texts>> /\ t \in Texts /\ c \in alive
      /\ nick[c] \in Nicks /\ texts \in Seq(Texts)
  BY <1>1 DEF BInv, BTypeOK, Read
<1>3. CASE Handles(c, t)
  <2>1. /\ processed' = IF botEnabled THEN processed ELSE Claimed(c, t)
        /\ passed' = passed \cup {l}
        /\ passers' = [passers EXCEPT ![l] = @ \cup {c}]
    BY <1>3 DEF Read
  <2>2. BTypeOK'
    BY <1>1, <1>2, <2>1 DEF BInv, BTypeOK, Claimed
  <2>3. \A k \in Lines : passers'[k] = IF k = l THEN passers[l] \cup {c} ELSE passers[k]
    BY <1>1, <2>1 DEF BInv, BTypeOK
  <2>4. \A k \in Lines : \A d \in passers[k] :
          /\ d \in alive /\ d \in Clients /\ k \in 1..Len(texts) /\ k \in passed
          /\ ~InboxHas(d, k) /\ (botEnabled => d = Bot)
          /\ ~botEnabled => \/ processed[texts[k]] = nick[d]
                            \/ \A e \in Clients : ~InboxHas(e, k)
    BY DEF BInv, BTypeOK, Owned
  <2>5. passers[l] = {}
    <3>. SUFFICES ASSUME NEW d \in passers[l] PROVE FALSE
      OBVIOUS
    <3>1. d # c
      BY <1>1, <2>4
    <3>2. CASE botEnabled
      BY <1>1, <1>3, <2>4, <3>1, <3>2 DEF Handles
    <3>3. CASE ~botEnabled
      <4>1. processed[t] = nick[d] /\ d \in alive
        BY <1>1, <2>4, <3>3
      <4>2. nick[d] # nick[c] /\ nick[d] # NoNick /\ d \in Owners(nick[d])
        BY <1>2, <3>1, <4>1 DEF BInv, BTypeOK, Owners
      <4>. QED  BY <1>3, <3>3, <4>1, <4>2 DEF Handles, Claims
    <3>. QED  BY <3>2, <3>3 DEF BInv, BTypeOK
  <2>6. Owned'
    <3>. SUFFICES ASSUME NEW k \in Lines, NEW d \in passers'[k]
                  PROVE  /\ d \in alive /\ k \in 1..Len(texts) /\ k \in passed'
                         /\ ~InboxHas(d, k)'
                         /\ botEnabled => d = Bot
                         /\ ~botEnabled => \/ processed'[texts[k]] = nick[d]
                                           \/ \A e \in Clients : ~InboxHas(e, k)'
      BY <1>2 DEF Owned
    <3>0. k \in Nat
      BY BrokerAssumption DEF Lines
    <3>1. CASE k = l
      <4>1. d = c
        BY <2>3, <2>5, <3>1
      <4>2. botEnabled => c = Bot
        BY <1>3 DEF Handles
      <4>3. ~botEnabled => processed'[t] = nick[c]
        BY <1>2, <2>1 DEF Claimed, BInv, BTypeOK
      <4>. QED  BY <1>1, <1>2, <2>1, <3>1, <4>1, <4>2, <4>3
    <3>2. CASE k # l
      <4>1. d \in passers[k]
        BY <2>3, <3>2
      <4>2. ASSUME ~botEnabled, processed[texts[k]] = nick[d]
            PROVE  \/ processed'[texts[k]] = nick[d]
                   \/ \A e \in Clients : ~InboxHas(e, k)'
        <5>1. CASE texts[k] # t
          BY <2>1, <4>2, <5>1 DEF Claimed, BInv, BTypeOK
        <5>2. CASE texts[k] = t
          <6>1. nick[c] = nick[d]
            <7>1. nick[d] # NoNick /\ d \in Owners(nick[d])
              BY <2>4, <4>1 DEF BInv, BTypeOK, Owners
            <7>. QED  BY <1>3, <4>2, <5>2, <7>1 DEF Handles, Claims
          <6>. QED  BY <1>2, <2>1, <4>2, <5>2, <6>1 DEF Claimed, BInv, BTypeOK
        <5>. QED  BY <5>1, <5>2
      <4>. QED  BY <1>1, <2>1, <2>4, <3>0, <4>1, <4>2
    <3>. QED  BY <3>1, <3>2
  <2>7. AtMostOnce'
    BY <2>3, <2>5 DEF BInv, AtMostOnce
  <2>. QED  BY <1>1, <2>2, <2>6, <2>7 DEF BInv
<1>4. CASE ~Handles(c, t)
  <2>1. UNCHANGED <<processed, passed, passers>>
    BY <1>4 DEF Read
  <2>2. BTypeOK' /\ AtMostOnce'
    BY <1>1, <1>2, <2>1 DEF BInv, BTypeOK, AtMostOnce
  <2>3. Owned'
    <3>. SUFFICES ASSUME NEW k \in Lines, NEW d \in passers[k]
                  PROVE  /\ d \in alive /\ k \in 1..Len(texts) /\ k \in passed
                         /\ ~InboxHas(d, k)'
                         /\ botEnabled => d = Bot
                         /\ ~botEnabled => \/ processed[texts[k]] = nick[d]
                                           \/ \A e \in Clients : ~InboxHas(e, k)'
      BY <1>2, <2>1 DEF Owned
    <3>1. k \in Nat /\ d \in Clients
      BY BrokerAssumption DEF Lines, BInv, BTypeOK
    <3>. QED  BY <1>1, <3>1 DEF BInv, Owned
  <2>. QED  BY <1>1, <2>2, <2>3 DEF BInv
<1>. QED  BY <1>3, <1>4

\* A claim is forgotten when nobody has copies of the lines passed on under it.
LEMMA CleanStep == ASSUME BInv, NEW t \in Texts, Clean(t) PROVE BInv'
<1>1. /\ UNCHANGED <<botEnabled, alive, nick, texts, inbox, passed, passers>>
      /\ processed' = [processed EXCEPT ![t] = NoNick]
  BY DEF Clean
<1>2. BTypeOK' /\ Distinct' /\ AtMostOnce'
  BY <1>1 DEF BInv, BTypeOK, Distinct, AtMostOnce
<1>3. Owned'
  <2>. SUFFICES ASSUME NEW l \in Lines, NEW c \in passers[l], ~botEnabled,
                       processed[texts[l]] = nick[c], processed'[texts[l]] # nick[c]
                PROVE  \A d \in Clients : ~InboxHas(d, l)
    BY <1>1 DEF BInv, Owned, InboxHas
  <2>1. l \in DOMAIN texts /\ l \in passed /\ texts[l] \in Texts
    BY DEF BInv, BTypeOK, Owned
  <2>2. texts[l] = t
    BY <1>1, <2>1 DEF BInv, BTypeOK
  <2>. QED  BY <2>1, <2>2 DEF Clean
<1>. QED  BY <1>2, <1>3 DEF BInv

LEMMA DieStep == ASSUME BInv, NEW c \in Clients, Die(c) PROVE BInv'
<1>1. /\ UNCHANGED <<botEnabled, texts, processed, passed>> /\ alive' = alive \ {c}
      /\ nick' = [nick EXCEPT ![c] = NoNick] /\ inbox' = [inbox EXCEPT ![c] = <<>>]
      /\ passers' = [l \in Lines |-> passers[l] \ {c}]
  BY DEF Die, Fails
<1>2. BTypeOK' /\ AtMostOnce'
  BY <1>1 DEF BInv, BTypeOK, AtMostOnce
<1>3. \A d \in Clients : inbox'[d] = IF d = c THEN <<>> ELSE inbox[d]
  BY <1>1 DEF BInv, BTypeOK
<1>4. Distinct'
  BY <1>1, <1>3 DEF BInv, Distinct
<1>5. \A d \in Clients, l \in Lines : InboxHas(d, l)' => InboxHas(d, l)
  BY <1>3 DEF InboxHas, Range
<1>6. Owned'
  <2>. SUFFICES ASSUME NEW l \in Lines, NEW d \in passers'[l]
                PROVE  /\ d \in alive' /\ l \in 1..Len(texts) /\ l \in passed
                       /\ ~InboxHas(d, l)'
                       /\ botEnabled => d = Bot
                       /\ ~botEnabled => \/ processed[texts[l]] = nick'[d]
                                         \/ \A e \in Clients : ~InboxHas(e, l)'
    BY <1>1 DEF Owned
  <2>1. d \in passers[l] /\ d # c
    BY <1>1
  <2>2. d \in alive' /\ d \in Clients /\ nick'[d] = nick[d]
    BY <1>1, <2>1 DEF BInv, BTypeOK, Owned
  <2>. QED  BY <1>5, <2>1, <2>2 DEF BInv, Owned
<1>. QED  BY <1>2, <1>4, <1>6 DEF BInv

LEMMA ReturnStep ==
  ASSUME BInv, NEW c \in Clients, NEW n \in Nicks, Return(c, n)
  PROVE  BInv'
<1>1. /\ UNCHANGED <<botEnabled, texts, inbox, processed, passed, passers>>
      /\ c \notin alive /\ alive' = alive \cup {c} /\ nick' = [nick EXCEPT ![c] = n]
      /\ \A d \in alive : nick[d] # n
  BY DEF Return, Free, history
<1>2. BTypeOK' /\ AtMostOnce' /\ Distinct'
  BY <1>1, BrokerAssumption DEF BInv, BTypeOK, AtMostOnce, Distinct
<1>3. \A d \in alive : d \in alive' /\ nick'[d] = nick[d]
  BY <1>1 DEF BInv, BTypeOK
<1>4. Owned'
  BY <1>1, <1>3 DEF BInv, Owned, InboxHas
<1>. QED  BY <1>2, <1>4 DEF BInv

LEMMA RenameStep ==
  ASSUME BInv, NEW c \in Clients, NEW n \in Nicks, Rename(c, n)
  PROVE  BInv'
<1>1. /\ UNCHANGED <<botEnabled, alive, texts, inbox, processed, passed>>
      /\ c \in alive /\ nick' = [nick EXCEPT ![c] = n]
      /\ \A d \in alive : nick[d] # n
      /\ passers' = [l \in Lines |-> passers[l] \ {c}]
  BY DEF Rename, Fails, Free
<1>2. BTypeOK' /\ AtMostOnce' /\ Distinct'
  BY <1>1, BrokerAssumption DEF BInv, BTypeOK, AtMostOnce, Distinct
<1>3. \A l \in Lines : \A d \in passers'[l] : d \in passers[l] /\ nick'[d] = nick[d]
  BY <1>1 DEF BInv, BTypeOK
<1>4. Owned'
  BY <1>1, <1>3 DEF BInv, Owned, InboxHas
<1>. QED  BY <1>2, <1>4 DEF BInv

\* Every step keeps the invariant.
LEMMA NextBInv == BInv /\ [Next]_vars => BInv'
<1>. SUFFICES ASSUME BInv, [Next]_vars PROVE BInv'
  OBVIOUS
<1>1. ASSUME UNCHANGED <<botEnabled, alive, nick, texts, inbox, processed, passed, passers>>
      PROVE  BInv'
  BY <1>1 DEF BInv, BTypeOK, Distinct, Owned, AtMostOnce, InboxHas
<1>2. ASSUME NEW t \in Texts, NEW inChannel \in SUBSET alive, Send(t, inChannel) PROVE BInv'
  BY <1>2, SendStep
<1>3. ASSUME NEW c \in Clients, Read(c) PROVE BInv'
  BY <1>3, ReadStep
<1>4. ASSUME NEW c \in Clients, Die(c) PROVE BInv'
  BY <1>4, DieStep
<1>5. ASSUME NEW k \in DOMAIN buffer, Completes(k) \/ WaitsTooLong(k) PROVE BInv'
  BY <1>1, <1>5 DEF Completes, WaitsTooLong, history
<1>6. ASSUME NEW t \in Texts, Clean(t) PROVE BInv'
  BY <1>6, CleanStep
<1>7. ASSUME NEW c \in Clients, NEW n \in Nicks, Return(c, n) PROVE BInv'
  BY <1>7, ReturnStep
<1>8. ASSUME NEW c \in Clients, NEW n \in Nicks, Rename(c, n) PROVE BInv'
  BY <1>8, RenameStep
<1>9. CASE UNCHANGED vars
  BY <1>1, <1>9 DEF vars
<1>. QED  BY <1>2, <1>3, <1>4, <1>5, <1>6, <1>7, <1>8, <1>9 DEF Next
------------------------------------------------------------------------------
(***************************************************************************)
(* No line is passed on to the bridge by two clients that both kept their  *)
(* connection and their nick (IrcEventBroker.ts, lines 22-23), with a bot  *)
(* or without, whoever reads how late and in whichever order.              *)
(***************************************************************************)
THEOREM BrokerAtMostOnce == Spec => []AtMostOnce
<1>1. BInv => AtMostOnce
  BY DEF BInv
<1>. QED  BY InitBInv, NextBInv, <1>1, PTL DEF Spec
------------------------------------------------------------------------------
\* Nobody was left a line that was not sent yet.
Traces ==
  /\ {received, relied} \subseteq [Lines -> SUBSET Clients]
  /\ \A l \in Lines : relied[l] # {} => l <= Len(texts)

\* Where a line is: who was left it still owns its text, and has the line yet to read
\* if he was sent it.
Accounted(l) ==
  /\ \A o \in relied[l] : /\ botEnabled => o = Bot
                          /\ ~botEnabled => o \in alive /\ processed[texts[l]] = nick[o]
  /\ \A c \in received[l] : InboxHas(c, l) \/ l \in passed \/ relied[l] # {}
  /\ l \in passed \/ \A o \in relied[l] \cap received[l] : InboxHas(o, l)

LInv == Traces /\ \A l \in Lines \ excused : Accounted(l)

LEMMA SendTraced ==
  ASSUME BInv, LInv, NEW t \in Texts, NEW inChannel \in SUBSET alive, Send(t, inChannel)
  PROVE  LInv'
<1>. DEFINE new == Len(texts) + 1
<1>1. /\ texts \in Seq(Texts) /\ texts' = Append(texts, t) /\ Len(texts') = new /\ Len(texts) \in Nat
      /\ \A l \in 1..Len(texts) : texts'[l] = texts[l]
  BY DEF BInv, BTypeOK, Send
<1>2. /\ inbox \in [Clients -> Seq(Nat)] /\ inChannel \subseteq Clients
      /\ \A c \in Clients : inbox'[c] = IF c \in inChannel THEN Append(inbox[c], new) ELSE inbox[c]
  BY <1>1 DEF BInv, BTypeOK, Send
<1>3. /\ UNCHANGED <<botEnabled, alive, nick, processed, passed, relied, excused>>
      /\ received' = [received EXCEPT ![new] = inChannel]
  BY <1>1 DEF Send
<1>4. \A c \in Clients : Range(inbox[c]) \subseteq Range(inbox'[c]) /\ (c \in inChannel => new \in Range(inbox'[c]))
  BY <1>1, <1>2, AppendHas
<1>5. Traces'
  <2>1. received' \in [Lines -> SUBSET Clients] /\ relied' \in [Lines -> SUBSET Clients]
    BY <1>2, <1>3 DEF LInv, Traces
  <2>2. ASSUME NEW l \in Lines, relied[l] # {} PROVE l <= new
    <3>1. l <= Len(texts) /\ l \in Nat
      BY <2>2, BrokerAssumption DEF LInv, Traces, Lines
    <3>. QED  BY <1>1, <3>1
  <2>. QED  BY <1>1, <1>3, <2>1, <2>2 DEF Traces
<1>6. ASSUME NEW l \in Lines \ excused PROVE Accounted(l)'
  <2>1. /\ Accounted(l) /\ (relied[l] # {} => l <= Len(texts)) /\ l \in Nat \ {0} /\ relied[l] \subseteq Clients
        /\ received[l] \subseteq Clients
    BY BrokerAssumption DEF LInv, Traces, Lines
  <2>2. relied[l] # {} => texts'[l] = texts[l]
    BY <1>1, <2>1
  <2>3. l # new => received'[l] = received[l]
    BY <1>3 DEF LInv, Traces
  <2>4. l = new => received'[l] = inChannel /\ relied[l] = {}
    BY <1>1, <1>3, <2>1 DEF LInv, Traces
  <2>5. \A c \in Clients : InboxHas(c, l) => InboxHas(c, l)'
    BY <1>4 DEF InboxHas
  <2>6. l = new => \A c \in inChannel : InboxHas(c, l)'
    BY <1>2, <1>4 DEF InboxHas
  <2>7. CASE l = new
    BY <1>3, <2>4, <2>6, <2>7 DEF Accounted
  <2>8. CASE l # new
    BY <1>3, <2>1, <2>2, <2>3, <2>5, <2>8 DEF Accounted
  <2>. QED  BY <2>7, <2>8
<1>. QED  BY <1>3, <1>5, <1>6 DEF LInv

LEMMA ReadTraced == ASSUME BInv, LInv, NEW c \in Clients, Read(c) PROVE LInv'
<1>0. PICK l \in Lines : l = Head(inbox[c])
  BY ReadInbox
<1>10. PICK t \in Texts : t = texts[l]
  BY <1>0, ReadInbox DEF BInv, BTypeOK
<1>1. /\ l \in Lines /\ l \in 1..Len(texts) /\ l \in Nat /\ InboxHas(c, l)
      /\ \A d \in Clients, k \in Nat : d # c \/ k # l => (InboxHas(d, k) => InboxHas(d, k)')
  <2>1. /\ l \in Lines /\ l \in 1..Len(texts) /\ InboxHas(c, l)
    BY <1>0, ReadInbox
  <2>2. /\ inbox \in [Clients -> Seq(Nat)] /\ inbox[c] \in Seq(Nat) /\ inbox[c] # <<>>
        /\ inbox' = [inbox EXCEPT ![c] = Tail(@)]
    BY DEF BInv, BTypeOK, Read
  <2>3. \A d \in Clients : d # c => inbox'[d] = inbox[d]
    BY <2>2
  <2>4. \A k \in Range(inbox[c]) : k # l => k \in Range(inbox'[c])
    <3>. SUFFICES ASSUME NEW i \in DOMAIN inbox[c], inbox[c][i] # l PROVE inbox[c][i] \in Range(inbox'[c])
      BY DEF Range
    <3>1. /\ inbox'[c] = Tail(inbox[c]) /\ i # 1 /\ i \in 1..Len(inbox[c]) /\ Len(inbox[c]) \in Nat
          /\ Len(Tail(inbox[c])) = Len(inbox[c]) - 1 /\ DOMAIN Tail(inbox[c]) = 1..Len(Tail(inbox[c]))
      BY <1>0, <2>2
    <3>2. i - 1 \in DOMAIN inbox'[c] /\ inbox'[c][i - 1] = inbox[c][i]
      BY <2>2, <3>1
    <3>. QED  BY <3>2 DEF Range
  <2>. QED  BY <2>1, <2>3, <2>4 DEF InboxHas
<1>2. /\ UNCHANGED <<botEnabled, alive, nick, texts, received, excused>> /\ t \in Texts /\ c \in alive
      /\ nick[c] \in Nicks
  BY <1>1, <1>10 DEF BInv, BTypeOK, Read
<1>3. \A k \in Lines : relied[k] \subseteq Clients /\ received[k] \subseteq Clients /\ k \in Nat
  BY BrokerAssumption DEF LInv, Traces, Lines
<1>4. \A k \in Lines \ excused : Accounted(k)
  BY DEF LInv
<1>5. CASE Handles(c, t)
  <2>1. /\ processed' = (IF botEnabled THEN processed ELSE Claimed(c, t))
        /\ passed' = passed \cup {l} /\ relied' = relied
    BY <1>0, <1>5, <1>10 DEF Read
  <2>2. Traces'
    BY <1>2, <2>1 DEF LInv, Traces
  <2>3. ASSUME NEW k \in Lines \ excused PROVE Accounted(k)'
    <3>1. Accounted(k) /\ k \in Nat
      BY <1>3, <1>4
    <3>2. ASSUME NEW o \in relied[k], ~botEnabled
          PROVE  processed'[texts[k]] = nick[o]
      <4>1. o \in alive /\ processed[texts[k]] = nick[o] /\ nick[o] # NoNick
        BY <3>1, <3>2 DEF Accounted, BInv, BTypeOK
      <4>2. texts[k] = t => nick[c] = nick[o]
        <5>1. o \in Owners(nick[o])
          BY <4>1 DEF Owners
        <5>. QED  BY <1>5, <3>2, <4>1, <5>1 DEF Handles, Claims
      <4>3. processed' = [processed EXCEPT ![t] = nick[c]]
        BY <2>1, <3>2 DEF Claimed
      <4>4. k \in 1..Len(texts) /\ texts[k] \in Texts
        <5>1. k <= Len(texts) /\ k \in Nat \ {0} /\ texts \in Seq(Texts)
          BY BrokerAssumption DEF LInv, Traces, Lines, BInv, BTypeOK
        <5>. QED  BY <5>1
      <4>. QED  BY <4>1, <4>2, <4>3, <4>4 DEF BInv, BTypeOK
    <3>3. CASE k = l
      BY <1>2, <1>10, <2>1, <3>1, <3>2, <3>3 DEF Accounted
    <3>4. CASE k # l
      <4>1. \A d \in Clients : InboxHas(d, k) => InboxHas(d, k)'
        BY <1>1, <3>1, <3>4
      <4>. QED  BY <1>2, <1>3, <2>1, <3>1, <3>2, <3>4, <4>1 DEF Accounted
    <3>. QED  BY <3>3, <3>4
  <2>. QED  BY <1>2, <2>2, <2>3 DEF LInv
<1>6. CASE ~Handles(c, t)
  <2>1. /\ UNCHANGED <<processed, passed>> /\ relied' = [relied EXCEPT ![l] = @ \cup LeftTo(t)]
    BY <1>0, <1>6, <1>10 DEF Read
  <2>2. LeftTo(t) \subseteq Clients /\ LeftTo(t) # {}
    BY <1>6, BrokerAssumption DEF LeftTo, Owners, BInv, BTypeOK, Handles, Claims
  <2>3. relied'[l] = relied[l] \cup LeftTo(t) /\ \A k \in Lines : k # l => relied'[k] = relied[k]
    BY <1>1, <2>1 DEF LInv, Traces
  <2>4. Traces'
    <3>1. l <= Len(texts)
      BY <1>1 DEF BInv, BTypeOK
    <3>. QED  BY <1>1, <1>2, <2>1, <2>2, <2>3, <3>1 DEF LInv, Traces
  <2>5. ASSUME NEW k \in Lines \ excused, k # l PROVE Accounted(k)'
    <3>1. \A d \in Clients : InboxHas(d, k) => InboxHas(d, k)'
      BY <1>1, <1>3, <2>5
    <3>2. Accounted(k) /\ relied'[k] = relied[k] /\ relied[k] \subseteq Clients /\ received[k] \subseteq Clients
      BY <1>3, <1>4, <2>3, <2>5
    <3>. QED  BY <1>2, <2>1, <3>1, <3>2 DEF Accounted
  <2>6. ASSUME l \notin excused PROVE Accounted(l)'
    <3>1. Accounted(l)
      BY <1>1, <1>4, <2>6
    <3>2. ASSUME NEW o \in LeftTo(t)
          PROVE  /\ botEnabled => o = Bot
                 /\ ~botEnabled => o \in alive /\ processed[t] = nick[o]
                 /\ o # c
      <4>1. CASE botEnabled
        BY <1>6, <3>2, <4>1 DEF LeftTo, Handles
      <4>2. CASE ~botEnabled
        BY <1>6, <3>2, <4>2 DEF LeftTo, Handles, Claims, Owners
      <4>. QED  BY <4>1, <4>2
    <3>3. ASSUME NEW o \in LeftTo(t) \cap received[l], l \notin passed
          PROVE  InboxHas(o, l)
      <4>1. SUFFICES ASSUME ~InboxHas(o, l) PROVE FALSE
        OBVIOUS
      <4>2. PICK p \in relied[l] : TRUE
        BY <3>1, <3>3, <4>1 DEF Accounted
      <4>3. p = o
        BY <1>10, <3>1, <3>2, <3>3, <4>2 DEF Accounted, BInv, BTypeOK
      <4>. QED  BY <3>1, <3>3, <4>1, <4>2, <4>3 DEF Accounted
    <3>4. ASSUME NEW o \in relied[l] \cap received[l], l \notin passed
          PROVE  o # c
      <4>1. CASE botEnabled
        BY <1>6, <1>10, <3>1, <3>4, <4>1 DEF Accounted, Handles
      <4>2. CASE ~botEnabled
        BY <1>6, <1>10, <3>1, <3>4, <4>2 DEF Accounted, Handles, Claims
      <4>. QED  BY <4>1, <4>2
    <3>5. l \in passed \/ \A o \in relied'[l] \cap received[l] : InboxHas(o, l) /\ o # c /\ o \in Clients
      <4>1. SUFFICES ASSUME l \notin passed, NEW o \in relied'[l] \cap received[l]
                     PROVE  InboxHas(o, l) /\ o # c /\ o \in Clients
        OBVIOUS
      <4>2. CASE o \in relied[l]
        BY <1>3, <3>1, <3>4, <4>1, <4>2 DEF Accounted
      <4>3. CASE o \in LeftTo(t)
        BY <2>2, <3>2, <3>3, <4>1, <4>3
      <4>. QED  BY <2>3, <4>1, <4>2, <4>3
    <3>6. l \in passed \/ \A o \in relied'[l] \cap received[l] : InboxHas(o, l)'
      BY <1>1, <3>5
    <3>7. \A o \in relied'[l] : /\ botEnabled => o = Bot
                                /\ ~botEnabled => o \in alive /\ processed[t] = nick[o]
      BY <1>10, <2>3, <3>1, <3>2 DEF Accounted
    <3>8. relied'[l] # {}
      BY <2>2, <2>3
    <3>9. texts'[l] = t
      BY <1>2, <1>10
    <3>. QED  BY <1>2, <2>1, <3>6, <3>7, <3>8, <3>9 DEF Accounted
  <2>. QED  BY <1>2, <2>4, <2>5, <2>6 DEF LInv
<1>. QED  BY <1>5, <1>6

LEMMA CleanTraced == ASSUME BInv, LInv, NEW t \in Texts, Clean(t) PROVE LInv'
<1>1. /\ UNCHANGED <<botEnabled, alive, nick, texts, inbox, received, passed, relied>>
      /\ processed' = [processed EXCEPT ![t] = NoNick]
      /\ excused' = excused \cup {l \in DOMAIN texts : texts[l] = t /\ relied[l] # {}}
  BY DEF Clean
<1>2. Traces'
  BY <1>1 DEF LInv, Traces
<1>3. ASSUME NEW l \in Lines \ excused' PROVE Accounted(l)'
  <2>1. Accounted(l) /\ (relied[l] # {} => l \in 1..Len(texts) /\ texts[l] \in Texts)
    <3>1. l \in Nat \ {0} /\ texts \in Seq(Texts) /\ (relied[l] # {} => l <= Len(texts))
      BY BrokerAssumption DEF LInv, Traces, Lines, BInv, BTypeOK
    <3>. QED  BY <1>1, <1>3, <3>1 DEF LInv
  <2>2. relied[l] # {} => texts[l] # t
    <3>1. relied[l] # {} => l \in DOMAIN texts
      BY <2>1 DEF BInv, BTypeOK
    <3>. QED  BY <1>1, <1>3, <3>1
  <2>3. relied[l] # {} => processed'[texts[l]] = processed[texts[l]]
    BY <1>1, <2>1, <2>2 DEF BInv, BTypeOK
  <2>. QED  BY <1>1, <2>1, <2>3 DEF Accounted, InboxHas
<1>. QED  BY <1>2, <1>3 DEF LInv

LEMMA DieTraced == ASSUME BInv, LInv, NEW c \in Clients, Die(c) PROVE LInv'
<1>1. /\ UNCHANGED <<botEnabled, texts, processed, passed, relied>> /\ alive' = alive \ {c}
      /\ nick' = [nick EXCEPT ![c] = NoNick] /\ inbox' = [inbox EXCEPT ![c] = <<>>]
      /\ excused' = excused \cup {l \in Lines : c \in relied[l]}
      /\ received' = [l \in Lines |-> received[l] \ {c}]
  BY DEF Die, Fails
<1>2. Traces'
  BY <1>1 DEF LInv, Traces
<1>3. ASSUME NEW l \in Lines \ excused' PROVE Accounted(l)'
  <2>1. /\ Accounted(l) /\ c \notin relied[l] /\ received'[l] = received[l] \ {c}
        /\ relied[l] \subseteq Clients /\ received[l] \subseteq Clients
    BY <1>1 DEF LInv, Traces
  <2>2. \A d \in Clients : d # c => nick'[d] = nick[d] /\ inbox'[d] = inbox[d]
    BY <1>1 DEF BInv, BTypeOK
  <2>. QED  BY <1>1, <2>1, <2>2 DEF Accounted, InboxHas
<1>. QED  BY <1>2, <1>3 DEF LInv

LEMMA ReturnTraced ==
  ASSUME BInv, LInv, NEW c \in Clients, NEW n \in Nicks, Return(c, n)
  PROVE  LInv'
<1>1. /\ UNCHANGED <<botEnabled, texts, inbox, processed, received, passed, relied, excused>>
      /\ c \notin alive /\ alive' = alive \cup {c} /\ nick' = [nick EXCEPT ![c] = n]
  BY DEF Return, history
<1>2. Traces'
  BY <1>1 DEF LInv, Traces
<1>3. \A d \in alive : nick'[d] = nick[d]
  BY <1>1 DEF BInv, BTypeOK
<1>4. ASSUME NEW l \in Lines \ excused' PROVE Accounted(l)'
  <2>1. Accounted(l)
    BY <1>1 DEF LInv
  <2>. QED  BY <1>1, <1>3, <2>1 DEF Accounted, InboxHas
<1>. QED  BY <1>2, <1>4 DEF LInv

LEMMA RenameTraced ==
  ASSUME BInv, LInv, NEW c \in Clients, NEW n \in Nicks, Rename(c, n)
  PROVE  LInv'
<1>1. /\ UNCHANGED <<botEnabled, alive, texts, inbox, processed, received, passed, relied>>
      /\ nick' = [nick EXCEPT ![c] = n]
      /\ excused' = excused \cup {l \in Lines : c \in relied[l]}
  BY DEF Rename, Fails
<1>2. Traces'
  BY <1>1 DEF LInv, Traces
<1>3. ASSUME NEW l \in Lines \ excused' PROVE Accounted(l)'
  <2>1. Accounted(l) /\ c \notin relied[l] /\ relied[l] \subseteq Clients
    BY <1>1 DEF LInv, Traces
  <2>2. \A d \in Clients : d # c => nick'[d] = nick[d]
    BY <1>1 DEF BInv, BTypeOK
  <2>. QED  BY <1>1, <2>1, <2>2 DEF Accounted, InboxHas
<1>. QED  BY <1>2, <1>3 DEF LInv

(***************************************************************************)
(* A line that everybody has read and nobody passed on was left to a       *)
(* client that was not sent it, unless who was left it lost connection,    *)
(* nick or claim (IrcEventBroker.ts, lines 63-64): no other interleaving   *)
(* of reads, claims, renames and cleaning loses a line.                    *)
(***************************************************************************)
THEOREM BrokerNoSilentLoss == Spec => []NoSilentLoss
<1>1. Init => LInv
  <2>. SUFFICES ASSUME Init PROVE LInv
    OBVIOUS
  <2>1. \A l \in Lines : received[l] = {} /\ relied[l] = {}
    BY DEF Init
  <2>2. Traces
    BY <2>1 DEF Init, Traces
  <2>. QED  BY <2>1, <2>2 DEF LInv, Accounted
<1>2. BInv /\ LInv /\ [Next]_vars => LInv'
  <2>. SUFFICES ASSUME BInv, LInv, [Next]_vars PROVE LInv'
    OBVIOUS
  <2>1. ASSUME UNCHANGED <<botEnabled, alive, nick, texts, inbox, processed, received, passed, relied, excused>>
        PROVE  LInv'
    BY <2>1 DEF LInv, Traces, Accounted, InboxHas
  <2>2. ASSUME NEW k \in DOMAIN buffer, Completes(k) \/ WaitsTooLong(k) PROVE LInv'
    BY <2>1, <2>2 DEF Completes, WaitsTooLong, history
  <2>3. CASE UNCHANGED vars
    BY <2>1, <2>3 DEF vars
  <2>. QED
    BY <2>2, <2>3, SendTraced, ReadTraced, CleanTraced, DieTraced, ReturnTraced, RenameTraced DEF Next
<1>3. BInv /\ LInv => NoSilentLoss
  <2>. SUFFICES ASSUME LInv, NEW l \in Lines, received[l] # {}, \A c \in Clients : ~InboxHas(c, l),
                       l \notin excused, l \notin passed
                PROVE  \E c \in relied[l] : c \notin received[l]
    BY DEF NoSilentLoss
  <2>1. Accounted(l) /\ received[l] \subseteq Clients
    BY DEF LInv, Traces
  <2>. QED  BY <2>1 DEF Accounted
<1>. QED  BY InitBInv, NextBInv, <1>1, <1>2, <1>3, PTL DEF Spec
------------------------------------------------------------------------------
Stages == {"waiting", "running", "done"}
OInv == buffer \in Seq(Stages) /\ StartsInOrder

LEMMA CompletesInOrder == ASSUME OInv, NEW k \in DOMAIN buffer, Completes(k) PROVE OInv'
<1>. DEFINE then == [j \in DOMAIN buffer |->
                      IF j = k THEN "done"
                      ELSE IF j = k + 1 /\ buffer[j] = "waiting" THEN "running" ELSE buffer[j]]
<1>1. /\ buffer \in Seq(Stages) /\ buffer[k] = "running" /\ DOMAIN buffer = 1..Len(buffer)
      /\ Len(buffer) \in Nat /\ buffer' \in {<<>>, then}
  BY DEF OInv, Completes
<1>2. \A j \in DOMAIN buffer : buffer[j] \in Stages
  BY <1>1
<1>3. then \in [1..Len(buffer) -> Stages]
  BY <1>1, <1>2 DEF Stages
<1>4. then \in Seq(Stages) /\ DOMAIN then = DOMAIN buffer
  BY <1>1, <1>3
<1>5. ASSUME NEW i \in DOMAIN then, NEW j \in DOMAIN then, i < j, then[i] = "waiting"
      PROVE  then[j] = "waiting"
  <2>1. i \in 1..Len(buffer) /\ j \in 1..Len(buffer) /\ k \in 1..Len(buffer)
    BY <1>1
  <2>2. i # k /\ buffer[i] = "waiting" /\ i # k + 1
    BY <1>5, <2>1
  <2>3. i > k
    BY <1>1, <2>1, <2>2 DEF OInv, StartsInOrder
  <2>4. j # k /\ j # k + 1 /\ buffer[j] = "waiting"
    BY <1>5, <2>1, <2>2, <2>3 DEF OInv, StartsInOrder
  <2>. QED  BY <2>1, <2>4
<1>6. CASE buffer' = <<>>
  BY <1>6 DEF OInv, StartsInOrder
<1>7. CASE buffer' = then
  BY <1>4, <1>5, <1>7 DEF OInv, StartsInOrder
<1>. QED  BY <1>1, <1>6, <1>7

(***************************************************************************)
(* The messages of a channel start in the order they were claimed in,      *)
(* whichever of them jump the queue (IrcEventBroker.ts, lines 557-563).    *)
(***************************************************************************)
THEOREM BrokerStartsInOrder == Spec => []StartsInOrder
<1>1. Init => OInv
  BY DEF Init, OInv, StartsInOrder, Stages
<1>2. OInv /\ [Next]_vars => OInv'
  <2>. SUFFICES ASSUME OInv, [Next]_vars PROVE OInv'
    OBVIOUS
  <2>1. buffer \in Seq(Stages) /\ StartsInOrder
    BY DEF OInv
  <2>2. CASE UNCHANGED buffer
    BY <2>1, <2>2 DEF OInv, StartsInOrder
  <2>3. ASSUME NEW c \in Clients, Read(c), buffer' # buffer PROVE OInv'
    <3>1. PICK s \in {"running", "waiting"} :
            /\ buffer' = Append(buffer, s)
            /\ s = "running" => buffer = <<>> \/ buffer[Len(buffer)] = "done"
      BY <2>3 DEF Read, Buffered, Last
    <3>2. \A i \in DOMAIN buffer' : \/ i \in DOMAIN buffer /\ buffer'[i] = buffer[i]
                                    \/ i = Len(buffer) + 1 /\ buffer'[i] = s
      BY <2>1, <3>1
    <3>3. s = "running" => \A i \in DOMAIN buffer : buffer[i] # "waiting"
      <4>. SUFFICES ASSUME s = "running", NEW i \in DOMAIN buffer, buffer[i] = "waiting"
                    PROVE  FALSE
        OBVIOUS
      <4>1. Len(buffer) \in DOMAIN buffer /\ i <= Len(buffer) /\ buffer[Len(buffer)] = "done"
        BY <2>1, <3>1
      <4>. QED  BY <2>1, <4>1 DEF StartsInOrder
    <3>4. buffer' \in Seq(Stages) /\ DOMAIN buffer' \subseteq Nat
      BY <2>1, <3>1 DEF Stages
    <3>5. StartsInOrder'
      BY <2>1, <3>2, <3>3, <3>4 DEF StartsInOrder
    <3>. QED  BY <3>4, <3>5 DEF OInv
  <2>4. ASSUME NEW k \in DOMAIN buffer, WaitsTooLong(k) PROVE OInv'
    <3>1. /\ buffer' = [buffer EXCEPT ![k] = "running"] /\ buffer[k] = "waiting"
          /\ \A j \in 1..(k - 1) : buffer[j] # "waiting"
      BY <2>4 DEF WaitsTooLong
    <3>2. /\ buffer' \in Seq(Stages) /\ DOMAIN buffer' = DOMAIN buffer
          /\ \A i \in DOMAIN buffer : buffer'[i] = IF i = k THEN "running" ELSE buffer[i]
          /\ DOMAIN buffer = 1..Len(buffer) /\ Len(buffer) \in Nat
      BY <2>1, <3>1 DEF Stages
    <3>3. StartsInOrder'
      BY <2>1, <3>1, <3>2 DEF StartsInOrder
    <3>. QED  BY <3>2, <3>3 DEF OInv
  <2>. QED
    BY <2>2, <2>3, <2>4, CompletesInOrder
       DEF Next, vars, Send, Die, Clean, Return, Rename
<1>3. OInv => StartsInOrder
  BY DEF OInv
<1>. QED  BY <1>1, <1>2, <1>3, PTL DEF Spec
=============================================================================
