----------------------------- MODULE EventBroker -----------------------------
(***************************************************************************)
(* How a line of an IRC channel reaches the bridge once, although every    *)
(* bridged client in the channel is sent it: src/src/irc/IrcEventBroker.ts *)
(* and src/src/util/ProcessedDict.ts.  With a bot, the bot passes lines    *)
(* on; without, the first client to read a line claims it, under its nick, *)
(* and identical lines are its own from then on, unless it is found dead.  *)
(* Claimed messages pass a soft queue: each waits for the one before it,   *)
(* but no longer than BUFFER_TIMEOUT_MS.                                   *)
(*                                                                         *)
(* The model is of one channel.  A line is a number; texts[l] is all that  *)
(* the broker sees of it, the hash of its prefix, command and arguments,   *)
(* which is assumed to tell lines apart that differ.                       *)
(***************************************************************************)
EXTENDS Naturals, Sequences, FiniteSets, SequencesExt

CONSTANTS Clients,    \* the bridge's connections to the network
          Bot,        \* the one of them that is the bot's
          Nicks, NoNick,
          Texts,
          Kept,       \* the texts never purged: NAMES of a channel
          MaxLines    \* bound: lines sent

ASSUME BrokerAssumption ==
  /\ Bot \in Clients /\ NoNick \notin Nicks
  /\ Kept \subseteq Texts /\ MaxLines \in Nat

VARIABLES botEnabled, \* the configuration
          alive,      \* clients connected, as far as the pool knows
          nick,       \* theirs, NoNick for the others
          texts,      \* the text of each line sent so far
          inbox,      \* lines each client was sent and has not read
          processed,  \* the nick that claimed a text
          buffer,     \* how far the messages passed on are, in order
          received,   \* history: who was sent a line, on the connection it has now
          passed,     \* history: lines passed on to the bridge
          passers,    \* history: by whom, if they kept nick and connection since
          relied,     \* history: whom the readers who ignored a line left it to
          excused     \* history: lines left to someone who failed since

vars == <<botEnabled, alive, nick, texts, inbox, processed, buffer,
          received, passed, passers, relied, excused>>
history == <<received, passed, passers, relied, excused>>

Lines == 1..MaxLines
InboxHas(c, l) == l \in Range(inbox[c])

Init ==
  /\ botEnabled \in BOOLEAN
  /\ alive \in {S \in SUBSET Clients : Bot \in S <=> botEnabled}
  /\ nick \in {f \in [Clients -> Nicks \cup {NoNick}] :
                 /\ \A c \in Clients : f[c] = NoNick <=> c \notin alive
                 /\ \A c, d \in alive : f[c] = f[d] => c = d}
  /\ texts = <<>>
  /\ inbox = [c \in Clients |-> <<>>]
  /\ processed = [t \in Texts |-> NoNick]
  /\ buffer = <<>>
  /\ received = [l \in Lines |-> {}]
  /\ passed = {}
  /\ passers = [l \in Lines |-> {}]
  /\ relied = [l \in Lines |-> {}]
  /\ excused = {}
------------------------------------------------------------------------------
\* The network sends a line to whoever is in the channel.
Send(t, inChannel) ==
  /\ Len(texts) < MaxLines
  /\ texts' = Append(texts, t)
  /\ inbox' = [c \in Clients |-> IF c \in inChannel THEN Append(inbox[c], Len(texts')) ELSE inbox[c]]
  /\ received' = [received EXCEPT ![Len(texts')] = inChannel]
  /\ UNCHANGED <<botEnabled, alive, nick, processed, buffer, passed, passers, relied, excused>>

\* getBridgedClientByNick: the living clients that have the nick.
Owners(n) == {c \in alive : nick[c] = n}

\* attemptClaim: nobody claimed the text, this client did, or who did is dead.
ClaimsFromLiving(c, t) ==
  processed[t] \in {NoNick, nick[c]} \/ Owners(processed[t]) # {}
NeverSteals(c, t) == processed[t] \in {NoNick, nick[c]}
Claims(c, t) ==
  \/ processed[t] \in {NoNick, nick[c]}
  \/ Owners(processed[t]) = {}
Handles(c, t) == IF botEnabled THEN c = Bot ELSE Claims(c, t)
LeftTo(t) == IF botEnabled THEN {Bot} ELSE Owners(processed[t])

\* The text is this client's from now on.
Claimed(c, t) == [processed EXCEPT ![t] = nick[c]]

\* bufferRequestToChannel: a message waits unless the one before it is done.
BufferedEager ==
  Append(buffer, IF buffer = <<>> \/ Last(buffer) # "running" THEN "running" ELSE "waiting")
Buffered ==
  Append(buffer, IF buffer = <<>> \/ Last(buffer) = "done" THEN "running" ELSE "waiting")

\* A client reads the next line it was sent.
Read(c) ==
  /\ c \in alive /\ inbox[c] # <<>>
  /\ inbox' = [inbox EXCEPT ![c] = Tail(@)]
  /\ LET l == Head(inbox[c])
         t == texts[l]
     IN  IF Handles(c, t)
         THEN /\ processed' = IF botEnabled THEN processed ELSE Claimed(c, t)
              /\ buffer' = IF t \in Kept THEN buffer ELSE Buffered
              /\ passed' = passed \cup {l}
              /\ passers' = [passers EXCEPT ![l] = @ \cup {c}]
              /\ UNCHANGED relied
         ELSE /\ relied' = [relied EXCEPT ![l] = @ \cup LeftTo(t)]
              /\ UNCHANGED <<processed, buffer, passed, passers>>
  /\ UNCHANGED <<botEnabled, alive, nick, texts, received, excused>>

\* The handler of a message is done, and the message that waits for it starts.
\* A channel all of whose messages are done is like one that never had any.
Completes(k) ==
  /\ buffer[k] = "running"
  /\ LET then == [j \in DOMAIN buffer |->
                    IF j = k THEN "done"
                    ELSE IF j = k + 1 /\ buffer[j] = "waiting" THEN "running" ELSE buffer[j]]
     IN  buffer' = IF Range(then) = {"done"} THEN <<>> ELSE then
  /\ UNCHANGED <<botEnabled, alive, nick, texts, inbox, processed, history>>

\* A message has waited for BUFFER_TIMEOUT_MS: it starts anyway.  The timers are
\* all of one length, so they expire in the order they were set in.
WaitsTooLong(k) ==
  /\ buffer[k] = "waiting"
  /\ \A j \in 1..(k - 1) : buffer[j] # "waiting"
  /\ buffer' = [buffer EXCEPT ![k] = "running"]
  /\ UNCHANGED <<botEnabled, alive, nick, texts, inbox, processed, history>>

\* The cleaner of ProcessedDict forgets a claim after ten minutes, long after
\* the copies of the lines passed on under it were read.
Clean(t) ==
  /\ processed[t] # NoNick /\ t \notin Kept
  /\ \A l \in DOMAIN texts, c \in Clients :
       texts[l] = t /\ l \in passed => ~InboxHas(c, l)
  /\ processed' = [processed EXCEPT ![t] = NoNick]
  /\ excused' = excused \cup {l \in DOMAIN texts : texts[l] = t /\ relied[l] # {}}
  /\ UNCHANGED <<botEnabled, alive, nick, texts, inbox, buffer, received, passed, passers, relied>>

\* History of a client that fails those who left lines to it.
Fails(c) ==
  /\ passers' = [l \in Lines |-> passers[l] \ {c}]
  /\ excused' = excused \cup {l \in Lines : c \in relied[l]}
  /\ UNCHANGED <<passed, relied>>

\* The pool learns that a connection is lost.
Die(c) ==
  /\ c \in alive
  /\ alive' = alive \ {c}
  /\ nick' = [nick EXCEPT ![c] = NoNick]
  /\ inbox' = [inbox EXCEPT ![c] = <<>>]
  /\ Fails(c)
  /\ received' = [l \in Lines |-> received[l] \ {c}]
  /\ UNCHANGED <<botEnabled, texts, processed, buffer>>

Free(n) == \A c \in alive : nick[c] # n

\* It is connected again, perhaps under another nick.
Return(c, n) ==
  /\ c \notin alive /\ (c = Bot => botEnabled) /\ Free(n)
  /\ alive' = alive \cup {c}
  /\ nick' = [nick EXCEPT ![c] = n]
  /\ UNCHANGED <<botEnabled, texts, inbox, processed, buffer, history>>

\* A client changes its nick, and its claims stay under the old one.
Rename(c, n) ==
  /\ c \in alive /\ Free(n)
  /\ nick' = [nick EXCEPT ![c] = n]
  /\ Fails(c)
  /\ UNCHANGED <<botEnabled, alive, received, texts, inbox, processed, buffer>>

Next ==
  \/ \E t \in Texts, inChannel \in SUBSET alive : Send(t, inChannel)
  \/ \E c \in Clients : Read(c) \/ Die(c)
  \/ \E k \in DOMAIN buffer : Completes(k) \/ WaitsTooLong(k)
  \/ \E t \in Texts : Clean(t)
  \/ \E c \in Clients, n \in Nicks : Return(c, n) \/ Rename(c, n)

Spec == Init /\ [][Next]_vars
------------------------------------------------------------------------------
TypeOK ==
  /\ botEnabled \in BOOLEAN /\ alive \subseteq Clients
  /\ nick \in [Clients -> Nicks \cup {NoNick}]
  /\ \A c, d \in alive : nick[c] = nick[d] => c = d
  /\ texts \in Seq(Texts) /\ Len(texts) <= MaxLines
  /\ inbox \in [Clients -> Seq(DOMAIN texts)]
  /\ processed \in [Texts -> Nicks \cup {NoNick}]
  /\ buffer \in Seq({"waiting", "running", "done"})
  /\ {received, passers, relied} \subseteq [Lines -> SUBSET Clients]
  /\ passed \subseteq Lines /\ excused \subseteq Lines

(***************************************************************************)
(* "Only 1 client should pass this through to the bridge to avoid          *)
(* duplicates" (IrcEventBroker.ts, lines 22-23): no line is passed on by   *)
(* two clients that both kept their connection and their nick.             *)
(***************************************************************************)
AtMostOnce == \A l \in Lines : \A c, d \in passers[l] : c = d

(***************************************************************************)
(* A line that everybody has read is lost only if a client it was left to  *)
(* was not sent it, or lost its connection, nick or claim meanwhile: "we   *)
(* don't know for sure if the client that handled the prev message will    *)
(* handle this new message" (IrcEventBroker.ts, lines 63-64).              *)
(***************************************************************************)
NoSilentLoss ==
  \A l \in Lines :
    /\ received[l] # {}
    /\ \A c \in Clients : ~InboxHas(c, l)
    /\ l \notin excused
    => l \in passed \/ \E c \in relied[l] : c \notin received[l]

(***************************************************************************)
(* Messages start in the order they were claimed in, also those that jump  *)
(* the queue: nobody waits behind a message that was started before it.    *)
(***************************************************************************)
StartsInOrder ==
  \A j, k \in DOMAIN buffer :
    j < k /\ buffer[j] = "waiting" => buffer[k] = "waiting"
=============================================================================
