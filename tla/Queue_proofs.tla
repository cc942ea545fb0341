---------------------------- MODULE Queue_proofs ----------------------------
(***************************************************************************)
(* What Queue guarantees for every set of callers, IDs and waiters, with   *)
(* and without an interval: one entry at a time, first come first served,  *)
(* and no lost wakeup; then what QueuePool guarantees for every size when  *)
(* calls come from ordinary code: no starvation, first come first placed.  *)
(***************************************************************************)
EXTENDS Queue, QueuePool, SequenceTheorems, WellFoundedInduction,
        FiniteSetTheorems, TLAPS

\* The inductive invariant: the three properties need each other, and types.
QTypeOK == /\ q \in QueueType
           /\ promise \in [Calls -> Calls \cup {None}]
           /\ accepted \in Seq(Calls) /\ started \in Seq(Calls)
IInv == QTypeOK /\ OneAtATime /\ Fifo /\ WillConsume
------------------------------------------------------------------------------
\* Moving the head of the second sequence to the end of the first one.
LEMMA MoveHead ==
  ASSUME NEW S, NEW s \in Seq(S), NEW t \in Seq(S), t # <<>>
  PROVE  /\ Head(t) \in S /\ Tail(t) \in Seq(S)
         /\ Append(s, Head(t)) \in Seq(S)
         /\ Append(s, Head(t)) \o Tail(t) = s \o t
  OBVIOUS

\* What the consumer does to a queue: it moves the head of the line into an
\* empty critical section, or leaves both alone.
LEMMA TakeMoves ==
  ASSUME NEW p \in QueueType, ~Busy(p)
  PROVE  /\ Take(p) \in QueueType
         /\ p.items = <<>> => /\ Take(p).items = <<>> /\ ~Busy(Take(p))
                              /\ Take(p).ticks = p.ticks + (IF p.interval THEN 1 ELSE 0)
         /\ p.items # <<>> => /\ Take(p).items = Tail(p.items)
                              /\ Take(p).processing = Head(p.items) /\ Busy(Take(p))
                              /\ Take(p).ticks = p.ticks
         /\ Take(p).interval = p.interval
<1>1. CASE p.items = <<>>
  BY <1>1 DEF Take, QueueType, Busy
<1>2. CASE p.items # <<>>
  <2>1. p.items \in Seq(Calls)
    BY DEF QueueType
  <2>2. Head(p.items) \in Calls /\ Tail(p.items) \in Seq(Calls)
    BY <2>1, <1>2, MoveHead
  <2>. QED  BY <1>2, <2>2, NoneAssumption DEF Take, QueueType, Busy
<1>. QED  BY <1>1, <1>2

LEMMA InitIInv == Init => IInv
<1>. SUFFICES ASSUME Init PROVE IInv
  OBVIOUS
<1>1. QTypeOK
  BY IntervalAssumption DEF Init, QTypeOK, NewQueue, QueueType
<1>2. OneAtATime /\ WillConsume
  BY IntervalAssumption DEF Init, NewQueue, OneAtATime, WillConsume, Busy
<1>3. Fifo
  BY DEF Init, NewQueue, Fifo
<1>. QED  BY <1>1, <1>2, <1>3 DEF IInv

\* A step of the consumer that starts from an empty critical section in queue p
\* keeps the invariant, if that is what p is to the one before.
LEMMA ConsumerStep ==
  ASSUME IInv, NEW p \in QueueType, NEW left \in SUBSET Calls,
         ~Busy(p), p.items = q.items,
         active \ left = {}, {q.processing} \ left \subseteq {None},
         Leaves(Take(p), left), UNCHANGED <<promise, accepted>>,
         q.interval => p.ticks = 0, p.interval = q.interval
  PROVE  QTypeOK' /\ OneAtATime' /\ Fifo' /\ WillConsume'
<1>1. /\ q' = Take(p) /\ q.items \in Seq(Calls) /\ started \in Seq(Calls)
      /\ accepted \in Seq(Calls) /\ q' \in QueueType /\ p.ticks \in Nat
  BY TakeMoves DEF Leaves, IInv, QTypeOK, QueueType
<1>2. active' = {q'.processing} \ {None}
  BY <1>1 DEF Leaves
<1>3. started' = IF q'.processing = None THEN started ELSE Append(started, q'.processing)
  BY <1>1 DEF Leaves
<1>4. CASE p.items = <<>>
  <2>1. q'.items = <<>> /\ q'.processing = None /\ started' = started
    BY <1>1, <1>3, <1>4, TakeMoves DEF Busy
  <2>2. QTypeOK'
    BY <1>1, <2>1 DEF QTypeOK, IInv
  <2>3. OneAtATime'
    BY <1>2, <2>1 DEF OneAtATime, Busy
  <2>4. Fifo'
    BY <2>1, <1>4 DEF Fifo, IInv
  <2>5. WillConsume'
    BY <1>1, <1>4, <2>1, TakeMoves DEF WillConsume, Busy
  <2>. QED  BY <2>2, <2>3, <2>4, <2>5
<1>5. CASE p.items # <<>>
  <2>1. /\ q'.items = Tail(q.items) /\ q'.processing = Head(q.items) /\ q'.processing # None
        /\ started' = Append(started, Head(q.items)) /\ q'.ticks = p.ticks
    BY <1>1, <1>3, <1>5, TakeMoves DEF Busy
  <2>2. started' \in Seq(Calls) /\ started' \o q'.items = started \o q.items
    <3>1. q.items # <<>>
      BY <1>5
    <3>2. /\ Append(started, Head(q.items)) \in Seq(Calls)
          /\ Append(started, Head(q.items)) \o Tail(q.items) = started \o q.items
      <4>1. q.items \in Seq(Calls) /\ started \in Seq(Calls)
        BY <1>1
      <4>2. \A s, t \in Seq(Calls) : t # <<>> => /\ Append(s, Head(t)) \in Seq(Calls)
                                               /\ Append(s, Head(t)) \o Tail(t) = s \o t
        BY MoveHead, Zenon
      <4>. QED  BY <3>1, <4>1, <4>2, Zenon
    <3>. QED  BY <2>1, <3>2
  <2>3. QTypeOK'
    BY <1>1, <2>2 DEF QTypeOK, IInv
  <2>4. OneAtATime'
    BY <1>2, <2>1 DEF OneAtATime, Busy
  <2>5. Fifo'
    BY <2>2 DEF Fifo, IInv
  <2>6. WillConsume'
    BY <1>1, <2>1, TakeMoves DEF WillConsume, Busy
  <2>. QED  BY <2>3, <2>4, <2>5, <2>6
<1>. QED  BY <1>4, <1>5

LEMMA EnqueueStep ==
  ASSUME IInv, NEW c \in Calls, EnqueuePushes(c)
  PROVE  IInv'
<1>1. /\ q.items \in Seq(Calls) /\ q.ticks \in Nat /\ q.processing \in Calls \cup {None}
      /\ q.interval \in BOOLEAN /\ started \in Seq(Calls) /\ accepted \in Seq(Calls)
      /\ q' = Push(q, c) /\ started' = started /\ active' = active
      /\ accepted' = Append(accepted, c)
  BY DEF IInv, QTypeOK, QueueType, EnqueuePushes
<1>2. /\ q'.items = Append(q.items, c) /\ q'.processing = q.processing
      /\ q'.ticks = IF q.interval THEN q.ticks ELSE q.ticks + 1
      /\ q'.interval = q.interval
  BY <1>1 DEF Push, IInv, QTypeOK, QueueType
<1>3. QTypeOK'
  <2>1. Append(q.items, c) \in Seq(Calls) /\ accepted' \in Seq(Calls)
    BY <1>1
  <2>2. q' \in QueueType
    <3>1. q' = [items |-> Append(q.items, c), processing |-> q.processing,
                ticks |-> IF q.interval THEN q.ticks ELSE q.ticks + 1,
                interval |-> q.interval]
      BY <1>1 DEF Push, IInv, QTypeOK, QueueType
    <3>2. (IF q.interval THEN q.ticks ELSE q.ticks + 1) \in Nat
      BY <1>1
    <3>. QED  BY <1>1, <2>1, <3>1, <3>2 DEF QueueType
  <2>3. promise' \in [Calls -> Calls \cup {None}]
    BY DEF IInv, QTypeOK, EnqueuePushes
  <2>. QED  BY <1>1, <2>1, <2>2, <2>3 DEF QTypeOK
<1>4. OneAtATime'
  BY <1>1, <1>2 DEF IInv, OneAtATime, Busy
<1>5. Fifo'
  <2>1. started \in Seq(Calls) /\ q.items \in Seq(Calls)
    BY <1>1
  <2>2. Append(started \o q.items, c) = started \o Append(q.items, c)
    BY <2>1
  <2>. QED  BY <1>1, <1>2, <2>2 DEF IInv, Fifo
<1>6. WillConsume'
  BY <1>1, <1>2 DEF IInv, QTypeOK, QueueType, WillConsume, Busy
<1>. QED  BY <1>3, <1>4, <1>5, <1>6 DEF IInv

LEMMA WakeupStep == ASSUME IInv, Wakeup PROVE IInv'
<1>. DEFINE p == [q EXCEPT !.ticks = @ - 1]
<1>1. /\ q \in QueueType /\ q.ticks > 0 /\ p \in QueueType
      /\ p.items = q.items /\ p.processing = q.processing /\ p.ticks = q.ticks - 1
      /\ p.interval = q.interval
  BY DEF IInv, QTypeOK, QueueType, Wakeup
<1>2. CASE Busy(q)
  <2>1. /\ q' = p /\ active' = active /\ started' = started
        /\ accepted' = accepted /\ q'.items = q.items /\ q'.processing = q.processing
    BY <1>1, <1>2 DEF Wakeup, Leaves, Consume
  <2>2. QTypeOK'
    BY <1>1, <2>1 DEF Wakeup, IInv, QTypeOK
  <2>3. OneAtATime' /\ Fifo'
    BY <1>1, <2>1 DEF IInv, OneAtATime, Fifo, Busy
  <2>4. WillConsume'
    BY <1>1, <1>2, <2>1 DEF IInv, WillConsume, Busy
  <2>. QED  BY <2>2, <2>3, <2>4 DEF IInv
<1>3. CASE ~Busy(q)
  <2>1. Leaves(Take(p), {}) /\ UNCHANGED <<promise, accepted>>
    BY <1>3 DEF Wakeup, Consume
  <2>2. active = {} /\ q.processing = None /\ (q.interval => p.ticks = 0)
    BY <1>1, <1>3 DEF IInv, OneAtATime, WillConsume, Busy
  <2>3. ~Busy(p) /\ active \ {} = {} /\ {q.processing} \ {} \subseteq {None}
    BY <1>1, <2>2 DEF Busy
  <2>4. QTypeOK' /\ OneAtATime' /\ Fifo' /\ WillConsume'
    BY <1>1, <2>1, <2>2, <2>3, ConsumerStep
  <2>. QED  BY <2>4 DEF IInv
<1>. QED  BY <1>2, <1>3

LEMMA SettleStep ==
  ASSUME IInv, NEW c \in Calls, NEW result, Settle(c, result)
  PROVE  IInv'
<1>. DEFINE p == [q EXCEPT !.processing = None]
<1>1. /\ q \in QueueType /\ c \in active /\ active = {q.processing} /\ q.processing = c
      /\ Busy(q) /\ Leaves(Release(q), {c}) /\ UNCHANGED <<promise, accepted>>
  BY DEF IInv, QTypeOK, OneAtATime, Settle
<1>2. /\ p \in QueueType /\ ~Busy(p) /\ p.items = q.items /\ p.ticks = q.ticks
      /\ p.interval = q.interval
  BY <1>1 DEF QueueType, Busy
<1>3. CASE ~q.interval
  <2>1. Release(q) = Take(p)
    BY <1>3 DEF Release
  <2>2. active \ {c} = {} /\ {q.processing} \ {c} \subseteq {None}
    BY <1>1
  <2>3. Leaves(Take(p), {c})
    BY <1>1, <2>1
  <2>4. QTypeOK' /\ OneAtATime' /\ Fifo' /\ WillConsume'
    BY <1>1, <1>2, <1>3, <2>2, <2>3, ConsumerStep
  <2>. QED  BY <2>4 DEF IInv
<1>4. CASE q.interval
  <2>1. q' = [p EXCEPT !.ticks = @ + 1] /\ q.ticks = 0
    BY <1>1, <1>4 DEF Release, Leaves, IInv, WillConsume
  <2>2. /\ q'.processing = None /\ q'.items = q.items /\ q'.ticks = 1 /\ q' \in QueueType
        /\ q'.interval = q.interval
    <3>1. q' = [items |-> q.items, processing |-> None, ticks |-> 1,
                interval |-> q.interval]
      <4>1. p.processing = None /\ p.ticks = 0
        BY <1>2, <2>1 DEF Busy
      <4>. HIDE DEF p
      <4>. QED  BY <1>2, <2>1, <4>1 DEF QueueType
    <3>2. q.items \in Seq(Calls) /\ q.interval \in BOOLEAN
      BY <1>1 DEF QueueType
    <3>. QED  BY <3>1, <3>2 DEF QueueType
  <2>3. active' = {} /\ started' = started
    BY <1>1, <1>4, <2>2 DEF Leaves, Release
  <2>4. QTypeOK'
    BY <1>1, <2>2, <2>3 DEF IInv, QTypeOK
  <2>5. OneAtATime' /\ Fifo' /\ WillConsume'
    BY <1>1, <2>2, <2>3 DEF IInv, OneAtATime, Fifo, WillConsume, Busy
  <2>. QED  BY <2>4, <2>5 DEF IInv
<1>. QED  BY <1>3, <1>4

\* Every step keeps the invariant.
LEMMA NextIInv == IInv /\ [Next]_vars => IInv'
<1>. SUFFICES ASSUME IInv, [Next]_vars PROVE IInv'
  OBVIOUS
<1>1. ASSUME NEW c \in Calls, EnqueueShares(c) PROVE IInv'
  <2>1. promise' \in [Calls -> Calls \cup {None}]
    <3>1. PICK i \in SameId(c) : promise' = [promise EXCEPT ![c] = q.items[i]]
      BY <1>1 DEF EnqueueShares
    <3>2. q.items \in Seq(Calls) /\ i \in DOMAIN q.items
      BY <3>1 DEF IInv, QTypeOK, QueueType, SameId
    <3>3. q.items[i] \in Calls
      BY <3>2
    <3>. QED  BY <3>1, <3>3 DEF IInv, QTypeOK
  <2>2. UNCHANGED <<q, active, accepted, started>>
    BY <1>1 DEF EnqueueShares
  <2>. QED  BY <2>1, <2>2 DEF IInv, QTypeOK, OneAtATime, Fifo, WillConsume, Busy
<1>2. ASSUME NEW c \in Calls, EnqueuePushes(c) PROVE IInv'
  BY <1>2, EnqueueStep
<1>3. ASSUME Wakeup PROVE IInv'
  BY <1>3, WakeupStep
<1>4. ASSUME SomeSettle PROVE IInv'
  BY <1>4, SettleStep DEF SomeSettle
<1>5. ASSUME NEW w \in Waiters, OnceFree(w) PROVE IInv'
  BY <1>5 DEF OnceFree, IInv, QTypeOK, OneAtATime, Fifo, WillConsume, Busy
<1>6. ASSUME KillAll PROVE IInv'
  BY <1>6 DEF KillAll, IInv, QTypeOK, OneAtATime, Fifo, WillConsume, Busy
<1>7. ASSUME UNCHANGED vars PROVE IInv'
  BY <1>7 DEF vars, IInv, QTypeOK, OneAtATime, Fifo, WillConsume, Busy
<1>. QED  BY <1>1, <1>2, <1>3, <1>4, <1>5, <1>6, <1>7 DEF Next

LEMMA AlwaysIInv == Spec => []IInv
BY InitIInv, NextIInv, PTL DEF Spec
------------------------------------------------------------------------------
(***************************************************************************)
(* At no time does the queue have two entries in their critical section,   *)
(* or one it does not know of (Queue.ts, line 38).                         *)
(***************************************************************************)
THEOREM QueueOneAtATime == Spec => []OneAtATime
<1>1. IInv => OneAtATime
  BY DEF IInv
<1>. QED  BY AlwaysIInv, <1>1, PTL

(***************************************************************************)
(* Entries start in the order they were accepted in, none is lost and none *)
(* starts twice (Queue.ts, line 36).                                       *)
(***************************************************************************)
THEOREM QueueFifo == Spec => []Fifo
<1>1. IInv => Fifo
  BY DEF IInv
<1>. QED  BY AlwaysIInv, <1>1, PTL

(***************************************************************************)
(* A queue with entries is being processed or will be looked at, and an    *)
(* interval queue has one timer at most (Queue.ts, lines 120-155).         *)
(***************************************************************************)
THEOREM QueueWillConsume == Spec => []WillConsume
<1>1. IInv => WillConsume
  BY DEF IInv
<1>. QED  BY AlwaysIInv, <1>1, PTL

(***************************************************************************)
(* Every variable keeps its type; the entries whose processFn runs are     *)
(* typed by OneAtATime, the rest by what each step writes.                 *)
(***************************************************************************)
THEOREM QueueTypeCorrect == Spec => []TypeOK
<1>. DEFINE Rest == /\ outcome \in [Calls -> {"none", "pending", "resolved", "rejected"}]
                    /\ waiter \in [Waiters -> {"idle", "waiting", "free"}]
<1>1. Init => Rest
  BY DEF Init
<1>2. Rest /\ [Next]_vars => Rest'
  <2>. SUFFICES ASSUME Rest, [Next]_vars PROVE Rest'
    OBVIOUS
  <2>1. ASSUME NEW c \in Calls, EnqueueShares(c) PROVE Rest'
    BY <2>1 DEF EnqueueShares
  <2>2. ASSUME NEW c \in Calls, EnqueuePushes(c) PROVE Rest'
    BY <2>2 DEF EnqueuePushes
  <2>3. ASSUME Wakeup PROVE Rest'
    BY <2>3 DEF Wakeup, Leaves
  <2>4. ASSUME NEW c \in Calls, NEW result \in {"resolved", "rejected"}, Settle(c, result)
        PROVE  Rest'
    BY <2>4 DEF Settle, Leaves
  <2>5. ASSUME NEW w \in Waiters, OnceFree(w) PROVE Rest'
    BY <2>5 DEF OnceFree
  <2>6. ASSUME KillAll PROVE Rest'
    BY <2>6 DEF KillAll
  <2>7. ASSUME UNCHANGED vars PROVE Rest'
    BY <2>7 DEF vars
  <2>. QED  BY <2>1, <2>2, <2>3, <2>4, <2>5, <2>6, <2>7 DEF Next, SomeSettle
<1>3. IInv /\ Rest => TypeOK
  BY DEF IInv, QTypeOK, OneAtATime, QueueType, TypeOK, Busy
<1>. QED  BY <1>1, <1>2, <1>3, AlwaysIInv, PTL DEF Spec

\* The waiting entries change in two ways: the consumer removes the head, an
\* accepted entry goes to the end.
LEMMA ConsumedItems ==
  ASSUME NEW p \in QueueType
  PROVE  Take(p).items = p.items \/ (p.items # <<>> /\ Take(p).items = Tail(p.items))
BY DEF Take, QueueType

(***************************************************************************)
(* No two waiting entries have one ID: a request whose ID is queued shares *)
(* the promise of the entry that has it (Queue.ts, lines 99-103).          *)
(***************************************************************************)
THEOREM QueueNoDuplicateIds == Spec => []NoDuplicateIds
<1>. DEFINE Distinct(s) == \A i, j \in DOMAIN s : IdOf[s[i]] = IdOf[s[j]] => i = j
<1>1. Init => NoDuplicateIds
  BY DEF Init, NewQueue, NoDuplicateIds
<1>2. ASSUME NEW s \in Seq(Calls), s # <<>>, Distinct(s) PROVE Distinct(Tail(s))
  <2>1. \A i \in DOMAIN Tail(s) : i + 1 \in DOMAIN s /\ Tail(s)[i] = s[i + 1] /\ i \in Nat
    BY <1>2
  <2>. QED  BY <1>2, <2>1
<1>3. ASSUME NEW s \in Seq(Calls), NEW c \in Calls, Distinct(s),
             \A i \in DOMAIN s : IdOf[s[i]] # IdOf[c]
      PROVE  Distinct(Append(s, c))
  <2>1. \A i \in DOMAIN Append(s, c) :
          \/ i \in DOMAIN s /\ Append(s, c)[i] = s[i]
          \/ i = Len(s) + 1 /\ Append(s, c)[i] = c
    BY <1>3
  <2>. QED  BY <1>3, <2>1
<1>4. IInv /\ NoDuplicateIds /\ [Next]_vars => NoDuplicateIds'
  <2>. SUFFICES ASSUME IInv, NoDuplicateIds, [Next]_vars PROVE NoDuplicateIds'
    OBVIOUS
  <2>1. q \in QueueType /\ q.items \in Seq(Calls) /\ Distinct(q.items)
    BY DEF IInv, QTypeOK, QueueType, NoDuplicateIds
  <2>2. ASSUME q'.items = q.items \/ (q.items # <<>> /\ q'.items = Tail(q.items))
        PROVE  NoDuplicateIds'
    BY <1>2, <2>1, <2>2 DEF NoDuplicateIds
  <2>3. ASSUME NEW c \in Calls, EnqueuePushes(c) PROVE NoDuplicateIds'
    <3>1. q'.items = Append(q.items, c)
      BY <2>1, <2>3 DEF EnqueuePushes, Push, QueueType
    <3>2. \A i \in DOMAIN q.items : IdOf[q.items[i]] # IdOf[c]
      BY <2>3 DEF EnqueuePushes, SameId
    <3>3. Distinct(Append(q.items, c))
      BY <1>3, <2>1, <3>2
    <3>. QED  BY <3>1, <3>3 DEF NoDuplicateIds
  <2>4. ASSUME Wakeup PROVE NoDuplicateIds'
    <3>. DEFINE p == [q EXCEPT !.ticks = @ - 1]
    <3>1. p \in QueueType /\ p.items = q.items
      BY <2>1, <2>4 DEF Wakeup, QueueType
    <3>2. q' = p \/ q' = Take(p)
      BY <2>4 DEF Wakeup, Leaves, Consume
    <3>. QED  BY <2>2, <3>1, <3>2, ConsumedItems
  <2>5. ASSUME SomeSettle PROVE NoDuplicateIds'
    <3>. DEFINE p == [q EXCEPT !.processing = None]
    <3>1. p \in QueueType /\ p.items = q.items
      BY <2>1 DEF QueueType
    <3>2. q' = [p EXCEPT !.ticks = @ + 1] \/ q' = Take(p)
      BY <2>5 DEF SomeSettle, Settle, Leaves, Release
    <3>3. [p EXCEPT !.ticks = @ + 1].items = p.items
      BY <3>1 DEF QueueType
    <3>. QED  BY <2>2, <3>1, <3>2, <3>3, ConsumedItems
  <2>6. ASSUME UNCHANGED q PROVE NoDuplicateIds'
    BY <2>2, <2>6
  <2>. QED
    BY <2>3, <2>4, <2>5, <2>6 DEF Next, EnqueueShares, OnceFree, KillAll, vars
<1>. QED  BY <1>1, <1>4, AlwaysIInv, PTL DEF Spec

(***************************************************************************)
(* The promise a call is given is that of an entry that waits: a request   *)
(* whose ID is only being processed is queued again (Queue.ts, lines       *)
(* 99-109).                                                                *)
(***************************************************************************)
THEOREM QueueSharesQueuedOnly == Spec => SharesQueuedOnly
<1>. DEFINE Shares == \A c \in Calls : promise'[c] # promise[c] => promise'[c] \in Range(q'.items)
<1>1. ASSUME IInv, NEW c \in Calls, EnqueueShares(c) PROVE Shares
  <2>1. PICK i \in SameId(c) : promise' = [promise EXCEPT ![c] = q.items[i]]
    BY <1>1 DEF EnqueueShares
  <2>2. q.items[i] \in Range(q.items) /\ q' = q
    BY <1>1 DEF SameId, Range, EnqueueShares
  <2>. QED  BY <1>1, <2>1, <2>2 DEF IInv, QTypeOK
<1>2. ASSUME IInv, NEW c \in Calls, EnqueuePushes(c) PROVE Shares
  <2>1. q \in QueueType /\ q.items \in Seq(Calls)
    BY <1>2 DEF IInv, QTypeOK, QueueType
  <2>2. q'.items = Append(q.items, c) /\ promise' = [promise EXCEPT ![c] = c]
    BY <1>2, <2>1 DEF EnqueuePushes, Push, QueueType
  <2>3. Len(q.items) + 1 \in DOMAIN q'.items /\ q'.items[Len(q.items) + 1] = c
    BY <2>1, <2>2
  <2>4. c \in Range(q'.items)
    BY <2>3 DEF Range
  <2>. QED  BY <1>2, <2>2, <2>4 DEF IInv, QTypeOK
<1>3. IInv /\ [Next]_vars => [Shares]_vars
  <2>. SUFFICES ASSUME IInv, Next PROVE Shares
    OBVIOUS
  <2>1. CASE promise' = promise
    BY <2>1
  <2>2. CASE \E c \in Calls : EnqueueShares(c) \/ EnqueuePushes(c)
    BY <1>1, <1>2, <2>2
  <2>. QED
    BY <2>1, <2>2 DEF Next, Wakeup, SomeSettle, Settle, OnceFree, KillAll
<1>. QED  BY <1>3, AlwaysIInv, PTL DEF Spec, SharesQueuedOnly

(***************************************************************************)
(* onceFree resolves only when nothing is queued or being processed        *)
(* (Queue.ts, lines 74-87 and 129-134).                                    *)
(***************************************************************************)
THEOREM QueueFreeMeansFree == Spec => FreeMeansFree
<1>. DEFINE Promise == \A w \in Waiters :
              waiter'[w] # waiter[w] /\ waiter'[w] = "free" => Size(q') = 0
<1>1. ASSUME NEW p, Drained(p) PROVE Size(p) = 0
  BY <1>1 DEF Drained, Size, Busy
<1>2. ASSUME NEW p, NEW left, Leaves(p, left) PROVE Promise
  BY <1>1, <1>2 DEF Leaves
<1>3. [Next]_vars => [Promise]_vars
  <2>. SUFFICES ASSUME Next PROVE Promise
    OBVIOUS
  <2>1. ASSUME NEW w \in Waiters, OnceFree(w) PROVE Promise
    BY <2>1 DEF OnceFree
  <2>2. ASSUME Wakeup PROVE Promise
    BY <1>2, <2>2 DEF Wakeup
  <2>3. ASSUME SomeSettle PROVE Promise
    BY <1>2, <2>3 DEF SomeSettle, Settle
  <2>4. ASSUME UNCHANGED waiter PROVE Promise
    BY <2>4
  <2>. QED  BY <2>1, <2>2, <2>3, <2>4 DEF Next, EnqueueShares, EnqueuePushes, KillAll
<1>. QED  BY <1>3, PTL DEF Spec, FreeMeansFree
------------------------------------------------------------------------------
(* The queue implements the line with one server.                          *)

\* What relates the history to the callers: an entry is accepted once, and
\* what is being processed was started.
Once == /\ \A i, j \in DOMAIN accepted : accepted[i] = accepted[j] => i = j
        /\ \A i \in DOMAIN accepted : promise[accepted[i]] # None
        /\ active \subseteq Range(started)

LEMMA LeavesStarted ==
  ASSUME NEW p, NEW left, Leaves(p, left), q \in QueueType, p.processing \in Calls \cup {None},
         started \in Seq(Calls), active \subseteq Range(started)
  PROVE  active' \subseteq Range(started')
<1>. DEFINE entered == {p.processing} \ ({None} \cup ({q.processing} \ left))
<1>1. /\ active' = (active \ left) \cup entered
      /\ started' = IF entered = {} THEN started ELSE Append(started, p.processing)
  BY DEF Leaves
<1>2. CASE entered = {}
  BY <1>1, <1>2
<1>3. CASE entered # {}
  <2>1. p.processing \in Calls /\ entered = {p.processing}
    BY <1>3
  <2>2. /\ \A i \in DOMAIN started : i \in DOMAIN started' /\ started'[i] = started[i]
        /\ Len(started) + 1 \in DOMAIN started' /\ started'[Len(started) + 1] = p.processing
    BY <1>1, <1>3, <2>1
  <2>. QED  BY <1>1, <2>1, <2>2 DEF Range
<1>. QED  BY <1>2, <1>3

LEMMA AlwaysOnce == Spec => []Once
<1>1. Init => Once
  BY DEF Init, Once
<1>2. IInv /\ Once /\ [Next]_vars => Once'
  <2>. SUFFICES ASSUME IInv, Once, [Next]_vars PROVE Once'
    OBVIOUS
  <2>1. /\ accepted \in Seq(Calls) /\ promise \in [Calls -> Calls \cup {None}]
        /\ q.items \in Seq(Calls) /\ started \in Seq(Calls) /\ q \in QueueType
    BY DEF IInv, QTypeOK, QueueType
  <2>2. ASSUME NEW c \in Calls, EnqueueShares(c) PROVE Once'
    <3>1. PICK i \in SameId(c) : promise' = [promise EXCEPT ![c] = q.items[i]]
      BY <2>2 DEF EnqueueShares
    <3>2. q.items[i] # None
      BY <2>1, NoneAssumption DEF SameId
    <3>3. \A k \in DOMAIN accepted : accepted[k] \in Calls
      BY <2>1
    <3>. QED  BY <2>1, <2>2, <3>1, <3>2, <3>3 DEF Once, EnqueueShares
  <2>3. ASSUME NEW c \in Calls, EnqueuePushes(c) PROVE Once'
    <3>1. /\ accepted' = Append(accepted, c) /\ promise' = [promise EXCEPT ![c] = c]
          /\ promise[c] = None
      BY <2>3 DEF EnqueuePushes
    <3>2. \A i \in DOMAIN accepted : accepted[i] # c /\ accepted[i] \in Calls
      BY <2>1, <3>1 DEF Once
    <3>3. \A i \in DOMAIN accepted' :
            \/ i \in DOMAIN accepted /\ accepted'[i] = accepted[i]
            \/ i = Len(accepted) + 1 /\ accepted'[i] = c
      BY <2>1, <3>1
    <3>4. \A i \in DOMAIN accepted' : promise'[accepted'[i]] # None
      BY <2>1, <3>1, <3>2, <3>3, NoneAssumption DEF Once
    <3>5. \A i, j \in DOMAIN accepted' : accepted'[i] = accepted'[j] => i = j
      BY <3>2, <3>3 DEF Once
    <3>. QED  BY <2>3, <3>4, <3>5 DEF Once, EnqueuePushes
  <2>4. ASSUME UNCHANGED <<accepted, promise, active, started>> PROVE Once'
    BY <2>4 DEF Once
  <2>5. ASSUME Wakeup \/ SomeSettle PROVE Once'
    <3>1. UNCHANGED <<accepted, promise>> /\ \E p, left : Leaves(p, left)
      BY <2>5 DEF Wakeup, SomeSettle, Settle
    <3>2. q'.processing \in Calls \cup {None} /\ \E left : Leaves(q', left)
      BY <2>1, <3>1, NextIInv DEF IInv, QTypeOK, QueueType, Leaves
    <3>3. active' \subseteq Range(started')
      BY <2>1, <3>2, LeavesStarted DEF Once
    <3>. QED  BY <3>1, <3>3 DEF Once
  <2>. QED
    BY <2>2, <2>3, <2>4, <2>5 DEF Next, OnceFree, KillAll, vars
<1>. QED  BY <1>1, <1>2, AlwaysIInv, PTL DEF Spec

\* What starts was not started before.
LEMMA StartedOnce ==
  ASSUME IInv, Once
  PROVE  q.items # <<>> => Head(q.items) \notin Range(started)
<1>1. started \in Seq(Calls) /\ q.items \in Seq(Calls) /\ accepted = started \o q.items
  BY DEF IInv, QTypeOK, QueueType, Fifo
<1>2. ASSUME q.items # <<>> PROVE Head(q.items) \notin Range(started)
  <2>1. /\ Len(started) + 1 \in DOMAIN accepted /\ accepted[Len(started) + 1] = Head(q.items)
        /\ \A i \in DOMAIN started : i \in DOMAIN accepted /\ accepted[i] = started[i]
                                   /\ i # Len(started) + 1
    BY <1>1, <1>2
  <2>. QED  BY <2>1 DEF Once, Range
<1>. QED  BY <1>2

LEMMA AtMostOne == ASSUME NEW S, S = {} \/ \E x : S = {x} PROVE Line!Cardinality(S) <= 1
<1>1. Line!Cardinality(S) = Cardinality(S)
  BY DEF Line!Cardinality, Cardinality
<1>2. CASE S = {}
  <2>1. Cardinality({}) = 0
    BY FS_EmptySet
  <2>. QED  BY <1>1, <1>2, <2>1
<1>3. ASSUME NEW x, S = {x} PROVE Line!Cardinality(S) <= 1
  <2>1. Cardinality({x}) = 1
    BY FS_Singleton
  <2>. QED  BY <1>1, <1>3, <2>1
<1>. QED  BY <1>2, <1>3

\* Nobody joins, those being served finish, the first k are taken.
LEMMA ServeStep ==
  ASSUME IInv, active = {} \/ \E c \in Calls : active = {c}, NEW k \in 0..1, k <= Len(q.items),
         q'.items = SubSeq(q.items, k + 1, Len(q.items)),
         active' = {q.items[i] : i \in 1..k},
         Range(started') \ active' = (Range(started) \ active) \cup active
  PROVE  Line!LineNext
<1>1. q.items \in Seq(Calls)
  BY DEF IInv, QTypeOK, QueueType
<1>2. q.items \o <<>> = q.items
  BY <1>1
<1>3. active' = {} \/ active' = {q.items[1]}
  <2>1. CASE k = 0
    BY <2>1
  <2>2. CASE k = 1
    BY <2>2
  <2>. QED  BY <2>1, <2>2
<1>4. Line!Cardinality(active') <= 1
  BY <1>3, AtMostOne
<1>5. Line!Move(<<>>, active, k)
  BY <1>1, <1>2, <1>4 DEF Line!Move
<1>6. active \in {{}} \cup {{c} : c \in active}
  OBVIOUS
<1>. QED  BY <1>5, <1>6 DEF Line!LineNext

\* The consumer, from an empty critical section, takes one entry or none.
LEMMA ConsumerServes ==
  ASSUME IInv, Once, NEW p \in QueueType, NEW left \in SUBSET Calls,
         ~Busy(p), p.items = q.items,
         active \ left = {}, {q.processing} \ left \subseteq {None},
         Leaves(Take(p), left)
  PROVE  Line!LineNext
<1>1. /\ q' = Take(p) /\ q.items \in Seq(Calls) /\ started \in Seq(Calls)
      /\ active = {} \/ \E c \in Calls : active = {c}
  BY DEF Leaves, IInv, QTypeOK, QueueType, OneAtATime, Busy
<1>2. active' = {q'.processing} \ {None}
  BY <1>1 DEF Leaves
<1>3. started' = IF q'.processing = None THEN started ELSE Append(started, q'.processing)
  BY <1>1 DEF Leaves
<1>4. CASE p.items = <<>>
  <2>1. q'.items = <<>> /\ active' = {} /\ started' = started
    BY <1>1, <1>2, <1>3, <1>4, TakeMoves DEF Busy
  <2>2. Range(started') \ active' = (Range(started) \ active) \cup active
    BY <2>1 DEF Once
  <2>3. 0 <= Len(q.items) /\ SubSeq(q.items, 0 + 1, Len(q.items)) = q'.items
    BY <1>4, <2>1
  <2>4. active' = {q.items[i] : i \in 1..0}
    BY <2>1
  <2>. QED  BY <1>1, <2>2, <2>3, <2>4, ServeStep
<1>5. CASE p.items # <<>>
  <2>. DEFINE d == Head(q.items)
  <2>1. /\ q'.items = Tail(q.items) /\ active' = {d} /\ started' = Append(started, d)
        /\ d \in Calls
    BY <1>1, <1>2, <1>3, <1>5, TakeMoves, MoveHead DEF Busy
  <2>2. /\ \A i \in DOMAIN started' : \/ i \in DOMAIN started /\ started'[i] = started[i]
                                    \/ started'[i] = d
        /\ \A i \in DOMAIN started : i \in DOMAIN started' /\ started'[i] = started[i]
        /\ Len(started) + 1 \in DOMAIN started' /\ started'[Len(started) + 1] = d
    BY <1>1, <2>1
  <2>3. Range(started') = Range(started) \cup {d}
    BY <2>2 DEF Range
  <2>4. d \notin Range(started) /\ active \subseteq Range(started)
    BY <1>5, StartedOnce DEF Once
  <2>5. Range(started') \ active' = (Range(started) \ active) \cup active
    BY <2>1, <2>3, <2>4
  <2>6. /\ 1 <= Len(q.items) /\ SubSeq(q.items, 1 + 1, Len(q.items)) = q'.items
        /\ q.items[1] = d
    BY <1>1, <1>5, <2>1
  <2>7. active' = {q.items[i] : i \in 1..1}
    BY <2>1, <2>6
  <2>. QED  BY <1>1, <2>5, <2>6, <2>7, ServeStep
<1>. QED  BY <1>4, <1>5

(***************************************************************************)
(* The queue implements the safety part of the line with one server: every *)
(* step serves, finishes or queues as the line does, or is invisible to it.*)
(***************************************************************************)
THEOREM QueueServesLine == Spec => Line!LineSafety
<1>1. Init => Line!LineInit
  BY DEF Init, NewQueue, Line!LineInit, Range
<1>2. IInv /\ Once /\ [Next]_vars => [Line!LineNext]_(Line!lineVars)
  <2>. SUFFICES ASSUME IInv, Once, Next PROVE Line!LineNext \/ UNCHANGED Line!lineVars
    BY DEF vars, Line!lineVars
  <2>1. /\ q \in QueueType /\ q.items \in Seq(Calls)
        /\ active = {} \/ \E c \in Calls : active = {c}
        /\ Busy(q) => active = {q.processing}
        /\ ~Busy(q) => active = {} /\ q.processing = None
    BY DEF IInv, QTypeOK, QueueType, OneAtATime, Busy
  <2>2. ASSUME NEW c \in Calls, EnqueuePushes(c) PROVE Line!LineNext
    <3>1. q'.items = Append(q.items, c) /\ UNCHANGED <<active, started>>
      BY <2>1, <2>2 DEF EnqueuePushes, Push, QueueType
    <3>2. q.items \o <<c>> = q'.items /\ SubSeq(q'.items, 0 + 1, Len(q'.items)) = q'.items
      BY <2>1, <3>1
    <3>3. Line!Cardinality(active') <= 1 /\ 0 <= Len(q'.items)
      <4>1. Line!Cardinality(active) <= 1
        BY <2>1, AtMostOne
      <4>. QED  BY <2>1, <3>1, <4>1
    <3>4. Line!Move(<<c>>, {}, 0)
      BY <3>1, <3>2, <3>3 DEF Line!Move
    <3>5. c \notin Range(started)
      <4>1. \A i \in DOMAIN started : i \in DOMAIN accepted /\ accepted[i] = started[i]
        BY DEF IInv, QTypeOK, QueueType, Fifo
      <4>. QED  BY <2>2, <4>1 DEF EnqueuePushes, Once, Range
    <3>6. \A i \in DOMAIN <<c>> : <<c>>[i] = c
      OBVIOUS
    <3>. QED  BY <3>4, <3>5, <3>6 DEF Line!LineNext, Once
  <2>3. ASSUME Wakeup PROVE Line!LineNext \/ UNCHANGED Line!lineVars
    <3>. DEFINE p == [q EXCEPT !.ticks = @ - 1]
    <3>1. p \in QueueType /\ p.items = q.items /\ p.processing = q.processing
      BY <2>1, <2>3 DEF Wakeup, QueueType
    <3>2. CASE Busy(q)
      <4>1. Leaves(p, {})
        BY <2>3, <3>2 DEF Wakeup, Consume
      <4>. QED  BY <3>1, <4>1 DEF Leaves, Line!lineVars
    <3>3. CASE ~Busy(q)
      <4>1. Leaves(Take(p), {})
        BY <2>3, <3>3 DEF Wakeup, Consume
      <4>2. ~Busy(p) /\ active \ {} = {} /\ {q.processing} \ {} \subseteq {None}
        BY <2>1, <3>1, <3>3 DEF Busy
      <4>. QED  BY <3>1, <4>1, <4>2, ConsumerServes
    <3>. QED  BY <3>2, <3>3
  <2>4. ASSUME NEW c \in Calls, NEW result, Settle(c, result) PROVE Line!LineNext
    <3>. DEFINE p == [q EXCEPT !.processing = None]
    <3>1. active = {c} /\ q.processing = c /\ Leaves(Release(q), {c})
      BY <2>1, <2>4 DEF Settle
    <3>2. p \in QueueType /\ p.items = q.items /\ p.processing = None /\ ~Busy(p)
      BY <2>1 DEF QueueType, Busy
    <3>3. CASE ~q.interval
      BY <3>1, <3>2, <3>3, ConsumerServes DEF Release
    <3>4. CASE q.interval
      <4>1. q' = [p EXCEPT !.ticks = @ + 1]
        BY <3>1, <3>4 DEF Leaves, Release
      <4>2. q'.items = q.items /\ q'.processing = None
        BY <3>2, <4>1 DEF QueueType
      <4>3. active' = {} /\ started' = started
        BY <3>1, <3>4, <4>1, <4>2 DEF Leaves, Release
      <4>4. Range(started') \ active' = (Range(started) \ active) \cup active
        BY <4>3 DEF Once
      <4>5. 0 <= Len(q.items) /\ SubSeq(q.items, 0 + 1, Len(q.items)) = q'.items
        BY <2>1, <4>2
      <4>6. active' = {q.items[i] : i \in 1..0}
        BY <4>3
      <4>. QED  BY <2>1, <4>4, <4>5, <4>6, ServeStep
    <3>. QED  BY <3>3, <3>4
  <2>5. ASSUME UNCHANGED <<q, active, started>> PROVE UNCHANGED Line!lineVars
    BY <2>5 DEF Line!lineVars
  <2>. QED
    BY <2>2, <2>3, <2>4, <2>5 DEF Next, SomeSettle, EnqueueShares, OnceFree, KillAll
<1>. QED  BY <1>1, <1>2, AlwaysIInv, AlwaysOnce, PTL DEF Spec, Line!LineSafety
------------------------------------------------------------------------------
(***************************************************************************)
(* The pool of queues, when every call is made by ordinary code.           *)
(***************************************************************************)
PoolQueue == [items: Seq(Calls), processing: Calls \cup {None}, ticks: Nat, interval: {FALSE}]
Answers == {"none", "pending", "resolved", "rejected", "starved"}

PoolTypes ==
  /\ pool \in [Queues -> PoolQueue] /\ overflow \in PoolQueue
  /\ stage \in {"idle", "waiting", "handed", "starved"}
  /\ winner \in 0..N
  /\ loop \in {"turn", "flush", "drain"}
  /\ answer \in [Calls -> Answers]
  /\ placed \in Seq(Calls) /\ asked \in Seq(Calls)

\* onOverflow works on the entry in the overflow queue's critical section; an entry that
\* has not reached it found every queue taken, and its consumer is due.
StageRight ==
  /\ stage = "idle" <=> ~Busy(overflow)
  /\ stage = "handed" => loop = "drain"
  /\ ~Busy(overflow) /\ overflow.items # <<>> =>
       overflow.ticks > 0 /\ loop # "drain" /\ \A i \in Queues : ~Drained(pool[i])

\* Until one of them wins, no queue is free; the winner is looked at before ordinary code
\* runs again, and nothing else takes it.
WinnerFree ==
  /\ winner # 0 => stage = "waiting" /\ loop = "drain" /\ Drained(pool[winner])
  /\ stage = "waiting" /\ winner = 0 => \A i \in Queues : ~Drained(pool[i])

\* What was asked for and has no queue yet waits in the overflow queue, in order.
GivenOut == IF stage = "waiting" THEN Append(placed, overflow.processing) ELSE placed
InOrder == asked = GivenOut \o overflow.items

PoolInv == PoolTypes /\ NoStarvation /\ StageRight /\ WinnerFree /\ InOrder
------------------------------------------------------------------------------
\* What a queue of the pool is after each of its methods.
LEMMA PoolPush ==
  ASSUME NEW p \in PoolQueue, NEW c \in Calls
  PROVE  /\ Push(p, c) \in PoolQueue /\ ~Drained(Push(p, c))
         /\ Push(p, c).items = Append(p.items, c) /\ Push(p, c).processing = p.processing
         /\ Push(p, c).ticks = p.ticks + 1
<1>1. p.items \in Seq(Calls) /\ p.ticks \in Nat /\ p.interval = FALSE
  BY DEF PoolQueue
<1>2. Append(p.items, c) \in Seq(Calls) /\ Append(p.items, c) # <<>> /\ p.ticks + 1 \in Nat
  BY <1>1
<1>3. /\ Push(p, c).items = Append(p.items, c) /\ Push(p, c).processing = p.processing
      /\ Push(p, c).ticks = p.ticks + 1
  BY <1>1 DEF Push, PoolQueue
<1>4. Push(p, c) \in PoolQueue
  BY <1>1, <1>2 DEF Push, PoolQueue
<1>. QED  BY <1>2, <1>3, <1>4 DEF Drained

LEMMA PoolTake ==
  ASSUME NEW p \in PoolQueue, p.processing = None
  PROVE  /\ Take(p) \in PoolQueue /\ Take(p).ticks = p.ticks
         /\ p.items = <<>> => Take(p) = p
         /\ p.items # <<>> => /\ Take(p).items = Tail(p.items) /\ Take(p).processing = Head(p.items)
                              /\ Head(p.items) \in Calls /\ Busy(Take(p))
<1>1. p.items \in Seq(Calls) /\ p.ticks \in Nat /\ p.interval = FALSE
  BY DEF PoolQueue
<1>2. CASE p.items = <<>>
  BY <1>1, <1>2 DEF Take, PoolQueue
<1>3. CASE p.items # <<>>
  <2>1. Head(p.items) \in Calls /\ Tail(p.items) \in Seq(Calls)
    BY <1>1, <1>3
  <2>2. Take(p) = [p EXCEPT !.processing = Head(p.items), !.items = Tail(@)]
    BY <1>3 DEF Take
  <2>3. Take(p) \in PoolQueue
    BY <2>1, <2>2 DEF PoolQueue
  <2>4. /\ Take(p).items = Tail(p.items) /\ Take(p).processing = Head(p.items)
        /\ Take(p).ticks = p.ticks
    BY <2>2 DEF PoolQueue
  <2>. QED  BY <1>3, <2>1, <2>3, <2>4, NoneAssumption DEF Busy
<1>. QED  BY <1>2, <1>3

LEMMA PoolConsume ==
  ASSUME NEW p \in PoolQueue, p.ticks > 0
  PROVE  /\ Consume(p) \in PoolQueue /\ Consume(p).ticks = p.ticks - 1
         /\ Busy(p) \/ p.items = <<>> =>
              Consume(p).items = p.items /\ Consume(p).processing = p.processing
         /\ ~Busy(p) /\ p.items # <<>> =>
              /\ Consume(p).items = Tail(p.items) /\ Consume(p).processing = Head(p.items)
              /\ Head(p.items) \in Calls /\ Busy(Consume(p))
         /\ Drained(Consume(p)) <=> Drained(p)
<1>. DEFINE r == [p EXCEPT !.ticks = @ - 1]
<1>1. r \in PoolQueue /\ r.items = p.items /\ r.processing = p.processing /\ r.ticks = p.ticks - 1
  <2>1. p.ticks - 1 \in Nat
    BY DEF PoolQueue
  <2>. QED  BY <2>1 DEF PoolQueue
<1>2. Consume(p) = IF Busy(p) THEN r ELSE Take(r)
  BY DEF Consume
<1>. HIDE DEF r
<1>3. CASE Busy(p)
  BY <1>1, <1>2, <1>3 DEF Drained, Busy
<1>4. CASE ~Busy(p)
  <2>1. r.processing = None
    BY <1>1, <1>4 DEF Busy
  <2>. QED  BY <1>1, <1>2, <1>4, <2>1, PoolTake DEF Drained, Busy
<1>. QED  BY <1>3, <1>4

LEMMA PoolRelease ==
  ASSUME NEW p \in PoolQueue, Busy(p)
  PROVE  /\ Release(p) \in PoolQueue
         /\ p.items = <<>> => Release(p).items = <<>> /\ Release(p).processing = None
         /\ p.items # <<>> =>
              /\ Release(p).items = Tail(p.items) /\ Release(p).processing = Head(p.items)
              /\ Head(p.items) \in Calls /\ Busy(Release(p))
<1>. DEFINE r == [p EXCEPT !.processing = None]
<1>1. r \in PoolQueue /\ r.items = p.items /\ r.processing = None /\ r.interval = FALSE
  BY DEF PoolQueue
<1>2. Release(p) = Take(r)
  BY <1>1 DEF Release, PoolQueue
<1>. HIDE DEF r
<1>. QED  BY <1>1, <1>2, PoolTake

\* A nonempty set of queues has a first one.
LEMMA FirstOne ==
  ASSUME NEW S \in SUBSET Nat, S # {}
  PROVE  \E i \in S : \A j \in S : i <= j
<1>1. PICK i \in S : \A j \in S : ~(<<j, i>> \in OpToRel(<, Nat))
  BY NatLessThanWellFounded, WFMin
<1>2. \A j \in S : ~(j < i)
  BY <1>1 DEF OpToRel
<1>. QED  BY <1>2

LEMMA FreeFacts ==
  ASSUME PoolTypes
  PROVE  /\ \A i \in Queues : i \in AnyFree <=> Drained(pool[i])
         /\ AnyFree \subseteq Queues
         /\ AnyFree # {} => FirstFree \in AnyFree
<1>1. ASSUME NEW i \in Queues PROVE Size(pool[i]) = 0 <=> Drained(pool[i])
  <2>1. pool[i] \in PoolQueue
    BY DEF PoolTypes
  <2>. DEFINE waiting == pool[i].items
  <2>2. waiting \in Seq(Calls)
    BY <2>1 DEF PoolQueue
  <2>. HIDE DEF waiting
  <2>3. Len(waiting) \in Nat /\ (Len(waiting) = 0 <=> waiting = <<>>)
    BY <2>2, LenProperties, EmptySeq
  <2>4. Size(pool[i]) = Len(waiting) + (IF pool[i].processing = None THEN 0 ELSE 1)
    BY DEF Size, waiting
  <2>5. Size(pool[i]) = 0 <=> waiting = <<>> /\ pool[i].processing = None
    BY <2>3, <2>4
  <2>. QED  BY <2>5 DEF Drained, Busy, waiting
<1>2. \A i \in Queues : i \in AnyFree <=> Drained(pool[i])
  BY <1>1 DEF AnyFree
<1>3. AnyFree \subseteq Queues /\ Queues \subseteq Nat
  BY PoolAssumption DEF AnyFree, Queues
<1>4. ASSUME AnyFree # {} PROVE FirstFree \in AnyFree
  <2>1. \E i \in AnyFree : \A j \in AnyFree : i <= j
    BY <1>3, <1>4, FirstOne
  <2>. QED  BY <2>1 DEF FirstFree
<1>. QED  BY <1>2, <1>3, <1>4

\* Entries join the line at its end and leave it at its head.
LEMMA JoinLine ==
  ASSUME NEW s \in Seq(Calls), NEW t \in Seq(Calls), NEW c \in Calls
  PROVE  Append(s \o t, c) = s \o Append(t, c)
<1>1. s \o t \in Seq(Calls) /\ <<c>> \in Seq(Calls)
  OBVIOUS
<1>2. Append(s \o t, c) = (s \o t) \o <<c>> /\ Append(t, c) = t \o <<c>>
  BY <1>1, AppendIsConcat
<1>3. (s \o t) \o <<c>> = s \o (t \o <<c>>)
  BY <1>1, ConcatAssociative
<1>. QED  BY <1>2, <1>3

LEMMA SplitLine ==
  ASSUME NEW s \in Seq(Calls), NEW t \in Seq(Calls), NEW c \in Calls
  PROVE  \E rest \in Seq(Calls) : Append(s, c) \o t = s \o rest
<1>1. <<c>> \in Seq(Calls) /\ <<c>> \o t \in Seq(Calls)
  OBVIOUS
<1>2. Append(s, c) = s \o <<c>>
  BY AppendIsConcat
<1>3. (s \o <<c>>) \o t = s \o (<<c>> \o t)
  BY <1>1, ConcatAssociative
<1>. QED  BY <1>1, <1>2, <1>3

LEMMA LeaveLine ==
  ASSUME NEW s \in Seq(Calls), NEW t \in Seq(Calls), t # <<>>
  PROVE  /\ Append(s, Head(t)) \in Seq(Calls)
         /\ s \o t = Append(s, Head(t)) \o Tail(t)
  OBVIOUS
------------------------------------------------------------------------------
LEMMA PoolTypeFacts ==
  ASSUME PoolTypes
  PROVE  /\ \A i \in Queues : pool[i] \in PoolQueue
         /\ DOMAIN pool = Queues /\ overflow \in PoolQueue
         /\ overflow.items \in Seq(Calls) /\ overflow.ticks \in Nat
         /\ stage = "waiting" /\ Busy(overflow) => overflow.processing \in Calls
         /\ placed \in Seq(Calls) /\ asked \in Seq(Calls) /\ winner \in 0..N
         /\ answer \in [Calls -> Answers]
  BY DEF PoolTypes, PoolQueue, Busy

LEMMA PoolTypeParts ==
  ASSUME pool' \in [Queues -> PoolQueue], overflow' \in PoolQueue,
         stage' \in {"idle", "waiting", "handed", "starved"}, winner' \in 0..N,
         loop' \in {"turn", "flush", "drain"}, answer' \in [Calls -> Answers],
         placed' \in Seq(Calls), asked' \in Seq(Calls)
  PROVE  PoolTypes'
  BY DEF PoolTypes

LEMMA PoolChanged ==
  ASSUME PoolTypes, NEW i \in Queues, NEW p \in PoolQueue, pool' = [pool EXCEPT ![i] = p]
  PROVE  /\ pool' \in [Queues -> PoolQueue] /\ pool'[i] = p
         /\ \A j \in Queues : j # i => pool'[j] = pool[j]
  BY DEF PoolTypes

LEMMA PoolInitInv == QueuesInit => PoolInv
<1>. SUFFICES ASSUME QueuesInit PROVE PoolInv
  OBVIOUS
<1>1. NewQueue(FALSE) \in PoolQueue /\ Drained(NewQueue(FALSE)) /\ ~Busy(NewQueue(FALSE))
      /\ NewQueue(FALSE).items = <<>>
  BY EmptySeq DEF NewQueue, PoolQueue, Drained, Busy
<1>2. 0 \in 0..N
  BY PoolAssumption
<1>3. <<>> \in Seq(Calls) /\ <<>> \o <<>> = <<>>
  BY EmptySeq, ConcatEmptySeq
<1>4. PoolTypes
  BY <1>1, <1>2, <1>3 DEF QueuesInit, PoolTypes, Answers
<1>5. NoStarvation
  BY DEF QueuesInit, NoStarvation
<1>6. StageRight /\ WinnerFree
  BY <1>1 DEF QueuesInit, StageRight, WinnerFree
<1>7. InOrder
  BY <1>1, <1>3 DEF QueuesInit, InOrder, GivenOut
<1>. QED  BY <1>4, <1>5, <1>6, <1>7 DEF PoolInv

\* Outside a drain an entry that waits, waits for a reason: no queue is free.
LEMMA WaitsForReason ==
  ASSUME PoolInv, loop # "drain", AnyFree # {}
  PROVE  stage # "waiting" /\ overflow.items = <<>>
<1>1. PICK i \in Queues : Drained(pool[i])
  BY FreeFacts DEF PoolInv
<1>2. winner = 0
  BY DEF PoolInv, WinnerFree
<1>3. stage # "waiting"
  BY <1>1, <1>2 DEF PoolInv, WinnerFree
<1>4. stage = "idle"
  BY <1>3 DEF PoolInv, PoolTypes, StageRight, NoStarvation
<1>5. overflow.items = <<>>
  BY <1>1, <1>4 DEF PoolInv, StageRight
<1>. QED  BY <1>3, <1>5

LEMMA EnqueueAtStep ==
  ASSUME TurnCalls = Calls, PoolInv, NEW c \in Calls, EnqueueAt(c)
  PROVE  PoolInv'
<1>. DEFINE i == IndexOf[c]
<1>1. i \in Queues /\ loop = "turn"
  BY PoolAssumption DEF EnqueueAt, MayCall, Queues
<1>. HIDE DEF i
<1>2. pool[i] \in PoolQueue
  BY <1>1, PoolTypeFacts DEF PoolInv
<1>3. /\ Push(pool[i], c) \in PoolQueue /\ ~Drained(Push(pool[i], c))
  BY <1>2, PoolPush
<1>4. pool' = [pool EXCEPT ![i] = Push(pool[i], c)]
  BY DEF EnqueueAt, i
<1>5. /\ pool' \in [Queues -> PoolQueue] /\ pool'[i] = Push(pool[i], c)
      /\ \A j \in Queues : j # i => pool'[j] = pool[j]
  BY <1>1, <1>3, <1>4, PoolChanged DEF PoolInv
<1>6. \A j \in Queues : Drained(pool'[j]) => Drained(pool[j])
  BY <1>3, <1>5
<1>7. /\ answer' = [answer EXCEPT ![c] = "pending"]
      /\ UNCHANGED <<overflow, stage, winner, loop, asked, placed>>
  BY DEF EnqueueAt
<1>8. PoolTypes'
  BY <1>5, <1>7, PoolTypeParts DEF PoolInv, PoolTypes, Answers
<1>9. NoStarvation'
  BY <1>7 DEF PoolInv, NoStarvation, PoolTypes
<1>10. StageRight'
  BY <1>6, <1>7 DEF PoolInv, StageRight
<1>11. WinnerFree'
  BY <1>1, <1>6, <1>7 DEF PoolInv, WinnerFree
<1>12. InOrder'
  BY <1>7 DEF PoolInv, InOrder, GivenOut
<1>. QED  BY <1>8, <1>9, <1>10, <1>11, <1>12 DEF PoolInv

LEMMA EnqueueAnyStep ==
  ASSUME TurnCalls = Calls, PoolInv, NEW c \in Calls, Enqueue(c)
  PROVE  PoolInv'
<1>1. /\ loop = "turn" /\ UNCHANGED <<stage, winner, loop>>
      /\ answer' = [answer EXCEPT ![c] = "pending"] /\ asked' = Append(asked, c)
  BY DEF Enqueue, MayCall
<1>2. winner = 0
  BY <1>1 DEF PoolInv, WinnerFree
<1>3. answer' \in [Calls -> Answers] /\ asked' \in Seq(Calls)
  BY <1>1 DEF PoolInv, PoolTypes, Answers
<1>4. NoStarvation'
  BY <1>1 DEF PoolInv, NoStarvation, PoolTypes
<1>5. CASE AnyFree # {}
  <2>. DEFINE i == FirstFree
  <2>1. i \in Queues
    BY <1>5, FreeFacts DEF PoolInv
  <2>2. pool' = [pool EXCEPT ![i] = Push(pool[i], c)] /\ placed' = Append(placed, c)
        /\ overflow' = overflow
    BY <1>5 DEF Enqueue
  <2>. HIDE DEF i
  <2>3. Push(pool[i], c) \in PoolQueue /\ ~Drained(Push(pool[i], c))
    BY <2>1, PoolPush, PoolTypeFacts DEF PoolInv
  <2>4. /\ pool' \in [Queues -> PoolQueue] /\ pool'[i] = Push(pool[i], c)
        /\ \A j \in Queues : j # i => pool'[j] = pool[j]
    BY <2>1, <2>2, <2>3, PoolChanged DEF PoolInv
  <2>5. \A j \in Queues : Drained(pool'[j]) => Drained(pool[j])
    BY <2>3, <2>4
  <2>6. PoolTypes'
    <3>1. placed' \in Seq(Calls)
      BY <2>2, AppendProperties DEF PoolInv, PoolTypes
    <3>. QED  BY <1>1, <1>3, <2>2, <2>4, <3>1, PoolTypeParts DEF PoolInv, PoolTypes
  <2>7. StageRight'
    BY <1>1, <2>2, <2>5 DEF PoolInv, StageRight
  <2>8. WinnerFree'
    BY <1>1, <1>2, <2>5 DEF PoolInv, WinnerFree
  <2>9. InOrder'
    <3>1. stage # "waiting" /\ overflow.items = <<>>
      BY <1>1, <1>5, WaitsForReason
    <3>2. asked = placed \o <<>>
      BY <3>1 DEF PoolInv, InOrder, GivenOut
    <3>3. asked' = placed' \o <<>>
      BY <1>1, <2>2, <3>2, ConcatEmptySeq, AppendProperties DEF PoolInv, PoolTypes
    <3>. QED  BY <1>1, <2>2, <3>1, <3>3 DEF InOrder, GivenOut
  <2>. QED  BY <1>4, <2>6, <2>7, <2>8, <2>9 DEF PoolInv
<1>6. CASE AnyFree = {}
  <2>1. overflow' = Push(overflow, c) /\ UNCHANGED <<pool, placed>>
    BY <1>6 DEF Enqueue
  <2>2. /\ overflow' \in PoolQueue /\ overflow'.items = Append(overflow.items, c)
        /\ overflow'.processing = overflow.processing /\ overflow'.ticks = overflow.ticks + 1
    BY <2>1, PoolPush, PoolTypeFacts DEF PoolInv
  <2>3. \A j \in Queues : ~Drained(pool[j])
    BY <1>6, FreeFacts DEF PoolInv
  <2>4. PoolTypes'
    BY <1>1, <1>3, <2>1, <2>2, PoolTypeParts DEF PoolInv, PoolTypes
  <2>5. StageRight'
    <3>1. overflow'.ticks > 0
      BY <2>2, PoolTypeFacts DEF PoolInv
    <3>. QED  BY <1>1, <2>1, <2>2, <2>3, <3>1 DEF PoolInv, StageRight, Busy
  <2>6. WinnerFree'
    BY <1>1, <2>1 DEF PoolInv, WinnerFree
  <2>7. InOrder'
    <3>1. GivenOut' = GivenOut
      BY <1>1, <2>1, <2>2 DEF GivenOut
    <3>2. GivenOut \in Seq(Calls)
      BY PoolTypeFacts, AppendProperties DEF PoolInv, GivenOut, StageRight
    <3>3. Append(GivenOut \o overflow.items, c) = GivenOut \o Append(overflow.items, c)
      BY <3>2, JoinLine, PoolTypeFacts DEF PoolInv
    <3>. QED  BY <1>1, <2>2, <3>1, <3>3 DEF PoolInv, InOrder
  <2>. QED  BY <1>4, <2>4, <2>5, <2>6, <2>7 DEF PoolInv
<1>. QED  BY <1>5, <1>6

\* onOverflow starts on the entry that reached the head of the overflow queue, if any.
LEMMA OverflowStarts ==
  ASSUME PoolInv, NEW ovf \in PoolQueue, StartOverflow(ovf), UNCHANGED asked,
         Busy(ovf) => asked = Append(placed, ovf.processing) \o ovf.items,
         ~Busy(ovf) => ovf.items = <<>> /\ asked = placed,
         Busy(ovf) /\ AnyFree # {} => loop' = "drain",
         loop' \in {"turn", "flush", "drain"}, answer' \in [Calls -> Answers]
  PROVE  PoolTypes' /\ stage' # "starved" /\ StageRight' /\ WinnerFree' /\ InOrder'
<1>1. overflow' = ovf /\ winner' = 0 /\ 0 \in 0..N
  BY PoolAssumption DEF StartOverflow
<1>2. /\ asked \in Seq(Calls) /\ placed \in Seq(Calls) /\ pool \in [Queues -> PoolQueue]
  BY DEF PoolInv, PoolTypes
<1>3. CASE ~Busy(ovf)
  <2>1. stage' = "idle" /\ UNCHANGED <<pool, placed>>
    BY <1>3 DEF StartOverflow
  <2>2. PoolTypes'
    BY <1>1, <1>2, <2>1, PoolTypeParts
  <2>3. StageRight'
    BY <1>1, <1>3, <2>1 DEF StageRight
  <2>4. WinnerFree'
    BY <1>1, <2>1 DEF WinnerFree
  <2>5. InOrder'
    BY <1>1, <1>2, <1>3, <2>1, ConcatEmptySeq DEF InOrder, GivenOut
  <2>. QED  BY <2>1, <2>2, <2>3, <2>4, <2>5
<1>4. CASE Busy(ovf) /\ AnyFree # {}
  <2>. DEFINE i == FirstFree
  <2>1. i \in Queues /\ ovf.processing \in Calls
    BY <1>4, FreeFacts DEF PoolInv, PoolQueue, Busy
  <2>2. /\ stage' = "handed" /\ pool' = [pool EXCEPT ![i] = Push(pool[i], ovf.processing)]
        /\ placed' = Append(placed, ovf.processing) /\ loop' = "drain"
    BY <1>4 DEF StartOverflow
  <2>. HIDE DEF i
  <2>3. Push(pool[i], ovf.processing) \in PoolQueue
    BY <1>2, <2>1, PoolPush
  <2>4. pool' \in [Queues -> PoolQueue]
    BY <2>1, <2>2, <2>3, PoolChanged DEF PoolInv
  <2>5. placed' \in Seq(Calls)
    BY <1>2, <2>1, <2>2, AppendProperties
  <2>6. PoolTypes'
    BY <1>1, <1>2, <2>2, <2>4, <2>5, PoolTypeParts
  <2>7. StageRight'
    BY <1>1, <1>4, <2>2 DEF StageRight
  <2>8. WinnerFree'
    BY <1>1, <2>2 DEF WinnerFree
  <2>9. InOrder'
    BY <1>1, <1>4, <2>2 DEF InOrder, GivenOut
  <2>. QED  BY <2>2, <2>6, <2>7, <2>8, <2>9
<1>5. CASE Busy(ovf) /\ AnyFree = {}
  <2>1. stage' = "waiting" /\ UNCHANGED <<pool, placed>>
    BY <1>5 DEF StartOverflow
  <2>2. \A j \in Queues : ~Drained(pool[j])
    BY <1>5, FreeFacts DEF PoolInv
  <2>3. PoolTypes'
    BY <1>1, <1>2, <2>1, PoolTypeParts
  <2>4. StageRight'
    BY <1>1, <1>5, <2>1 DEF StageRight
  <2>5. WinnerFree'
    BY <1>1, <2>1, <2>2 DEF WinnerFree
  <2>6. InOrder'
    BY <1>1, <1>5, <2>1 DEF InOrder, GivenOut
  <2>. QED  BY <2>1, <2>3, <2>4, <2>5, <2>6
<1>. QED  BY <1>3, <1>4, <1>5

LEMMA PoolTickStep ==
  ASSUME PoolInv, NEW i \in Queues, PoolTick(i)
  PROVE  PoolInv'
<1>1. /\ loop # "drain" /\ pool[i].ticks > 0 /\ pool' = [pool EXCEPT ![i] = Consume(pool[i])]
      /\ Wins(i) /\ UNCHANGED <<overflow, stage, answer, asked, placed>>
      /\ loop' \in {"turn", "flush"}
  BY DEF PoolTick, AfterTick
<1>2. Consume(pool[i]) \in PoolQueue /\ (Drained(Consume(pool[i])) <=> Drained(pool[i]))
  BY <1>1, PoolConsume, PoolTypeFacts DEF PoolInv
<1>3. /\ pool' \in [Queues -> PoolQueue] /\ pool'[i] = Consume(pool[i])
      /\ \A j \in Queues : j # i => pool'[j] = pool[j]
  BY <1>1, <1>2, PoolChanged DEF PoolInv
<1>4. \A j \in Queues : Drained(pool'[j]) <=> Drained(pool[j])
  BY <1>2, <1>3
<1>5. winner = 0 /\ winner' = 0
  <2>1. winner = 0
    BY <1>1 DEF PoolInv, WinnerFree
  <2>2. ~(stage = "waiting" /\ Drained(pool'[i]))
    BY <1>4, <2>1 DEF PoolInv, WinnerFree
  <2>. QED  BY <1>1, <2>1, <2>2 DEF Wins
<1>6. PoolTypes'
  BY <1>1, <1>3, <1>5, PoolTypeParts DEF PoolInv, PoolTypes
<1>7. NoStarvation'
  BY <1>1 DEF PoolInv, NoStarvation
<1>8. StageRight'
  BY <1>1, <1>4 DEF PoolInv, StageRight
<1>9. WinnerFree'
  BY <1>1, <1>4, <1>5 DEF PoolInv, WinnerFree
<1>10. InOrder'
  BY <1>1 DEF PoolInv, InOrder, GivenOut
<1>. QED  BY <1>6, <1>7, <1>8, <1>9, <1>10 DEF PoolInv

LEMMA OverflowTickStep ==
  ASSUME PoolInv, OverflowTick
  PROVE  PoolInv'
<1>1. /\ loop # "drain" /\ overflow.ticks > 0 /\ UNCHANGED <<answer, asked>>
      /\ loop' \in {"turn", "flush"}
  BY DEF OverflowTick, AfterTick
<1>. DEFINE ovf == Consume(overflow)
<1>2. /\ overflow \in PoolQueue /\ ovf \in PoolQueue
      /\ Busy(overflow) \/ overflow.items = <<>> =>
           ovf.items = overflow.items /\ ovf.processing = overflow.processing
      /\ ~Busy(overflow) /\ overflow.items # <<>> =>
           /\ ovf.items = Tail(overflow.items) /\ ovf.processing = Head(overflow.items)
           /\ Busy(ovf)
  BY <1>1, PoolConsume, PoolTypeFacts DEF PoolInv
<1>3. /\ Busy(overflow) => overflow' = ovf /\ UNCHANGED <<pool, stage, winner, placed>>
      /\ ~Busy(overflow) => StartOverflow(ovf)
  BY DEF OverflowTick
<1>. HIDE DEF ovf
<1>4. CASE Busy(overflow)
  <2>1. PoolTypes'
    BY <1>1, <1>2, <1>3, <1>4, PoolTypeParts DEF PoolInv, PoolTypes
  <2>2. NoStarvation'
    BY <1>1, <1>3, <1>4 DEF PoolInv, NoStarvation
  <2>3. StageRight'
    BY <1>1, <1>2, <1>3, <1>4 DEF PoolInv, StageRight, Busy
  <2>4. WinnerFree'
    BY <1>1, <1>2, <1>3, <1>4 DEF PoolInv, WinnerFree
  <2>5. InOrder'
    BY <1>1, <1>2, <1>3, <1>4 DEF PoolInv, InOrder, GivenOut
  <2>. QED  BY <2>1, <2>2, <2>3, <2>4, <2>5 DEF PoolInv
<1>5. CASE ~Busy(overflow)
  <2>1. stage = "idle" /\ asked = placed \o overflow.items
    BY <1>5 DEF PoolInv, StageRight, InOrder, GivenOut
  <2>2. placed \in Seq(Calls) /\ overflow.items \in Seq(Calls) /\ answer \in [Calls -> Answers]
    BY PoolTypeFacts DEF PoolInv
  <2>3. Busy(ovf) => /\ asked = Append(placed, ovf.processing) \o ovf.items /\ AnyFree = {}
    <3>1. SUFFICES ASSUME overflow.items # <<>>
                   PROVE  asked = Append(placed, ovf.processing) \o ovf.items /\ AnyFree = {}
      BY <1>2, <1>5 DEF Busy
    <3>2. asked = Append(placed, ovf.processing) \o ovf.items
      BY <1>2, <1>5, <2>1, <2>2, <3>1, LeaveLine
    <3>3. \A i \in Queues : ~Drained(pool[i])
      BY <1>5, <3>1 DEF PoolInv, StageRight
    <3>. QED  BY <3>2, <3>3, FreeFacts DEF PoolInv
  <2>4. ~Busy(ovf) => ovf.items = <<>> /\ asked = placed
    BY <1>2, <1>5, <2>1, <2>2, ConcatEmptySeq
  <2>5. PoolTypes' /\ stage' # "starved" /\ StageRight' /\ WinnerFree' /\ InOrder'
    BY <1>1, <1>2, <1>3, <1>5, <2>2, <2>3, <2>4, OverflowStarts
  <2>. QED  BY <1>1, <2>5 DEF PoolInv, NoStarvation
<1>. QED  BY <1>4, <1>5

LEMMA SettlesStep ==
  ASSUME PoolInv, NEW i \in Queues, Settles(i)
  PROVE  PoolInv'
<1>1. /\ CanDrain /\ Busy(pool[i]) /\ pool' = [pool EXCEPT ![i] = Release(pool[i])]
      /\ Wins(i) /\ loop' = "drain" /\ UNCHANGED <<overflow, stage, asked, placed>>
  BY DEF Settles
<1>2. PICK result \in {"resolved", "rejected"} :
        answer' = [answer EXCEPT ![pool[i].processing] = result]
  BY DEF Settles
<1>3. Release(pool[i]) \in PoolQueue
  BY <1>1, PoolRelease, PoolTypeFacts DEF PoolInv
<1>4. /\ pool' \in [Queues -> PoolQueue] /\ pool'[i] = Release(pool[i])
      /\ \A j \in Queues : j # i => pool'[j] = pool[j]
  BY <1>1, <1>3, PoolChanged DEF PoolInv
<1>5. ~Drained(pool[i])
  BY <1>1 DEF Drained
<1>6. PoolTypes'
  <2>1. winner' \in 0..N
    BY <1>1, PoolAssumption DEF Wins, Queues, PoolInv, PoolTypes
  <2>2. answer' \in [Calls -> Answers]
    BY <1>2 DEF PoolInv, PoolTypes, Answers
  <2>. QED  BY <1>1, <1>4, <2>1, <2>2, PoolTypeParts DEF PoolInv, PoolTypes
<1>7. NoStarvation'
  BY <1>1, <1>2 DEF PoolInv, NoStarvation, PoolTypes
<1>8. StageRight'
  <2>1. Busy(overflow) \/ overflow.items = <<>>
    <3>1. CASE loop = "drain"
      BY <3>1 DEF PoolInv, StageRight
    <3>2. CASE ~Ticks
      BY <3>2 DEF Ticks, PoolInv, StageRight
    <3>. QED  BY <1>1, <3>1, <3>2 DEF CanDrain
  <2>. QED  BY <1>1, <2>1 DEF PoolInv, StageRight
<1>9. WinnerFree'
  <2>1. CASE stage = "waiting" /\ winner = 0
    <3>1. \A j \in Queues : j # i => ~Drained(pool'[j])
      BY <1>4, <2>1 DEF PoolInv, WinnerFree
    <3>2. 0 \notin Queues
      BY PoolAssumption DEF Queues
    <3>. QED  BY <1>1, <2>1, <3>1, <3>2 DEF Wins, WinnerFree
  <2>2. CASE ~(stage = "waiting" /\ winner = 0)
    <3>1. winner' = winner
      BY <1>1, <2>2 DEF Wins
    <3>2. winner # 0 => winner \in Queues /\ winner # i
      BY <1>5, PoolAssumption DEF PoolInv, WinnerFree, PoolTypes, Queues
    <3>. QED  BY <1>1, <1>4, <2>2, <3>1, <3>2 DEF PoolInv, WinnerFree
  <2>. QED  BY <2>1, <2>2
<1>10. InOrder'
  BY <1>1 DEF PoolInv, InOrder, GivenOut
<1>. QED  BY <1>6, <1>7, <1>8, <1>9, <1>10 DEF PoolInv

LEMMA OverflowResumesStep ==
  ASSUME PoolInv, OverflowResumes
  PROVE  PoolInv'
<1>1. /\ stage = "waiting" /\ winner # 0 /\ winner' = 0 /\ loop' = "drain"
      /\ UNCHANGED <<overflow, answer, asked>>
  BY DEF OverflowResumes
<1>2. winner \in Queues /\ Drained(pool[winner]) /\ Busy(overflow)
  BY <1>1, PoolAssumption DEF PoolInv, WinnerFree, StageRight, PoolTypes, Queues
<1>3. StillFree(winner)
  <2>1. winner \in AnyFree
    BY <1>2, FreeFacts DEF PoolInv
  <2>. QED  BY <2>1 DEF AnyFree, StillFree
<1>4. /\ stage' = "handed" /\ placed' = Append(placed, overflow.processing)
      /\ pool' = [pool EXCEPT ![winner] = Push(pool[winner], overflow.processing)]
  BY <1>3 DEF OverflowResumes
<1>5. overflow.processing \in Calls /\ 0 \in 0..N
  BY <1>1, <1>2, PoolTypeFacts, PoolAssumption DEF PoolInv
<1>6. pool' \in [Queues -> PoolQueue]
  BY <1>2, <1>4, <1>5, PoolPush, PoolTypeFacts, PoolChanged DEF PoolInv
<1>7. PoolTypes'
  <2>1. placed' \in Seq(Calls)
    BY <1>4, <1>5, AppendProperties DEF PoolInv, PoolTypes
  <2>. QED  BY <1>1, <1>4, <1>5, <1>6, <2>1, PoolTypeParts DEF PoolInv, PoolTypes
<1>8. NoStarvation'
  BY <1>1, <1>4 DEF PoolInv, NoStarvation
<1>9. StageRight'
  BY <1>1, <1>2, <1>4 DEF StageRight
<1>10. WinnerFree'
  BY <1>1, <1>4 DEF WinnerFree
<1>11. InOrder'
  BY <1>1, <1>4 DEF PoolInv, InOrder, GivenOut
<1>. QED  BY <1>7, <1>8, <1>9, <1>10, <1>11 DEF PoolInv

LEMMA OverflowDoneStep ==
  ASSUME PoolInv, OverflowDone
  PROVE  PoolInv'
<1>1. stage = "handed" /\ Busy(overflow) /\ asked = placed \o overflow.items
  BY DEF OverflowDone, PoolInv, NoStarvation, StageRight, InOrder, GivenOut
<1>. DEFINE ovf == Release(overflow)
<1>2. StartOverflow(ovf) /\ loop' = "drain" /\ UNCHANGED <<asked, answer>>
  BY <1>1 DEF OverflowDone
<1>3. /\ ovf \in PoolQueue
      /\ overflow.items = <<>> => ovf.items = <<>> /\ ovf.processing = None
      /\ overflow.items # <<>> =>
           /\ ovf.items = Tail(overflow.items) /\ ovf.processing = Head(overflow.items)
           /\ Busy(ovf)
  BY <1>1, PoolRelease, PoolTypeFacts DEF PoolInv
<1>. HIDE DEF ovf
<1>4. placed \in Seq(Calls) /\ overflow.items \in Seq(Calls) /\ answer \in [Calls -> Answers]
  BY PoolTypeFacts DEF PoolInv
<1>5. Busy(ovf) => asked = Append(placed, ovf.processing) \o ovf.items
  <2>1. SUFFICES ASSUME overflow.items # <<>>
                 PROVE  asked = Append(placed, ovf.processing) \o ovf.items
    BY <1>3 DEF Busy
  <2>. QED  BY <1>1, <1>3, <1>4, <2>1, LeaveLine
<1>6. ~Busy(ovf) => ovf.items = <<>> /\ asked = placed
  BY <1>1, <1>3, <1>4, ConcatEmptySeq
<1>7. PoolTypes' /\ stage' # "starved" /\ StageRight' /\ WinnerFree' /\ InOrder'
  BY <1>2, <1>3, <1>4, <1>5, <1>6, OverflowStarts
<1>. QED  BY <1>2, <1>7 DEF PoolInv, NoStarvation

LEMMA DrainEndsStep ==
  ASSUME PoolInv, DrainEnds
  PROVE  PoolInv'
<1>1. /\ loop = "drain" /\ ~ChainPending /\ loop' \in {"turn", "flush"}
      /\ UNCHANGED <<pool, overflow, stage, winner, answer, asked, placed>>
  BY DEF DrainEnds
<1>2. stage # "handed" /\ winner = 0
  BY <1>1 DEF ChainPending, PoolInv, WinnerFree
<1>3. PoolTypes' /\ NoStarvation'
  BY <1>1 DEF PoolInv, PoolTypes, NoStarvation
<1>4. StageRight' /\ WinnerFree' /\ InOrder'
  BY <1>1, <1>2 DEF PoolInv, StageRight, WinnerFree, InOrder, GivenOut
<1>. QED  BY <1>3, <1>4 DEF PoolInv

LEMMA PoolInvHolds == ASSUME TurnCalls = Calls PROVE QueuesSpec => []PoolInv
<1>1. PoolInv /\ [QueuesNext]_queuesVars => PoolInv'
  <2>. SUFFICES ASSUME PoolInv, [QueuesNext]_queuesVars PROVE PoolInv'
    OBVIOUS
  <2>1. ASSUME NEW c \in Calls, EnqueueAt(c) \/ Enqueue(c) PROVE PoolInv'
    BY <2>1, EnqueueAtStep, EnqueueAnyStep
  <2>2. ASSUME NEW i \in Queues, PoolTick(i) \/ Settles(i) PROVE PoolInv'
    BY <2>2, PoolTickStep, SettlesStep
  <2>3. CASE OverflowTick \/ OverflowResumes \/ OverflowDone \/ DrainEnds
    BY <2>3, OverflowTickStep, OverflowResumesStep, OverflowDoneStep, DrainEndsStep
  <2>4. CASE UNCHANGED queuesVars
    BY <2>4 DEF queuesVars, PoolInv, PoolTypes, NoStarvation, StageRight, WinnerFree, InOrder, GivenOut
  <2>. QED  BY <2>1, <2>2, <2>3, <2>4 DEF QueuesNext, System
<1>. QED  BY <1>1, PoolInitInv, PTL DEF QueuesSpec

(***************************************************************************)
(* As long as calls come from ordinary code, the queue whose onceFree won  *)
(* is free when the overflow entry is handed to it: the error "starvation" *)
(* is never thrown, whatever the pool's size and the calls.                *)
(***************************************************************************)
THEOREM PoolNoStarvation ==
  ASSUME TurnCalls = Calls PROVE QueuesSpec => []NoStarvation
<1>1. PoolInv => NoStarvation
  BY DEF PoolInv
<1>. QED  BY <1>1, PoolInvHolds, PTL

(***************************************************************************)
(* Under the same condition calls get their queue in the order they were   *)
(* made, which is what the comment of QueuePool promises.                  *)
(***************************************************************************)
THEOREM PoolFifoPlacement ==
  ASSUME TurnCalls = Calls PROVE QueuesSpec => []FifoPlacement
<1>1. PoolInv => FifoPlacement
  <2>. SUFFICES ASSUME PoolInv PROVE FifoPlacement
    OBVIOUS
  <2>1. placed \in Seq(Calls) /\ overflow.items \in Seq(Calls)
    BY PoolTypeFacts DEF PoolInv
  <2>2. PICK rest \in Seq(Calls) : asked = placed \o rest
    <3>1. CASE stage = "waiting"
      <4>1. overflow.processing \in Calls
        BY <3>1, PoolTypeFacts DEF PoolInv, StageRight
      <4>2. asked = Append(placed, overflow.processing) \o overflow.items
        BY <3>1 DEF PoolInv, InOrder, GivenOut
      <4>. QED  BY <2>1, <4>1, <4>2, SplitLine
    <3>2. CASE stage # "waiting"
      BY <2>1, <3>2 DEF PoolInv, InOrder, GivenOut
    <3>. QED  BY <3>1, <3>2
  <2>3. /\ Len(placed) \in Nat /\ Len(rest) \in Nat
        /\ Len(asked) = Len(placed) + Len(rest) /\ asked \in Seq(Calls)
        /\ \A i \in 1..Len(placed) : asked[i] = placed[i]
    BY <2>1, <2>2, ConcatProperties, LenProperties
  <2>4. SubSeq(placed, 1, Len(placed)) = SubSeq(asked, 1, Len(placed))
    BY <2>1, <2>3
  <2>. QED  BY <2>3, <2>4 DEF FifoPlacement, IsPrefix
<1>. QED  BY <1>1, PoolInvHolds, PTL
------------------------------------------------------------------------------
(* The pool implements the line with N servers.                            *)

\* The entry a queue serves or serves next.
AtFront(p) == IF Busy(p) THEN p.processing ELSE IF p.items = <<>> THEN None ELSE Head(p.items)

Unnamed(c) == c \in Calls /\ IndexOf[c] = 0

\* Behind the front of a queue there are only calls that named it: the others are given to
\* a queue that is free.
NamedBehind(p) ==
  \A k \in DOMAIN p.items : Unnamed(p.items[k]) => k = 1 /\ ~Busy(p)

\* A call that named no queue and was placed is at the front of exactly one of them until
\* it settles, and what is at a front was placed and is pending.
Hosted ==
  /\ \A i \in Queues : NamedBehind(pool[i])
  /\ \A i \in Queues : Unnamed(AtFront(pool[i])) =>
       AtFront(pool[i]) \in Range(placed) /\ answer[AtFront(pool[i])] = "pending"
  /\ \A i, j \in Queues : Unnamed(AtFront(pool[i])) /\ AtFront(pool[i]) = AtFront(pool[j]) => i = j
  /\ \A c \in Range(placed) :
       Unnamed(c) /\ (answer[c] = "pending" => \E i \in Queues : AtFront(pool[i]) = c)

\* A call is asked for once, it named no queue, and it is pending until it was placed.
AskedOnce ==
  /\ \A i, j \in DOMAIN asked : asked[i] = asked[j] => i = j
  /\ \A c \in Range(asked) : Unnamed(c) /\ answer[c] # "none"
  /\ \A c \in Range(asked) \ Range(placed) : answer[c] = "pending"

HostInv == Hosted /\ AskedOnce

LEMMA FrontFacts ==
  ASSUME NEW p \in PoolQueue
  PROVE  /\ AtFront(p) \in Calls \cup {None}
         /\ Drained(p) <=> AtFront(p) = None
         /\ Drained(p) => p.items = <<>> /\ p.processing = None
<1>1. p.items \in Seq(Calls) /\ p.processing \in Calls \cup {None}
  BY DEF PoolQueue
<1>2. p.items # <<>> => Head(p.items) \in Calls
  BY <1>1
<1>. QED  BY <1>1, <1>2, NoneAssumption DEF AtFront, Busy, Drained

LEMMA AppendHead ==
  ASSUME NEW s \in Seq(Calls), NEW c \in Calls
  PROVE  /\ Append(s, c) # <<>> /\ (s # <<>> => Head(Append(s, c)) = Head(s))
         /\ s = <<>> => Head(Append(s, c)) = c
  OBVIOUS

\* A call is pushed behind the front, or becomes the front of a free queue.
LEMMA FrontPush ==
  ASSUME NEW p \in PoolQueue, NEW c \in Calls, NamedBehind(p)
  PROVE  /\ Drained(p) => AtFront(Push(p, c)) = c
         /\ ~Drained(p) => AtFront(Push(p, c)) = AtFront(p)
         /\ Drained(p) \/ ~Unnamed(c) => NamedBehind(Push(p, c))
<1>. DEFINE r == Push(p, c)
<1>1. /\ p.items \in Seq(Calls) /\ r.items = Append(p.items, c) /\ r.processing = p.processing
  BY PoolPush DEF PoolQueue
<1>. HIDE DEF r
<1>2. /\ r.items # <<>> /\ (p.items # <<>> => Head(r.items) = Head(p.items))
      /\ p.items = <<>> => Head(r.items) = c
  BY <1>1, AppendHead
<1>3. Drained(p) => AtFront(r) = c
  BY <1>1, <1>2 DEF AtFront, Drained, Busy
<1>5. ~Drained(p) => AtFront(r) = AtFront(p)
  BY <1>1, <1>2 DEF AtFront, Drained, Busy
<1>6. \A k \in DOMAIN r.items :
        \/ k \in DOMAIN p.items /\ r.items[k] = p.items[k]
        \/ k = Len(p.items) + 1 /\ r.items[k] = c
  BY <1>1
<1>7. ASSUME Drained(p) PROVE NamedBehind(r)
  <2>1. p.items = <<>> /\ ~Busy(r)
    BY <1>1, <1>7 DEF Drained, Busy
  <2>2. DOMAIN p.items = {} /\ Len(p.items) = 0
    BY <2>1
  <2>. QED  BY <1>6, <2>1, <2>2 DEF NamedBehind
<1>8. ASSUME ~Unnamed(c) PROVE NamedBehind(r)
  BY <1>1, <1>6, <1>8 DEF NamedBehind, Busy
<1>. QED  BY <1>3, <1>5, <1>7, <1>8 DEF r

\* A scheduled consume() changes what a queue works on, not what is at its front.
LEMMA FrontConsume ==
  ASSUME NEW p \in PoolQueue, p.ticks > 0, NamedBehind(p)
  PROVE  AtFront(Consume(p)) = AtFront(p) /\ NamedBehind(Consume(p))
<1>. DEFINE r == Consume(p)
<1>1. p.items \in Seq(Calls)
  BY DEF PoolQueue
<1>2. CASE Busy(p) \/ p.items = <<>>
  <2>1. r.items = p.items /\ r.processing = p.processing
    BY <1>2, PoolConsume
  <2>. QED  BY <2>1 DEF AtFront, NamedBehind, Busy
<1>3. CASE ~Busy(p) /\ p.items # <<>>
  <2>1. r.items = Tail(p.items) /\ r.processing = Head(p.items) /\ Busy(r)
    BY <1>3, PoolConsume
  <2>. HIDE DEF r
  <2>2. AtFront(r) = AtFront(p)
    BY <1>3, <2>1 DEF AtFront
  <2>3. \A k \in DOMAIN Tail(p.items) :
          k + 1 \in DOMAIN p.items /\ Tail(p.items)[k] = p.items[k + 1] /\ k + 1 # 1
    BY <1>1, <1>3
  <2>4. NamedBehind(r)
    BY <2>1, <2>3 DEF NamedBehind
  <2>. QED  BY <2>2, <2>4 DEF r
<1>. QED  BY <1>2, <1>3

\* Once the front has settled, no unnamed call is left in the queue.
LEMMA FrontRelease ==
  ASSUME NEW p \in PoolQueue, Busy(p), NamedBehind(p)
  PROVE  ~Unnamed(AtFront(Release(p))) /\ NamedBehind(Release(p))
<1>. DEFINE r == Release(p)
<1>1. p.items \in Seq(Calls)
  BY DEF PoolQueue
<1>2. \A k \in DOMAIN p.items : ~Unnamed(p.items[k])
  BY DEF NamedBehind
<1>3. CASE p.items = <<>>
  <2>1. r.items = <<>> /\ r.processing = None
    BY <1>3, PoolRelease
  <2>2. AtFront(r) = None
    BY <2>1 DEF AtFront, Busy
  <2>. QED  BY <2>1, <2>2, NoneAssumption DEF NamedBehind, Unnamed
<1>4. CASE p.items # <<>>
  <2>1. r.items = Tail(p.items) /\ r.processing = Head(p.items) /\ Busy(r)
    BY <1>4, PoolRelease
  <2>. HIDE DEF r
  <2>2. Head(p.items) = p.items[1] /\ 1 \in DOMAIN p.items
    BY <1>1, <1>4
  <2>3. \A k \in DOMAIN Tail(p.items) :
          k + 1 \in DOMAIN p.items /\ Tail(p.items)[k] = p.items[k + 1]
    BY <1>1, <1>4
  <2>. QED  BY <1>2, <2>1, <2>2, <2>3 DEF NamedBehind, AtFront, r
<1>. QED  BY <1>3, <1>4
------------------------------------------------------------------------------
\* What a step of the pool is to the line.
InService == Range(placed) \ Done

Joins(c) == Waiting' = Append(Waiting, c) /\ UNCHANGED <<InService, Done>>
ServedAtOnce(c) ==
  /\ Waiting = <<>> /\ Waiting' = <<>>
  /\ InService' = InService \cup {c} /\ Done' = Done
HeadTaken ==
  /\ Waiting # <<>> /\ Waiting' = Tail(Waiting)
  /\ InService' = InService \cup {Head(Waiting)} /\ Done' = Done
Finishes(c) ==
  /\ c \in InService /\ Waiting' = Waiting
  /\ InService' = InService \ {c} /\ Done' = Done \cup {c}
Unseen == UNCHANGED <<Waiting, InService, Done>>

PoolMoves ==
  \/ \E c \in Calls : c \notin Done \cup InService /\ (Joins(c) \/ ServedAtOnce(c))
  \/ HeadTaken \/ (\E c \in Calls : Finishes(c)) \/ Unseen

LEMMA RangeAppend ==
  ASSUME NEW s \in Seq(Calls), NEW c \in Calls
  PROVE  Range(Append(s, c)) = Range(s) \cup {c}
<1>. DEFINE r == Append(s, c)
<1>1. /\ \A k \in DOMAIN r : (k \in DOMAIN s /\ r[k] = s[k]) \/ r[k] = c
      /\ \A k \in DOMAIN s : k \in DOMAIN r /\ r[k] = s[k]
      /\ Len(s) + 1 \in DOMAIN r /\ r[Len(s) + 1] = c
  OBVIOUS
<1>. HIDE DEF r
<1>2. Range(r) = Range(s) \cup {c}
  BY <1>1 DEF Range
<1>. QED  BY <1>2 DEF r

\* The next one to be placed was asked for and not placed yet.
LEMMA NextToPlace ==
  ASSUME PoolTypes, AskedOnce, NEW c \in Calls, NEW rest \in Seq(Calls),
         asked = Append(placed, c) \o rest
  PROVE  Unnamed(c) /\ answer[c] = "pending" /\ c \notin Range(placed)
<1>1. placed \in Seq(Calls)
  BY DEF PoolTypes
<1>2. /\ \A k \in DOMAIN placed : k \in DOMAIN asked /\ asked[k] = placed[k] /\ k # Len(placed) + 1
      /\ Len(placed) + 1 \in DOMAIN asked /\ asked[Len(placed) + 1] = c
  BY <1>1
<1>3. c \in Range(asked) /\ c \notin Range(placed)
  BY <1>2 DEF Range, AskedOnce
<1>. QED  BY <1>3 DEF AskedOnce

\* A call that named no queue is given to a free one.
LEMMA GivenToFree ==
  ASSUME PoolTypes, Hosted, NEW i \in Queues, Drained(pool[i]), NEW c \in Calls, Unnamed(c),
         c \notin Range(placed), answer'[c] = "pending",
         \A d \in Calls : d # c => answer'[d] = answer[d],
         pool' = [pool EXCEPT ![i] = Push(pool[i], c)], placed' = Append(placed, c)
  PROVE  Hosted' /\ Range(placed') = Range(placed) \cup {c}
<1>1. pool[i] \in PoolQueue /\ placed \in Seq(Calls)
  BY PoolTypeFacts
<1>2. Range(placed') = Range(placed) \cup {c}
  BY <1>1, RangeAppend
<1>3. /\ pool'[i] = Push(pool[i], c) /\ \A j \in Queues : j # i => pool'[j] = pool[j]
  BY <1>1, PoolPush, PoolChanged
<1>4. AtFront(pool'[i]) = c /\ NamedBehind(pool'[i]) /\ ~Unnamed(AtFront(pool[i]))
  <2>1. AtFront(pool[i]) = None
    BY <1>1, FrontFacts
  <2>. QED  BY <1>1, <1>3, <2>1, FrontPush, NoneAssumption DEF Hosted, Unnamed
<1>5. \A j \in Queues : j # i => AtFront(pool'[j]) = AtFront(pool[j])
  BY <1>3
<1>6. \A j \in Queues : j # i => AtFront(pool[j]) # c
  BY DEF Hosted
<1>7. \A j \in Queues : NamedBehind(pool'[j])
  BY <1>3, <1>4 DEF Hosted
<1>8. \A j \in Queues : Unnamed(AtFront(pool'[j])) =>
        AtFront(pool'[j]) \in Range(placed') /\ answer'[AtFront(pool'[j])] = "pending"
  BY <1>2, <1>4, <1>5, <1>6 DEF Hosted, Unnamed
<1>9. \A j, k \in Queues : Unnamed(AtFront(pool'[j])) /\ AtFront(pool'[j]) = AtFront(pool'[k]) => j = k
  BY <1>4, <1>5, <1>6 DEF Hosted
<1>10. \A d \in Range(placed') :
         Unnamed(d) /\ (answer'[d] = "pending" => \E j \in Queues : AtFront(pool'[j]) = d)
  <2>. SUFFICES ASSUME NEW d \in Range(placed'), d # c
                PROVE  Unnamed(d) /\ (answer'[d] = "pending" => \E j \in Queues : AtFront(pool'[j]) = d)
    BY <1>4
  <2>1. Unnamed(d) /\ (answer'[d] = "pending" => \E j \in Queues : AtFront(pool[j]) = d)
    BY <1>2 DEF Hosted, Unnamed
  <2>. QED  BY <1>4, <1>5, <2>1
<1>. QED  BY <1>2, <1>7, <1>8, <1>9, <1>10 DEF Hosted

\* Nobody is placed, and the unnamed calls at the fronts and their answers stay.
LEMMA HostedKept ==
  ASSUME Hosted, UNCHANGED placed, \A i \in Queues : NamedBehind(pool'[i]),
         \A i \in Queues : \/ AtFront(pool'[i]) = AtFront(pool[i])
                           \/ ~Unnamed(AtFront(pool'[i])) /\ ~Unnamed(AtFront(pool[i])),
         \A c \in Calls : Unnamed(c) => answer'[c] = answer[c]
  PROVE  Hosted'
<1>1. \A i \in Queues : Unnamed(AtFront(pool'[i])) =>
        AtFront(pool'[i]) \in Range(placed') /\ answer'[AtFront(pool'[i])] = "pending"
  BY DEF Hosted, Unnamed
<1>2. \A i, j \in Queues : Unnamed(AtFront(pool'[i])) /\ AtFront(pool'[i]) = AtFront(pool'[j]) => i = j
  BY DEF Hosted
<1>3. ASSUME NEW c \in Range(placed')
      PROVE  Unnamed(c) /\ (answer'[c] = "pending" => \E i \in Queues : AtFront(pool'[i]) = c)
  <2>1. Unnamed(c) /\ (answer[c] = "pending" => \E i \in Queues : AtFront(pool[i]) = c)
    BY DEF Hosted
  <2>2. answer'[c] = answer[c]
    BY <2>1 DEF Unnamed
  <2>3. ASSUME NEW i \in Queues, AtFront(pool[i]) = c PROVE AtFront(pool'[i]) = c
    BY <2>1, <2>3
  <2>. QED  BY <2>1, <2>2, <2>3
<1>. QED  BY <1>1, <1>2, <1>3 DEF Hosted

\* What the line sees of a call that is placed, while all others stay as they are.
LEMMA ServingGrows ==
  ASSUME AskedOnce, NEW c \in Calls, answer'[c] = "pending",
         \A d \in Range(asked) : d # c => answer'[d] = answer[d],
         c \in Range(asked) => answer[c] = "pending",
         Range(asked') \ {c} = Range(asked) \ {c}, Range(placed') = Range(placed) \cup {c}
  PROVE  InService' = InService \cup {c} /\ Done' = Done
<1>1. Done' = Done /\ c \notin Done
  BY DEF Done
<1>. QED  BY <1>1 DEF InService
------------------------------------------------------------------------------
LEMMA WaitingIs ==
  ASSUME PoolInv
  PROVE  /\ Waiting \in Seq(Calls) /\ overflow.items \in Seq(Calls)
         /\ stage # "waiting" => Waiting = overflow.items
         /\ stage = "waiting" => /\ overflow.processing \in Calls /\ Waiting # <<>>
                                 /\ Head(Waiting) = overflow.processing
                                 /\ Tail(Waiting) = overflow.items
<1>1. overflow.items \in Seq(Calls)
  BY PoolTypeFacts DEF PoolInv
<1>2. CASE stage # "waiting"
  <2>1. Waiting = overflow.items
    BY <1>1, <1>2, ConcatEmptySeq DEF Waiting
  <2>. QED  BY <1>1, <1>2, <2>1
<1>3. CASE stage = "waiting"
  <2>1. overflow.processing \in Calls
    BY <1>3, PoolTypeFacts DEF PoolInv, StageRight
  <2>2. Waiting = <<overflow.processing>> \o overflow.items
    BY <1>3 DEF Waiting
  <2>3. \A c \in Calls, t \in Seq(Calls) :
          /\ <<c>> \o t \in Seq(Calls) /\ <<c>> \o t # <<>>
          /\ Head(<<c>> \o t) = c /\ Tail(<<c>> \o t) = t
    OBVIOUS
  <2>. HIDE DEF Waiting
  <2>. QED  BY <1>1, <1>3, <2>1, <2>2, <2>3
<1>. QED  BY <1>2, <1>3

LEMMA PlacedAsked == ASSUME PoolInv PROVE Range(placed) \subseteq Range(asked)
<1>1. placed \in Seq(Calls) /\ overflow.items \in Seq(Calls)
  BY PoolTypeFacts DEF PoolInv
<1>2. ASSUME NEW s \in Seq(Calls), asked = placed \o s PROVE Range(placed) \subseteq Range(asked)
  <2>1. \A k \in DOMAIN placed : k \in DOMAIN asked /\ asked[k] = placed[k]
    BY <1>1, <1>2
  <2>. QED  BY <2>1 DEF Range
<1>3. \E s \in Seq(Calls) : asked = placed \o s
  <2>1. CASE stage = "waiting"
    <3>1. asked = Append(placed, overflow.processing) \o overflow.items
      BY <2>1 DEF PoolInv, InOrder, GivenOut
    <3>. QED  BY <1>1, <2>1, <3>1, WaitingIs, SplitLine
  <2>2. CASE stage # "waiting"
    BY <1>1, <2>2 DEF PoolInv, InOrder, GivenOut
  <2>. QED  BY <2>1, <2>2
<1>. QED  BY <1>2, <1>3

LEMMA HostInit == QueuesInit => HostInv
<1>. SUFFICES ASSUME QueuesInit PROVE HostInv
  OBVIOUS
<1>1. \A i \in Queues : pool[i].items = <<>> /\ AtFront(pool[i]) = None
  BY DEF QueuesInit, NewQueue, AtFront, Busy
<1>2. placed = <<>> /\ asked = <<>>
  BY DEF QueuesInit
<1>3. Range(placed) = {} /\ Range(asked) = {}
  BY <1>2 DEF Range
<1>4. Hosted
  BY <1>1, <1>3, NoneAssumption DEF Hosted, NamedBehind, Unnamed
<1>. QED  BY <1>2, <1>3, <1>4 DEF HostInv, AskedOnce

LEMMA EnqueueAtHosted ==
  ASSUME PoolInv, HostInv, NEW c \in Calls, EnqueueAt(c)
  PROVE  HostInv' /\ Unseen
<1>. DEFINE i == IndexOf[c]
<1>1. /\ i \in Queues /\ ~Unnamed(c)
      /\ answer' = [answer EXCEPT ![c] = "pending"]
      /\ UNCHANGED <<overflow, stage, asked, placed>>
      /\ pool' = [pool EXCEPT ![i] = Push(pool[i], c)]
  BY PoolAssumption DEF EnqueueAt, Queues, Unnamed
<1>. HIDE DEF i
<1>2. pool[i] \in PoolQueue /\ answer \in [Calls -> Answers]
  BY <1>1, PoolTypeFacts DEF PoolInv
<1>3. /\ pool'[i] = Push(pool[i], c) /\ \A j \in Queues : j # i => pool'[j] = pool[j]
  BY <1>1, <1>2, PoolPush, PoolChanged DEF PoolInv
<1>4. NamedBehind(pool[i])
  BY <1>1 DEF HostInv, Hosted
<1>5. /\ NamedBehind(pool'[i])
      /\ \/ AtFront(pool'[i]) = AtFront(pool[i])
         \/ ~Unnamed(AtFront(pool'[i])) /\ ~Unnamed(AtFront(pool[i]))
  <2>1. CASE Drained(pool[i])
    <3>1. AtFront(pool[i]) = None /\ AtFront(pool'[i]) = c
      BY <1>2, <1>3, <1>4, <2>1, FrontFacts, FrontPush
    <3>. QED  BY <1>1, <1>2, <1>3, <1>4, <3>1, FrontPush, NoneAssumption DEF Unnamed
  <2>2. CASE ~Drained(pool[i])
    BY <1>1, <1>2, <1>3, <1>4, <2>2, FrontPush
  <2>. QED  BY <2>1, <2>2
<1>6. \A d \in Calls : Unnamed(d) => answer'[d] = answer[d]
  BY <1>1, <1>2
<1>7. Hosted'
  <2>1. \A j \in Queues : NamedBehind(pool'[j])
    BY <1>3, <1>5 DEF HostInv, Hosted
  <2>2. \A j \in Queues : \/ AtFront(pool'[j]) = AtFront(pool[j])
                          \/ ~Unnamed(AtFront(pool'[j])) /\ ~Unnamed(AtFront(pool[j]))
    BY <1>3, <1>5
  <2>. QED  BY <1>1, <1>6, <2>1, <2>2, HostedKept DEF HostInv
<1>8. AskedOnce' /\ Done' = Done
  BY <1>1, <1>6 DEF HostInv, AskedOnce, Done, Unnamed
<1>. QED  BY <1>1, <1>7, <1>8 DEF HostInv, Unseen, InService, Waiting

LEMMA EnqueueHosted ==
  ASSUME TurnCalls = Calls, PoolInv, PoolInv', HostInv, NEW c \in Calls, Enqueue(c)
  PROVE  HostInv' /\ c \notin Done \cup InService /\ (Joins(c) \/ ServedAtOnce(c))
<1>1. /\ answer[c] = "none" /\ Unnamed(c) /\ loop # "drain"
      /\ answer' = [answer EXCEPT ![c] = "pending"]
      /\ asked' = Append(asked, c) /\ UNCHANGED stage
  BY DEF Enqueue, Unnamed, MayCall
<1>2. answer \in [Calls -> Answers] /\ asked \in Seq(Calls) /\ placed \in Seq(Calls)
  BY PoolTypeFacts DEF PoolInv
<1>3. /\ c \notin Range(asked) /\ c \notin Range(placed) /\ c \notin Done \cup InService
  <2>1. c \notin Range(asked)
    BY <1>1 DEF HostInv, AskedOnce
  <2>. QED  BY <2>1, PlacedAsked DEF Done, InService
<1>4. Range(asked') = Range(asked) \cup {c}
  BY <1>1, <1>2, RangeAppend
<1>5. \A i, j \in DOMAIN asked' : asked'[i] = asked'[j] => i = j
  <2>1. /\ \A k \in DOMAIN asked' : \/ k \in DOMAIN asked /\ asked'[k] = asked[k]
                                    \/ k = Len(asked) + 1 /\ asked'[k] = c
        /\ \A k \in DOMAIN asked : asked[k] # c
    BY <1>1, <1>2, <1>3 DEF Range
  <2>. QED  BY <2>1 DEF HostInv, AskedOnce
<1>6. answer'[c] = "pending" /\ \A d \in Calls : d # c => answer'[d] = answer[d]
  BY <1>1, <1>2
<1>7. \A d \in Range(asked) : d \in Calls
  BY DEF HostInv, AskedOnce, Unnamed
<1>8. CASE AnyFree # {}
  <2>. DEFINE i == FirstFree
  <2>1. i \in Queues /\ Drained(pool[i])
    BY <1>8, FreeFacts DEF PoolInv
  <2>2. /\ pool' = [pool EXCEPT ![i] = Push(pool[i], c)] /\ placed' = Append(placed, c)
        /\ overflow' = overflow
    BY <1>8 DEF Enqueue
  <2>. HIDE DEF i
  <2>3. Hosted' /\ Range(placed') = Range(placed) \cup {c}
    BY <1>1, <1>3, <1>6, <2>1, <2>2, GivenToFree DEF PoolInv, HostInv
  <2>4. AskedOnce'
    <3>1. \A d \in Range(asked') : Unnamed(d) /\ answer'[d] # "none"
      BY <1>1, <1>4, <1>6, <1>7 DEF HostInv, AskedOnce
    <3>2. \A d \in Range(asked') \ Range(placed') : answer'[d] = "pending"
      BY <1>4, <1>6, <1>7, <2>3 DEF HostInv, AskedOnce
    <3>. QED  BY <1>5, <3>1, <3>2 DEF AskedOnce
  <2>5. Waiting = <<>> /\ Waiting' = <<>>
    <3>1. stage # "waiting" /\ overflow.items = <<>>
      BY <1>1, <1>8, WaitsForReason
    <3>. QED  BY <1>1, <2>2, <3>1, ConcatEmptySeq, EmptySeq DEF Waiting
  <2>6. InService' = InService \cup {c} /\ Done' = Done
    <3>1. Range(asked') \ {c} = Range(asked) \ {c}
      BY <1>4
    <3>. QED  BY <1>3, <1>6, <1>7, <2>3, <3>1, ServingGrows DEF HostInv
  <2>. QED  BY <1>3, <2>3, <2>4, <2>5, <2>6 DEF HostInv, ServedAtOnce
<1>9. CASE AnyFree = {}
  <2>1. overflow' = Push(overflow, c) /\ UNCHANGED <<pool, placed>>
    BY <1>9 DEF Enqueue
  <2>2. /\ overflow'.items = Append(overflow.items, c)
        /\ overflow'.processing = overflow.processing
    BY <2>1, PoolPush, PoolTypeFacts DEF PoolInv
  <2>3. Hosted'
    <3>1. \A d \in Range(placed) : d # c /\ Unnamed(d) /\ d \in Calls
      BY <1>3 DEF HostInv, Hosted, Unnamed
    <3>2. \A j \in Queues : Unnamed(AtFront(pool[j])) => AtFront(pool[j]) \in Range(placed)
      BY DEF HostInv, Hosted
    <3>. QED  BY <1>6, <2>1, <3>1, <3>2 DEF HostInv, Hosted
  <2>4. AskedOnce'
    <3>1. \A d \in Range(asked') : Unnamed(d) /\ answer'[d] # "none"
      BY <1>1, <1>4, <1>6, <1>7 DEF HostInv, AskedOnce
    <3>2. \A d \in Range(asked') \ Range(placed') : answer'[d] = "pending"
      BY <1>4, <1>6, <1>7, <2>1 DEF HostInv, AskedOnce
    <3>. QED  BY <1>5, <3>1, <3>2 DEF AskedOnce
  <2>5. Waiting' = Append(Waiting, c)
    <3>1. overflow.items \in Seq(Calls)
      BY PoolTypeFacts DEF PoolInv
    <3>2. CASE stage = "waiting"
      <4>1. <<overflow.processing>> \in Seq(Calls)
        BY <3>2, WaitingIs
      <4>2. Append(<<overflow.processing>> \o overflow.items, c)
              = <<overflow.processing>> \o Append(overflow.items, c)
        BY <3>1, <4>1, JoinLine
      <4>. QED  BY <1>1, <2>2, <3>2, <4>2 DEF Waiting
    <3>3. CASE stage # "waiting"
      <4>1. Waiting' = overflow'.items /\ Waiting = overflow.items
        <5>1. Append(overflow.items, c) \in Seq(Calls)
          BY <3>1
        <5>. QED  BY <1>1, <2>2, <3>1, <3>3, <5>1, ConcatEmptySeq DEF Waiting
      <4>. QED  BY <2>2, <4>1
    <3>. QED  BY <3>2, <3>3
  <2>6. Done' = Done
    BY <1>3, <1>4, <1>6, <1>7 DEF Done
  <2>. QED  BY <1>3, <2>1, <2>3, <2>4, <2>5, <2>6 DEF HostInv, Joins, InService
<1>. QED  BY <1>8, <1>9

LEMMA PoolTickHosted ==
  ASSUME PoolInv, HostInv, NEW i \in Queues, PoolTick(i)
  PROVE  HostInv' /\ Unseen
<1>1. /\ pool[i].ticks > 0 /\ pool' = [pool EXCEPT ![i] = Consume(pool[i])]
      /\ UNCHANGED <<overflow, stage, answer, asked, placed>>
  BY DEF PoolTick
<1>2. pool[i] \in PoolQueue /\ NamedBehind(pool[i])
  BY PoolTypeFacts DEF PoolInv, HostInv, Hosted
<1>3. /\ pool'[i] = Consume(pool[i]) /\ \A j \in Queues : j # i => pool'[j] = pool[j]
  BY <1>1, <1>2, PoolConsume, PoolChanged DEF PoolInv
<1>4. NamedBehind(pool'[i]) /\ AtFront(pool'[i]) = AtFront(pool[i])
  BY <1>1, <1>2, <1>3, FrontConsume
<1>5. \A j \in Queues : NamedBehind(pool'[j]) /\ AtFront(pool'[j]) = AtFront(pool[j])
  BY <1>3, <1>4 DEF HostInv, Hosted
<1>6. Hosted'
  BY <1>1, <1>5, HostedKept DEF HostInv
<1>7. AskedOnce' /\ Unseen
  BY <1>1 DEF HostInv, AskedOnce, Unseen, Waiting, InService, Done
<1>. QED  BY <1>6, <1>7 DEF HostInv

LEMMA SettlesHosted ==
  ASSUME PoolInv, HostInv, NEW i \in Queues, Settles(i)
  PROVE  HostInv' /\ (Unseen \/ \E c \in Calls : Finishes(c))
<1>. DEFINE c == pool[i].processing
<1>1. /\ Busy(pool[i]) /\ pool' = [pool EXCEPT ![i] = Release(pool[i])]
      /\ UNCHANGED <<overflow, stage, asked, placed>>
  BY DEF Settles
<1>2. PICK result \in {"resolved", "rejected"} : answer' = [answer EXCEPT ![c] = result]
  BY DEF Settles
<1>3. /\ pool[i] \in PoolQueue /\ NamedBehind(pool[i]) /\ answer \in [Calls -> Answers]
  BY PoolTypeFacts DEF PoolInv, HostInv, Hosted
<1>4. c \in Calls /\ AtFront(pool[i]) = c
  BY <1>1, <1>3 DEF PoolQueue, Busy, AtFront
<1>. HIDE DEF c
<1>5. /\ pool'[i] = Release(pool[i]) /\ \A j \in Queues : j # i => pool'[j] = pool[j]
  BY <1>1, <1>3, PoolRelease, PoolChanged DEF PoolInv
<1>6. NamedBehind(pool'[i]) /\ ~Unnamed(AtFront(pool'[i]))
  BY <1>1, <1>3, <1>5, FrontRelease
<1>7. \A j \in Queues : NamedBehind(pool'[j])
  BY <1>5, <1>6 DEF HostInv, Hosted
<1>8. answer'[c] = result /\ \A d \in Calls : d # c => answer'[d] = answer[d]
  BY <1>2, <1>3, <1>4
<1>9. \A d \in Range(asked) : Unnamed(d) /\ d \in Calls
  BY DEF HostInv, AskedOnce, Unnamed
<1>10. CASE Unnamed(c)
  <2>1. c \in Range(placed) /\ answer[c] = "pending"
    BY <1>4, <1>10 DEF HostInv, Hosted
  <2>2. \A j \in Queues : j # i => AtFront(pool'[j]) = AtFront(pool[j]) /\ AtFront(pool[j]) # c
    BY <1>4, <1>5, <1>10 DEF HostInv, Hosted
  <2>3. \A j \in Queues : Unnamed(AtFront(pool'[j])) =>
          AtFront(pool'[j]) \in Range(placed') /\ answer'[AtFront(pool'[j])] = "pending"
    BY <1>1, <1>6, <1>8, <2>2 DEF HostInv, Hosted, Unnamed
  <2>4. \A j, k \in Queues : Unnamed(AtFront(pool'[j])) /\ AtFront(pool'[j]) = AtFront(pool'[k]) => j = k
    BY <1>6, <2>2 DEF HostInv, Hosted
  <2>5. ASSUME NEW d \in Range(placed')
        PROVE  Unnamed(d) /\ (answer'[d] = "pending" => \E j \in Queues : AtFront(pool'[j]) = d)
    <3>1. Unnamed(d) /\ (answer[d] = "pending" => \E j \in Queues : AtFront(pool[j]) = d)
      BY <1>1 DEF HostInv, Hosted
    <3>2. CASE d = c
      BY <1>8, <3>1, <3>2
    <3>3. CASE d # c
      BY <1>4, <1>8, <2>2, <3>1, <3>3 DEF Unnamed
    <3>. QED  BY <3>2, <3>3
  <2>6. Hosted'
    BY <1>7, <2>3, <2>4, <2>5 DEF Hosted
  <2>7. AskedOnce'
    BY <1>1, <1>8, <1>9, <2>1 DEF HostInv, AskedOnce
  <2>8. Done' = Done \cup {c} /\ c \notin Done
    <3>1. c \in Range(asked)
      BY <2>1, PlacedAsked
    <3>. QED  BY <1>1, <1>8, <1>9, <2>1, <3>1 DEF Done
  <2>9. c \in InService /\ InService' = InService \ {c}
    BY <1>1, <2>1, <2>8 DEF InService
  <2>. QED  BY <1>1, <1>4, <2>6, <2>7, <2>8, <2>9 DEF HostInv, Finishes, Waiting
<1>11. CASE ~Unnamed(c)
  <2>1. \A j \in Queues : \/ AtFront(pool'[j]) = AtFront(pool[j])
                          \/ ~Unnamed(AtFront(pool'[j])) /\ ~Unnamed(AtFront(pool[j]))
    BY <1>4, <1>5, <1>6, <1>11
  <2>2. \A d \in Calls : Unnamed(d) => answer'[d] = answer[d]
    BY <1>8, <1>11
  <2>3. Hosted'
    BY <1>1, <1>7, <2>1, <2>2, HostedKept DEF HostInv
  <2>4. AskedOnce' /\ Done' = Done
    BY <1>1, <1>9, <2>2 DEF HostInv, AskedOnce, Done
  <2>. QED  BY <1>1, <2>3, <2>4 DEF HostInv, Unseen, InService, Waiting
<1>. QED  BY <1>10, <1>11

\* An entry of the overflow queue is handed to a free queue.
LEMMA HandedOver ==
  ASSUME PoolInv, HostInv, NEW i \in Queues, Drained(pool[i]), NEW c \in Calls,
         NEW rest \in Seq(Calls), asked = Append(placed, c) \o rest,
         UNCHANGED <<asked, answer>>, placed' = Append(placed, c),
         pool' = [pool EXCEPT ![i] = Push(pool[i], c)]
  PROVE  HostInv' /\ InService' = InService \cup {c} /\ Done' = Done
<1>1. Unnamed(c) /\ answer[c] = "pending" /\ c \notin Range(placed)
  BY NextToPlace DEF PoolInv, HostInv
<1>2. Hosted' /\ Range(placed') = Range(placed) \cup {c}
  BY <1>1, GivenToFree DEF PoolInv, HostInv
<1>3. AskedOnce'
  BY <1>2 DEF HostInv, AskedOnce
<1>4. InService' = InService \cup {c} /\ Done' = Done
  BY <1>1, <1>2, ServingGrows DEF HostInv
<1>. QED  BY <1>2, <1>3, <1>4 DEF HostInv

LEMMA SplitHead ==
  ASSUME NEW t \in Seq(Calls), t # <<>>
  PROVE  <<Head(t)>> \o Tail(t) = t
  OBVIOUS

\* onOverflow starts on the entry in state ovf, the head of those that wait.
LEMMA StartHosted ==
  ASSUME PoolInv, HostInv, NEW ovf \in PoolQueue, StartOverflow(ovf), UNCHANGED <<asked, answer>>,
         Waiting = (IF Busy(ovf) THEN <<ovf.processing>> \o ovf.items ELSE <<>>),
         ovf.items = <<>> \/ Busy(ovf),
         Busy(ovf) => asked = Append(placed, ovf.processing) \o ovf.items
  PROVE  HostInv' /\ (HeadTaken \/ Unseen)
<1>1. overflow' = ovf /\ ovf.items \in Seq(Calls) /\ (Busy(ovf) => ovf.processing \in Calls)
  BY DEF StartOverflow, PoolQueue, Busy
<1>2. CASE UNCHANGED <<pool, placed>>
  <2>1. HostInv' /\ InService' = InService /\ Done' = Done
    BY <1>2 DEF HostInv, Hosted, AskedOnce, InService, Done
  <2>2. Waiting' = Waiting
    <3>1. CASE ~Busy(ovf)
      <4>1. stage' = "idle" /\ overflow'.items = <<>>
        BY <1>1, <3>1 DEF StartOverflow
      <4>. QED  BY <3>1, <4>1, ConcatEmptySeq, EmptySeq DEF Waiting
    <3>2. CASE Busy(ovf) /\ stage' = "waiting"
      BY <1>1, <3>2 DEF Waiting
    <3>3. CASE Busy(ovf) /\ AnyFree # {}
      <4>1. placed' = Append(placed, ovf.processing) /\ placed \in Seq(Calls)
        BY <3>3, PoolTypeFacts DEF StartOverflow, PoolInv
      <4>2. Len(placed') = Len(placed) + 1 /\ Len(placed) \in Nat
        BY <1>1, <3>3, <4>1
      <4>. QED  BY <1>2, <4>2
    <3>. QED  BY <3>1, <3>2, <3>3 DEF StartOverflow
  <2>. QED  BY <2>1, <2>2 DEF Unseen
<1>3. CASE Busy(ovf) /\ AnyFree # {}
  <2>. DEFINE i == FirstFree
  <2>1. i \in Queues /\ Drained(pool[i]) /\ ovf.processing \in Calls
    BY <1>1, <1>3, FreeFacts DEF PoolInv
  <2>2. /\ stage' = "handed" /\ pool' = [pool EXCEPT ![i] = Push(pool[i], ovf.processing)]
        /\ placed' = Append(placed, ovf.processing)
    BY <1>3 DEF StartOverflow
  <2>. HIDE DEF i
  <2>3. HostInv' /\ InService' = InService \cup {ovf.processing} /\ Done' = Done
    BY <1>1, <1>3, <2>1, <2>2, HandedOver
  <2>4. Waiting' = ovf.items
    BY <1>1, <2>2, ConcatEmptySeq DEF Waiting
  <2>5. Waiting # <<>> /\ Head(Waiting) = ovf.processing /\ Tail(Waiting) = ovf.items
    <3>1. \A d \in Calls, t \in Seq(Calls) :
            <<d>> \o t # <<>> /\ Head(<<d>> \o t) = d /\ Tail(<<d>> \o t) = t
      OBVIOUS
    <3>2. Waiting = <<ovf.processing>> \o ovf.items
      BY <1>3
    <3>. HIDE DEF Waiting
    <3>. QED  BY <1>1, <2>1, <3>1, <3>2
  <2>. QED  BY <2>3, <2>4, <2>5 DEF HeadTaken
<1>. QED  BY <1>2, <1>3 DEF StartOverflow

LEMMA OverflowTickHosted ==
  ASSUME PoolInv, HostInv, OverflowTick
  PROVE  HostInv' /\ (HeadTaken \/ Unseen)
<1>. DEFINE ovf == Consume(overflow)
<1>1. overflow.ticks > 0 /\ UNCHANGED <<answer, asked>>
      /\ (Busy(overflow) => overflow' = ovf /\ UNCHANGED <<pool, stage, winner, placed>>)
      /\ (~Busy(overflow) => StartOverflow(ovf))
  BY DEF OverflowTick
<1>2. /\ ovf \in PoolQueue /\ overflow.items \in Seq(Calls) /\ placed \in Seq(Calls)
      /\ Busy(overflow) \/ overflow.items = <<>> =>
           ovf.items = overflow.items /\ ovf.processing = overflow.processing
      /\ ~Busy(overflow) /\ overflow.items # <<>> =>
           /\ ovf.items = Tail(overflow.items) /\ ovf.processing = Head(overflow.items)
           /\ Busy(ovf)
  BY <1>1, PoolConsume, PoolTypeFacts DEF PoolInv
<1>. HIDE DEF ovf
<1>3. CASE Busy(overflow)
  BY <1>1, <1>2, <1>3 DEF HostInv, Hosted, AskedOnce, Unseen, Waiting, InService, Done
<1>4. CASE ~Busy(overflow)
  <2>1. stage = "idle" /\ asked = placed \o overflow.items /\ Waiting = overflow.items
    BY <1>4, WaitingIs DEF PoolInv, StageRight, InOrder, GivenOut
  <2>2. overflow.items = <<>> => ~Busy(ovf) /\ ovf.items = <<>>
    BY <1>2, <1>4 DEF Busy
  <2>3. overflow.items # <<>> => /\ <<Head(overflow.items)>> \o Tail(overflow.items) = overflow.items
                                 /\ asked = Append(placed, Head(overflow.items)) \o Tail(overflow.items)
    BY <1>2, <2>1, LeaveLine, SplitHead
  <2>. QED  BY <1>1, <1>2, <1>4, <2>1, <2>2, <2>3, StartHosted
<1>. QED  BY <1>3, <1>4

LEMMA OverflowResumesHosted ==
  ASSUME PoolInv, HostInv, OverflowResumes
  PROVE  HostInv' /\ HeadTaken
<1>1. /\ stage = "waiting" /\ winner # 0 /\ UNCHANGED <<overflow, answer, asked>>
  BY DEF OverflowResumes
<1>2. winner \in Queues /\ Drained(pool[winner])
  BY <1>1, PoolAssumption DEF PoolInv, WinnerFree, PoolTypes, Queues
<1>3. StillFree(winner)
  <2>1. winner \in AnyFree
    BY <1>2, FreeFacts DEF PoolInv
  <2>. QED  BY <2>1 DEF AnyFree, StillFree
<1>4. /\ stage' = "handed" /\ placed' = Append(placed, overflow.processing)
      /\ pool' = [pool EXCEPT ![winner] = Push(pool[winner], overflow.processing)]
  BY <1>3 DEF OverflowResumes
<1>5. /\ overflow.processing \in Calls /\ Waiting # <<>> /\ overflow.items \in Seq(Calls)
      /\ Head(Waiting) = overflow.processing /\ Tail(Waiting) = overflow.items
  BY <1>1, WaitingIs
<1>6. asked = Append(placed, overflow.processing) \o overflow.items
  BY <1>1 DEF PoolInv, InOrder, GivenOut
<1>7. HostInv' /\ InService' = InService \cup {overflow.processing} /\ Done' = Done
  BY <1>1, <1>2, <1>4, <1>5, <1>6, HandedOver
<1>8. Waiting' = overflow.items
  BY <1>1, <1>4, <1>5, ConcatEmptySeq DEF Waiting
<1>. QED  BY <1>5, <1>7, <1>8 DEF HeadTaken

LEMMA OverflowDoneHosted ==
  ASSUME PoolInv, HostInv, OverflowDone
  PROVE  HostInv' /\ (HeadTaken \/ Unseen)
<1>1. stage = "handed" /\ Busy(overflow) /\ asked = placed \o overflow.items
  BY DEF OverflowDone, PoolInv, NoStarvation, StageRight, InOrder, GivenOut
<1>. DEFINE ovf == Release(overflow)
<1>2. StartOverflow(ovf) /\ UNCHANGED <<asked, answer>>
  BY <1>1 DEF OverflowDone
<1>3. /\ ovf \in PoolQueue /\ overflow.items \in Seq(Calls) /\ placed \in Seq(Calls)
      /\ overflow.items = <<>> => ovf.items = <<>> /\ ovf.processing = None
      /\ overflow.items # <<>> =>
           /\ ovf.items = Tail(overflow.items) /\ ovf.processing = Head(overflow.items)
           /\ Busy(ovf)
  BY <1>1, PoolRelease, PoolTypeFacts DEF PoolInv
<1>. HIDE DEF ovf
<1>4. Waiting = overflow.items
  BY <1>1, WaitingIs
<1>5. overflow.items # <<>> => /\ <<Head(overflow.items)>> \o Tail(overflow.items) = overflow.items
                               /\ asked = Append(placed, Head(overflow.items)) \o Tail(overflow.items)
  BY <1>1, <1>3, LeaveLine, SplitHead
<1>. QED  BY <1>2, <1>3, <1>4, <1>5, StartHosted DEF Busy
------------------------------------------------------------------------------
\* Every step of the pool keeps the hosts right and is one of the moves of the line.
LEMMA PoolStepMoves ==
  ASSUME TurnCalls = Calls, PoolInv, PoolInv', HostInv, [QueuesNext]_queuesVars
  PROVE  HostInv' /\ PoolMoves
<1>1. ASSUME NEW c \in Calls, EnqueueAt(c) PROVE HostInv' /\ PoolMoves
  BY <1>1, EnqueueAtHosted DEF PoolMoves
<1>2. ASSUME NEW c \in Calls, Enqueue(c) PROVE HostInv' /\ PoolMoves
  BY <1>2, EnqueueHosted DEF PoolMoves
<1>3. ASSUME NEW i \in Queues, PoolTick(i) PROVE HostInv' /\ PoolMoves
  BY <1>3, PoolTickHosted DEF PoolMoves
<1>4. ASSUME NEW i \in Queues, Settles(i) PROVE HostInv' /\ PoolMoves
  BY <1>4, SettlesHosted DEF PoolMoves
<1>5. CASE OverflowTick \/ OverflowResumes \/ OverflowDone
  BY <1>5, OverflowTickHosted, OverflowResumesHosted, OverflowDoneHosted DEF PoolMoves
<1>6. CASE UNCHANGED <<pool, overflow, stage, answer, asked, placed>>
  BY <1>6 DEF HostInv, Hosted, AskedOnce, PoolMoves, Unseen, Waiting, InService, Done
<1>. QED
  BY <1>1, <1>2, <1>3, <1>4, <1>5, <1>6 DEF QueuesNext, System, DrainEnds, queuesVars

\* Calls that are at the front of different queues are not more than there are queues.
LEMMA AtMostN ==
  ASSUME NEW S, NEW fronts \in [Queues -> Calls \cup {None}],
         \A c \in S : \E i \in Queues : fronts[i] = c
  PROVE  PoolLine!Cardinality(S) <= N
<1>1. PoolLine!Cardinality(S) = Cardinality(S)
  BY DEF PoolLine!Cardinality, Cardinality
<1>2. IsFiniteSet(Queues) /\ Cardinality(Queues) = N
  <2>1. N \in Nat /\ 1 \in Int /\ N \in Int
    BY PoolAssumption
  <2>2. IsFiniteSet(1..N) /\ Cardinality(1..N) = IF 1 > N THEN 0 ELSE N - 1 + 1
    BY <2>1, FS_Interval
  <2>. QED  BY <2>1, <2>2, PoolAssumption DEF Queues
<1>. DEFINE host == [c \in S |-> CHOOSE i \in Queues : fronts[i] = c]
<1>3. \A c \in S : host[c] \in Queues /\ fronts[host[c]] = c
  OBVIOUS
<1>4. host \in [S -> Queues]
  BY <1>3
<1>5. \A c, d \in S : host[c] = host[d] => c = d
  BY <1>3
<1>6. host \in Injection(S, Queues)
  BY <1>4, <1>5 DEF Injection, IsInjective
<1>7. IsFiniteSet(S) /\ Cardinality(S) <= Cardinality(Queues)
  BY <1>2, <1>6, FS_Injection
<1>. QED  BY <1>1, <1>2, <1>7

EnoughServers == PoolLine!Cardinality(InService) <= N

LEMMA FitsServers == ASSUME PoolInv, HostInv PROVE EnoughServers
<1>. DEFINE fronts == [i \in Queues |-> AtFront(pool[i])]
<1>1. fronts \in [Queues -> Calls \cup {None}]
  BY FrontFacts, PoolTypeFacts DEF PoolInv
<1>2. \A c \in InService : \E i \in Queues : fronts[i] = c
  <2>. SUFFICES ASSUME NEW c \in InService PROVE \E i \in Queues : AtFront(pool[i]) = c
    OBVIOUS
  <2>1. c \in Range(placed) /\ c \in Range(asked) /\ c \notin Done /\ c \in Calls
    BY PlacedAsked DEF InService, HostInv, Hosted, Unnamed
  <2>2. answer[c] = "pending"
    BY <2>1, PoolTypeFacts DEF Done, HostInv, AskedOnce, PoolInv, NoStarvation, Answers
  <2>. QED  BY <2>1, <2>2 DEF HostInv, Hosted
<1>. HIDE DEF fronts
<1>. QED  BY <1>1, <1>2, AtMostN DEF EnoughServers

LEMMA MovesAreLine ==
  ASSUME PoolInv, PoolMoves, EnoughServers'
  PROVE  [PoolLine!LineNext]_(PoolLine!lineVars)
<1>1. Waiting \in Seq(Calls) /\ PoolLine!Cardinality(InService') <= N
  BY WaitingIs DEF EnoughServers
<1>2. ASSUME NEW c \in Calls, c \notin Done \cup InService, Joins(c) PROVE PoolLine!LineNext
  <2>1. PoolLine!Move(<<c>>, {}, 0)
    <3>1. /\ Waiting \o <<c>> = Append(Waiting, c)
          /\ SubSeq(Append(Waiting, c), 0 + 1, Len(Append(Waiting, c))) = Append(Waiting, c)
          /\ 0 \in 0..Len(Append(Waiting, c)) /\ 1..0 = {}
      BY <1>1
    <3>. QED  BY <1>1, <1>2, <3>1 DEF PoolLine!Move, Joins, InService
  <2>2. \A i \in DOMAIN <<c>> : <<c>>[i] \notin Done \cup InService
    BY <1>2
  <2>. QED  BY <2>1, <2>2 DEF PoolLine!LineNext, InService
<1>3. ASSUME NEW c \in Calls, c \notin Done \cup InService, ServedAtOnce(c) PROVE PoolLine!LineNext
  <2>1. PoolLine!Move(<<c>>, {}, 1)
    <3>1. /\ <<>> \o <<c>> = <<c>> /\ SubSeq(<<c>>, 1 + 1, Len(<<c>>)) = <<>>
          /\ 1 \in 0..Len(<<c>>) /\ {<<c>>[i] : i \in 1..1} = {c}
      OBVIOUS
    <3>. QED  BY <1>1, <1>3, <3>1 DEF PoolLine!Move, ServedAtOnce, InService
  <2>2. \A i \in DOMAIN <<c>> : <<c>>[i] \notin Done \cup InService
    BY <1>3
  <2>. QED  BY <2>1, <2>2 DEF PoolLine!LineNext, InService
<1>4. ASSUME HeadTaken PROVE PoolLine!LineNext
  <2>1. PoolLine!Move(<<>>, {}, 1)
    <3>1. /\ Waiting \o <<>> = Waiting /\ SubSeq(Waiting, 1 + 1, Len(Waiting)) = Tail(Waiting)
          /\ 1 \in 0..Len(Waiting) /\ {Waiting[i] : i \in 1..1} = {Head(Waiting)}
      BY <1>1, <1>4 DEF HeadTaken
    <3>. QED  BY <1>1, <1>4, <3>1 DEF PoolLine!Move, HeadTaken, InService
  <2>. QED  BY <2>1 DEF PoolLine!LineNext
<1>5. ASSUME NEW c \in Calls, Finishes(c) PROVE PoolLine!LineNext
  <2>1. PoolLine!Move(<<>>, {c}, 0)
    <3>1. /\ Waiting \o <<>> = Waiting /\ SubSeq(Waiting, 0 + 1, Len(Waiting)) = Waiting
          /\ 0 \in 0..Len(Waiting) /\ 1..0 = {}
      BY <1>1
    <3>. QED  BY <1>1, <1>5, <3>1 DEF PoolLine!Move, Finishes, InService
  <2>. QED  BY <1>5, <2>1 DEF PoolLine!LineNext, Finishes, InService
<1>6. ASSUME Unseen PROVE UNCHANGED PoolLine!lineVars
  BY <1>6 DEF Unseen, PoolLine!lineVars, InService
<1>. QED  BY <1>2, <1>3, <1>4, <1>5, <1>6 DEF PoolMoves

(***************************************************************************)
(* When calls come from ordinary code, the pool implements the safety part *)
(* of the line with N servers, N its size, for the calls that name no      *)
(* queue: they are served N at a time, from the head of the line only, each*)
(* one once, across the overflow queue and whatever the calls that name a  *)
(* queue occupy.                                                           *)
(***************************************************************************)
THEOREM PoolServesLine ==
  ASSUME TurnCalls = Calls PROVE QueuesSpec => PoolLine!LineSafety
<1>1. QueuesInit => PoolLine!LineInit
  <2>. SUFFICES ASSUME QueuesInit PROVE PoolLine!LineInit
    OBVIOUS
  <2>1. stage = "idle" /\ overflow.items = <<>> /\ placed = <<>> /\ asked = <<>>
    BY DEF QueuesInit, NewQueue
  <2>2. Range(placed) = {} /\ Range(asked) = {} /\ <<>> \o <<>> = <<>>
    BY <2>1 DEF Range
  <2>. QED  BY <2>1, <2>2 DEF PoolLine!LineInit, Waiting, Done
<1>2. PoolInv /\ PoolInv' /\ HostInv /\ [QueuesNext]_queuesVars => HostInv'
  BY PoolStepMoves
<1>3. QueuesSpec => []HostInv
  BY <1>2, HostInit, PoolInvHolds, PTL DEF QueuesSpec
<1>4. PoolInv /\ HostInv => EnoughServers
  BY FitsServers
<1>5. PoolInv /\ PoolInv' /\ HostInv /\ EnoughServers' /\ [QueuesNext]_queuesVars
        => [PoolLine!LineNext]_(PoolLine!lineVars)
  BY PoolStepMoves, MovesAreLine
<1>. QED
  BY <1>1, <1>3, <1>4, <1>5, PoolInvHolds, PTL DEF QueuesSpec, PoolLine!LineSafety
------------------------------------------------------------------------------
(* Nobody is forgotten, whoever calls and from where: this needs neither   *)
(* the order of calls nor the turns of the event loop.                     *)

Awaits(p, c) == \E k \in 1..Len(p.items) : p.items[k] = c
Has(p, c) == p.processing = c \/ Awaits(p, c)
Asleep(p) == ~Busy(p) /\ p.items # <<>> /\ p.ticks = 0

\* Where a call whose promise is pending is: in a queue of the pool, or in the overflow queue,
\* whose entry is done with once it is handed over.
Whereabouts ==
  \A c \in Calls : answer[c] = "pending" =>
    \/ \E i \in Queues : Has(pool[i], c)
    \/ Awaits(overflow, c)
    \/ overflow.processing = c /\ stage # "handed"
NobodyForgotten ==
  /\ Whereabouts
  /\ ~Asleep(overflow) /\ \A i \in Queues : ~Asleep(pool[i])
  /\ stage = "idle" <=> ~Busy(overflow)
  /\ stage = "waiting" /\ winner = 0 => \A i \in Queues : ~Drained(pool[i])
  /\ loop = "flush" => Ticks

\* The guards of what the event loop and the processing functions do next.
SomeoneIsUp ==
  \/ loop # "drain" /\ Ticks
  \/ loop = "drain" /\ ~ChainPending
  \/ CanDrain /\ (ChainPending \/ \E i \in Queues : Busy(pool[i]))
NeverStalls == (\E c \in Calls : answer[c] = "pending") => SomeoneIsUp

WakeInv == PoolTypes /\ NobodyForgotten

\* What is in a queue stays in it until its processing is over, and a consumer is due as
\* long as something waits that nobody works on.
LEMMA PushKeeps ==
  ASSUME NEW p \in PoolQueue, NEW d \in Calls
  PROVE  /\ ~Asleep(Push(p, d)) /\ Awaits(Push(p, d), d)
         /\ \A c \in Calls : /\ Has(p, c) => Has(Push(p, d), c)
                             /\ Awaits(p, c) => Awaits(Push(p, d), c)
<1>1. p.items \in Seq(Calls) /\ p.ticks \in Nat
  BY DEF PoolQueue
<1>2. /\ Push(p, d).items = Append(p.items, d) /\ Push(p, d).processing = p.processing
      /\ Push(p, d).ticks = p.ticks + 1
  BY PoolPush
<1>3. /\ Len(Append(p.items, d)) = Len(p.items) + 1 /\ Append(p.items, d)[Len(p.items) + 1] = d
      /\ \A k \in 1..Len(p.items) : Append(p.items, d)[k] = p.items[k]
  BY <1>1
<1>4. /\ Len(p.items) \in Nat /\ Len(p.items) + 1 \in 1..(Len(p.items) + 1)
      /\ \A k \in 1..Len(p.items) : k \in 1..(Len(p.items) + 1)
  BY <1>1
<1>. QED  BY <1>1, <1>2, <1>3, <1>4 DEF Asleep, Has, Awaits

LEMMA HeadLeaves ==
  ASSUME NEW s \in Seq(Calls), s # <<>>, NEW k \in 1..Len(s)
  PROVE  s[k] = Head(s) \/ \E j \in 1..Len(Tail(s)) : Tail(s)[j] = s[k]
<1>1. CASE k = 1
  BY <1>1
<1>2. CASE k # 1
  <2>1. k - 1 \in 1..Len(Tail(s)) /\ Tail(s)[k - 1] = s[k]
    BY <1>2
  <2>. QED  BY <2>1
<1>. QED  BY <1>1, <1>2

LEMMA ConsumeKeeps ==
  ASSUME NEW p \in PoolQueue, p.ticks > 0
  PROVE  ~Asleep(Consume(p)) /\ \A c \in Calls : Has(p, c) => Has(Consume(p), c)
<1>1. p.items \in Seq(Calls)
  BY DEF PoolQueue
<1>2. CASE Busy(p) \/ p.items = <<>>
  BY <1>2, PoolConsume DEF Asleep, Has, Awaits, Busy
<1>3. CASE ~Busy(p) /\ p.items # <<>>
  <2>1. /\ Consume(p).items = Tail(p.items) /\ Consume(p).processing = Head(p.items)
        /\ Busy(Consume(p))
    BY <1>3, PoolConsume
  <2>2. ASSUME NEW c \in Calls, Has(p, c) PROVE Has(Consume(p), c)
    <3>1. PICK k \in 1..Len(p.items) : p.items[k] = c
      BY <1>3, <2>2, NoneAssumption DEF Has, Awaits, Busy
    <3>2. c = Head(p.items) \/ \E j \in 1..Len(Tail(p.items)) : Tail(p.items)[j] = c
      BY <1>1, <1>3, <3>1, HeadLeaves
    <3>. QED  BY <2>1, <3>2 DEF Has, Awaits
  <2>. QED  BY <2>1, <2>2 DEF Asleep
<1>. QED  BY <1>2, <1>3

LEMMA ReleaseKeeps ==
  ASSUME NEW p \in PoolQueue, Busy(p)
  PROVE  /\ ~Asleep(Release(p))
         /\ \A c \in Calls : Awaits(p, c) => Has(Release(p), c)
<1>1. p.items \in Seq(Calls)
  BY DEF PoolQueue
<1>2. CASE p.items = <<>>
  BY <1>2, PoolRelease DEF Asleep, Has, Awaits
<1>3. CASE p.items # <<>>
  <2>1. /\ Release(p).items = Tail(p.items) /\ Release(p).processing = Head(p.items)
        /\ Busy(Release(p))
    BY <1>3, PoolRelease
  <2>2. ASSUME NEW c \in Calls, Awaits(p, c) PROVE Has(Release(p), c)
    <3>1. PICK k \in 1..Len(p.items) : p.items[k] = c
      BY <2>2 DEF Awaits
    <3>2. c = Head(p.items) \/ \E j \in 1..Len(Tail(p.items)) : Tail(p.items)[j] = c
      BY <1>1, <1>3, <3>1, HeadLeaves
    <3>. QED  BY <2>1, <3>2 DEF Has, Awaits
  <2>. QED  BY <2>1, <2>2 DEF Asleep
<1>. QED  BY <1>2, <1>3

\* One queue of the pool is changed to p.
LEMMA QueueChanges ==
  ASSUME WakeInv, NEW i \in Queues, NEW p \in PoolQueue, pool' = [pool EXCEPT ![i] = p],
         ~Asleep(p)
  PROVE  /\ pool' \in [Queues -> PoolQueue] /\ pool'[i] = p
         /\ \A j \in Queues : j # i => pool'[j] = pool[j]
         /\ \A j \in Queues : ~Asleep(pool'[j])
  BY PoolChanged DEF WakeInv, NobodyForgotten

LEMMA EnqueueAtWakes ==
  ASSUME WakeInv, NEW c \in Calls, EnqueueAt(c)
  PROVE  WakeInv'
<1>. DEFINE i == IndexOf[c]
<1>1. i \in Queues /\ loop \in {"turn", "drain"}
  BY PoolAssumption DEF EnqueueAt, MayCall, Queues
<1>2. pool' = [pool EXCEPT ![i] = Push(pool[i], c)]
  BY DEF EnqueueAt
<1>. HIDE DEF i
<1>3. pool[i] \in PoolQueue
  BY <1>1, PoolTypeFacts DEF WakeInv
<1>4. Push(pool[i], c) \in PoolQueue /\ ~Drained(Push(pool[i], c))
  BY <1>3, PoolPush
<1>5. /\ pool' \in [Queues -> PoolQueue] /\ pool'[i] = Push(pool[i], c)
      /\ \A j \in Queues : j # i => pool'[j] = pool[j]
      /\ \A j \in Queues : ~Asleep(pool'[j])
  BY <1>1, <1>2, <1>3, <1>4, PushKeeps, QueueChanges
<1>6. /\ answer' = [answer EXCEPT ![c] = "pending"]
      /\ UNCHANGED <<overflow, stage, winner, loop, asked, placed>>
  BY DEF EnqueueAt
<1>7. PoolTypes'
  BY <1>5, <1>6, PoolTypeParts DEF WakeInv, PoolTypes, Answers
<1>8. Whereabouts'
  BY <1>1, <1>3, <1>5, <1>6, PushKeeps DEF WakeInv, PoolTypes, NobodyForgotten, Whereabouts, Has
<1>9. stage' = "waiting" /\ winner' = 0 => \A j \in Queues : ~Drained(pool'[j])
  BY <1>4, <1>5, <1>6 DEF WakeInv, NobodyForgotten
<1>. QED  BY <1>1, <1>5, <1>6, <1>7, <1>8, <1>9 DEF WakeInv, NobodyForgotten

LEMMA EnqueueWakes ==
  ASSUME WakeInv, NEW c \in Calls, Enqueue(c)
  PROVE  WakeInv'
<1>1. /\ loop \in {"turn", "drain"} /\ UNCHANGED <<stage, winner, loop>>
      /\ answer' = [answer EXCEPT ![c] = "pending"] /\ asked' = Append(asked, c)
  BY DEF Enqueue, MayCall
<1>2. asked' \in Seq(Calls) /\ answer' \in [Calls -> Answers] /\ answer \in [Calls -> Answers]
  BY <1>1, PoolTypeFacts DEF WakeInv, PoolTypes, Answers
<1>3. CASE AnyFree # {}
  <2>. DEFINE i == FirstFree
  <2>1. i \in Queues
    BY <1>3, FreeFacts DEF WakeInv
  <2>2. /\ pool' = [pool EXCEPT ![i] = Push(pool[i], c)] /\ placed' = Append(placed, c)
        /\ UNCHANGED overflow
    BY <1>3 DEF Enqueue
  <2>. HIDE DEF i
  <2>3. pool[i] \in PoolQueue
    BY <2>1, PoolTypeFacts DEF WakeInv
  <2>4. Push(pool[i], c) \in PoolQueue /\ ~Drained(Push(pool[i], c))
    BY <2>3, PoolPush
  <2>5. /\ pool' \in [Queues -> PoolQueue] /\ pool'[i] = Push(pool[i], c)
        /\ \A j \in Queues : j # i => pool'[j] = pool[j]
        /\ \A j \in Queues : ~Asleep(pool'[j])
    BY <2>1, <2>2, <2>3, <2>4, PushKeeps, QueueChanges
  <2>6. PoolTypes'
    BY <1>1, <1>2, <2>2, <2>5, PoolTypeParts, PoolTypeFacts DEF WakeInv, PoolTypes
  <2>7. Whereabouts'
    BY <1>1, <1>2, <2>1, <2>2, <2>3, <2>5, PushKeeps DEF WakeInv, NobodyForgotten, Whereabouts, Has
  <2>8. stage' = "waiting" /\ winner' = 0 => \A j \in Queues : ~Drained(pool'[j])
    BY <1>1, <2>4, <2>5 DEF WakeInv, NobodyForgotten
  <2>. QED  BY <1>1, <2>2, <2>5, <2>6, <2>7, <2>8 DEF WakeInv, NobodyForgotten
<1>4. CASE AnyFree = {}
  <2>1. overflow' = Push(overflow, c) /\ UNCHANGED <<pool, placed>>
    BY <1>4 DEF Enqueue
  <2>2. overflow \in PoolQueue
    BY PoolTypeFacts DEF WakeInv
  <2>3. /\ overflow' \in PoolQueue /\ overflow'.processing = overflow.processing
        /\ overflow'.items = Append(overflow.items, c)
    BY <2>1, <2>2, PoolPush
  <2>4. PoolTypes'
    BY <1>1, <1>2, <2>1, <2>3, PoolTypeParts DEF WakeInv, PoolTypes
  <2>5. Whereabouts'
    <3>1. SUFFICES ASSUME NEW d \in Calls, answer'[d] = "pending"
                   PROVE  \/ \E i \in Queues : Has(pool'[i], d)
                          \/ Awaits(overflow', d)
                          \/ overflow'.processing = d /\ stage' # "handed"
      BY DEF Whereabouts
    <3>2. CASE d = c
      BY <2>1, <2>2, <3>2, PushKeeps
    <3>3. CASE d # c
      BY <1>1, <1>2, <2>1, <2>2, <2>3, <3>1, <3>3, PushKeeps DEF WakeInv, NobodyForgotten, Whereabouts
    <3>. QED  BY <3>2, <3>3
  <2>. QED  BY <1>1, <2>1, <2>2, <2>3, <2>4, <2>5, PushKeeps DEF WakeInv, NobodyForgotten, Busy
<1>. QED  BY <1>3, <1>4

LEMMA PoolTickWakes ==
  ASSUME WakeInv, NEW i \in Queues, PoolTick(i)
  PROVE  WakeInv'
<1>1. /\ pool[i].ticks > 0 /\ pool' = [pool EXCEPT ![i] = Consume(pool[i])]
      /\ Wins(i) /\ UNCHANGED <<overflow, stage, answer, asked, placed>> /\ loop' = AfterTick
  BY DEF PoolTick
<1>2. pool[i] \in PoolQueue
  BY PoolTypeFacts DEF WakeInv
<1>3. Consume(pool[i]) \in PoolQueue
  BY <1>1, <1>2, PoolConsume
<1>4. /\ pool' \in [Queues -> PoolQueue] /\ pool'[i] = Consume(pool[i])
      /\ \A j \in Queues : j # i => pool'[j] = pool[j]
      /\ \A j \in Queues : ~Asleep(pool'[j])
  BY <1>1, <1>2, <1>3, ConsumeKeeps, QueueChanges
<1>5. Whereabouts'
  BY <1>1, <1>2, <1>4, ConsumeKeeps DEF WakeInv, NobodyForgotten, Whereabouts
<1>6. stage' = "waiting" /\ winner' = 0 => \A j \in Queues : ~Drained(pool'[j])
  BY <1>1, <1>4, PoolAssumption DEF WakeInv, NobodyForgotten, Wins, Queues
<1>7. loop' \in {"turn", "flush"} /\ (loop' = "flush" => Ticks') /\ winner' \in 0..N
  BY <1>1 DEF AfterTick, Wins, WakeInv, PoolTypes, Queues
<1>8. PoolTypes'
  BY <1>1, <1>4, <1>7, PoolTypeParts DEF WakeInv, PoolTypes
<1>. QED  BY <1>1, <1>4, <1>5, <1>6, <1>7, <1>8 DEF WakeInv, NobodyForgotten

LEMMA SettlesWakes ==
  ASSUME WakeInv, NEW i \in Queues, Settles(i)
  PROVE  WakeInv'
<1>1. PICK result \in {"resolved", "rejected"} :
        answer' = [answer EXCEPT ![pool[i].processing] = result]
  BY DEF Settles
<1>2. /\ Busy(pool[i]) /\ pool' = [pool EXCEPT ![i] = Release(pool[i])]
      /\ Wins(i) /\ loop' = "drain" /\ UNCHANGED <<overflow, stage, asked, placed>>
  BY DEF Settles
<1>3. pool[i] \in PoolQueue /\ pool[i].processing \in Calls
  BY <1>2, PoolTypeFacts DEF WakeInv, PoolQueue, Busy
<1>4. Release(pool[i]) \in PoolQueue
  BY <1>2, <1>3, PoolRelease
<1>5. /\ pool' \in [Queues -> PoolQueue] /\ pool'[i] = Release(pool[i])
      /\ \A j \in Queues : j # i => pool'[j] = pool[j]
      /\ \A j \in Queues : ~Asleep(pool'[j])
  BY <1>2, <1>3, <1>4, ReleaseKeeps, QueueChanges
<1>6. /\ answer \in [Calls -> Answers] /\ answer' \in [Calls -> Answers]
      /\ answer'[pool[i].processing] # "pending"
      /\ \A c \in Calls : c # pool[i].processing => answer'[c] = answer[c]
  BY <1>1, <1>3 DEF WakeInv, PoolTypes, Answers
<1>7. Whereabouts'
  <2>1. SUFFICES ASSUME NEW c \in Calls, answer'[c] = "pending"
                 PROVE  \/ \E j \in Queues : Has(pool'[j], c)
                        \/ Awaits(overflow, c)
                        \/ overflow.processing = c /\ stage # "handed"
    BY <1>2 DEF Whereabouts
  <2>2. c # pool[i].processing /\ answer[c] = "pending"
    BY <1>6, <2>1
  <2>3. Has(pool[i], c) => Has(pool'[i], c)
    BY <1>2, <1>3, <1>5, <2>2, ReleaseKeeps DEF Has
  <2>. QED  BY <1>5, <2>2, <2>3 DEF WakeInv, NobodyForgotten, Whereabouts
<1>8. stage' = "waiting" /\ winner' = 0 => \A j \in Queues : ~Drained(pool'[j])
  BY <1>2, <1>5, PoolAssumption DEF WakeInv, NobodyForgotten, Wins, Queues
<1>9. winner' \in 0..N
  BY <1>2 DEF Wins, WakeInv, PoolTypes, Queues
<1>10. PoolTypes'
  BY <1>2, <1>5, <1>6, <1>9, PoolTypeParts DEF WakeInv, PoolTypes
<1>. QED  BY <1>2, <1>5, <1>7, <1>8, <1>10 DEF WakeInv, NobodyForgotten

\* The overflow queue goes on in state ovf; whoever it still has to place it does not lose.
LEMMA StartWakes ==
  ASSUME WakeInv, NEW ovf \in PoolQueue, ~Asleep(ovf), StartOverflow(ovf),
         answer' \in [Calls -> Answers], asked' \in Seq(Calls),
         loop' \in {"turn", "flush", "drain"}, loop' = "flush" => Ticks',
         \A c \in Calls : answer'[c] = "pending" =>
           (\E i \in Queues : Has(pool[i], c)) \/ Has(ovf, c)
  PROVE  WakeInv'
<1>1. overflow' = ovf /\ winner' = 0 /\ winner' \in 0..N
  BY PoolAssumption DEF StartOverflow
<1>2. placed \in Seq(Calls) /\ pool \in [Queues -> PoolQueue] /\ ovf.processing \in Calls \cup {None}
  BY DEF WakeInv, PoolTypes, PoolQueue
<1>3. CASE ~Busy(ovf)
  <2>1. stage' = "idle" /\ UNCHANGED <<pool, placed>>
    BY <1>3 DEF StartOverflow
  <2>2. PoolTypes'
    BY <1>1, <1>2, <2>1, PoolTypeParts
  <2>3. Whereabouts'
    BY <1>1, <1>3, <2>1, NoneAssumption DEF Whereabouts, Has, Busy
  <2>. QED  BY <1>1, <1>3, <2>1, <2>2, <2>3 DEF WakeInv, NobodyForgotten
<1>4. CASE Busy(ovf) /\ AnyFree # {}
  <2>. DEFINE i == FirstFree
              c == ovf.processing
  <2>1. i \in Queues /\ c \in Calls
    BY <1>2, <1>4, FreeFacts DEF WakeInv, Busy
  <2>2. stage' = "handed" /\ pool' = [pool EXCEPT ![i] = Push(pool[i], c)] /\ placed' = Append(placed, c)
    BY <1>4 DEF StartOverflow
  <2>. HIDE DEF i
  <2>3. pool[i] \in PoolQueue
    BY <1>2, <2>1
  <2>4. Push(pool[i], c) \in PoolQueue /\ ~Asleep(Push(pool[i], c))
    BY <2>1, <2>3, PoolPush, PushKeeps
  <2>5. /\ pool' \in [Queues -> PoolQueue] /\ pool'[i] = Push(pool[i], c)
        /\ \A j \in Queues : j # i => pool'[j] = pool[j]
        /\ \A j \in Queues : ~Asleep(pool'[j])
    BY <2>1, <2>2, <2>4, QueueChanges
  <2>6. placed' \in Seq(Calls)
    BY <1>2, <2>1, <2>2
  <2>7. PoolTypes'
    BY <1>1, <2>2, <2>5, <2>6, PoolTypeParts
  <2>8. Whereabouts'
    <3>1. SUFFICES ASSUME NEW d \in Calls, answer'[d] = "pending"
                   PROVE  (\E j \in Queues : Has(pool'[j], d)) \/ Awaits(overflow', d)
      BY DEF Whereabouts
    <3>2. ASSUME NEW j \in Queues, Has(pool[j], d) PROVE Has(pool'[j], d)
      BY <2>1, <2>3, <2>5, <3>2, PushKeeps
    <3>3. CASE d = c
      BY <2>1, <2>3, <2>5, <3>3, PushKeeps DEF Has
    <3>4. CASE d # c
      BY <1>1, <3>1, <3>2, <3>4 DEF Has
    <3>. QED  BY <3>3, <3>4
  <2>. QED  BY <1>1, <1>4, <2>2, <2>5, <2>7, <2>8 DEF WakeInv, NobodyForgotten
<1>5. CASE Busy(ovf) /\ AnyFree = {}
  <2>1. stage' = "waiting" /\ UNCHANGED <<pool, placed>>
    BY <1>5 DEF StartOverflow
  <2>2. \A j \in Queues : ~Drained(pool[j])
    BY <1>5, FreeFacts DEF WakeInv
  <2>3. PoolTypes'
    BY <1>1, <1>2, <2>1, PoolTypeParts
  <2>4. Whereabouts'
    BY <1>1, <2>1 DEF Whereabouts, Has
  <2>. QED  BY <1>1, <1>5, <2>1, <2>2, <2>3, <2>4 DEF WakeInv, NobodyForgotten
<1>. QED  BY <1>3, <1>4, <1>5

LEMMA OverflowTickWakes ==
  ASSUME WakeInv, OverflowTick
  PROVE  WakeInv'
<1>. DEFINE ovf == Consume(overflow)
<1>1. /\ overflow.ticks > 0 /\ UNCHANGED <<answer, asked>> /\ loop' = AfterTick
  BY DEF OverflowTick
<1>2. /\ overflow \in PoolQueue /\ ovf \in PoolQueue /\ ~Asleep(ovf)
      /\ Busy(overflow) => ovf.items = overflow.items /\ ovf.processing = overflow.processing
      /\ \A c \in Calls : Has(overflow, c) => Has(ovf, c)
  BY <1>1, PoolConsume, PoolTypeFacts, ConsumeKeeps DEF WakeInv
<1>3. /\ Busy(overflow) => overflow' = ovf /\ UNCHANGED <<pool, stage, winner, placed>>
      /\ ~Busy(overflow) => StartOverflow(ovf)
  BY DEF OverflowTick
<1>4. loop' \in {"turn", "flush"} /\ (loop' = "flush" => Ticks')
  BY <1>1 DEF AfterTick
<1>5. answer' \in [Calls -> Answers] /\ asked' \in Seq(Calls)
  BY <1>1 DEF WakeInv, PoolTypes
<1>. HIDE DEF ovf
<1>6. CASE Busy(overflow)
  <2>1. PoolTypes'
    BY <1>1, <1>2, <1>3, <1>4, <1>6, PoolTypeParts DEF WakeInv, PoolTypes
  <2>2. Whereabouts'
    BY <1>1, <1>2, <1>3, <1>6 DEF WakeInv, NobodyForgotten, Whereabouts, Awaits
  <2>. QED  BY <1>2, <1>3, <1>4, <1>6, <2>1, <2>2 DEF WakeInv, NobodyForgotten, Busy
<1>7. CASE ~Busy(overflow)
  <2>1. \A c \in Calls : answer'[c] = "pending" => (\E i \in Queues : Has(pool[i], c)) \/ Has(ovf, c)
    BY <1>1, <1>2 DEF WakeInv, NobodyForgotten, Whereabouts, Has
  <2>. QED  BY <1>2, <1>3, <1>4, <1>5, <1>7, <2>1, StartWakes
<1>. QED  BY <1>6, <1>7

LEMMA OverflowResumesWakes ==
  ASSUME WakeInv, OverflowResumes
  PROVE  WakeInv'
<1>. DEFINE i == winner
            c == overflow.processing
<1>1. /\ stage = "waiting" /\ i # 0 /\ winner' = 0 /\ loop' = "drain"
      /\ UNCHANGED <<overflow, answer, asked>>
  BY DEF OverflowResumes
<1>2. i \in Queues /\ Busy(overflow) /\ c \in Calls /\ 0 \in 0..N
  BY <1>1, PoolTypeFacts, PoolAssumption DEF WakeInv, NobodyForgotten, PoolTypes, Queues
<1>3. CASE StillFree(i)
  <2>1. stage' = "handed" /\ pool' = [pool EXCEPT ![i] = Push(pool[i], c)] /\ placed' = Append(placed, c)
    BY <1>3 DEF OverflowResumes
  <2>. HIDE DEF i
  <2>2. pool[i] \in PoolQueue
    BY <1>2, PoolTypeFacts DEF WakeInv
  <2>3. Push(pool[i], c) \in PoolQueue
    BY <1>2, <2>2, PoolPush
  <2>4. /\ pool' \in [Queues -> PoolQueue] /\ pool'[i] = Push(pool[i], c)
        /\ \A j \in Queues : j # i => pool'[j] = pool[j]
        /\ \A j \in Queues : ~Asleep(pool'[j])
    BY <1>2, <2>1, <2>2, <2>3, PushKeeps, QueueChanges
  <2>5. placed' \in Seq(Calls)
    BY <1>2, <2>1, PoolTypeFacts DEF WakeInv
  <2>6. PoolTypes'
    BY <1>1, <1>2, <2>1, <2>4, <2>5, PoolTypeParts DEF WakeInv, PoolTypes
  <2>7. Whereabouts'
    <3>1. SUFFICES ASSUME NEW d \in Calls, answer[d] = "pending"
                   PROVE  (\E j \in Queues : Has(pool'[j], d)) \/ Awaits(overflow, d)
      BY <1>1 DEF Whereabouts
    <3>2. ASSUME NEW j \in Queues, Has(pool[j], d) PROVE Has(pool'[j], d)
      BY <1>2, <2>2, <2>4, <3>2, PushKeeps
    <3>3. CASE d = c
      BY <1>2, <2>2, <2>4, <3>3, PushKeeps DEF Has
    <3>4. CASE d # c
      BY <3>1, <3>2, <3>4 DEF WakeInv, NobodyForgotten, Whereabouts
    <3>. QED  BY <3>3, <3>4
  <2>. QED  BY <1>1, <1>2, <2>1, <2>4, <2>6, <2>7 DEF WakeInv, NobodyForgotten
<1>4. CASE ~StillFree(i)
  <2>1. stage' = "starved" /\ UNCHANGED <<pool, placed>>
    BY <1>4 DEF OverflowResumes
  <2>2. PoolTypes'
    BY <1>1, <1>2, <2>1, PoolTypeParts DEF WakeInv, PoolTypes
  <2>3. Whereabouts'
    BY <1>1, <2>1 DEF WakeInv, NobodyForgotten, Whereabouts
  <2>. QED  BY <1>1, <1>2, <2>1, <2>2, <2>3 DEF WakeInv, NobodyForgotten
<1>. QED  BY <1>3, <1>4

LEMMA OverflowDoneWakes ==
  ASSUME WakeInv, OverflowDone
  PROVE  WakeInv'
<1>1. /\ stage \in {"handed", "starved"} /\ StartOverflow(Release(overflow)) /\ loop' = "drain"
      /\ UNCHANGED asked
      /\ answer' = IF stage = "starved"
                    THEN [answer EXCEPT ![overflow.processing] = "starved"] ELSE answer
  BY DEF OverflowDone
<1>2. overflow \in PoolQueue /\ Busy(overflow) /\ overflow.processing \in Calls
  BY <1>1 DEF WakeInv, NobodyForgotten, PoolTypes, PoolQueue, Busy
<1>3. /\ Release(overflow) \in PoolQueue /\ ~Asleep(Release(overflow))
      /\ \A c \in Calls : Awaits(overflow, c) => Has(Release(overflow), c)
  BY <1>2, PoolRelease, ReleaseKeeps
<1>4. answer \in [Calls -> Answers] /\ answer' \in [Calls -> Answers] /\ asked' \in Seq(Calls)
  BY <1>1, <1>2 DEF WakeInv, PoolTypes, Answers
<1>5. ASSUME NEW c \in Calls, answer'[c] = "pending"
      PROVE  (\E i \in Queues : Has(pool[i], c)) \/ Has(Release(overflow), c)
  <2>1. answer[c] = "pending" /\ (stage = "starved" => c # overflow.processing)
    BY <1>1, <1>2, <1>4, <1>5
  <2>. QED  BY <1>1, <1>3, <2>1 DEF WakeInv, NobodyForgotten, Whereabouts
<1>. QED  BY <1>1, <1>3, <1>4, <1>5, StartWakes

LEMMA WakeStarts == QueuesInit => WakeInv
<1>. SUFFICES ASSUME QueuesInit PROVE WakeInv
  OBVIOUS
<1>1. PoolTypes
  BY PoolInitInv DEF PoolInv
<1>2. /\ stage = "idle" /\ loop = "turn" /\ \A c \in Calls : answer[c] = "none"
      /\ ~Busy(overflow) /\ overflow.items = <<>>
      /\ \A i \in Queues : pool[i].items = <<>>
  BY DEF QueuesInit, NewQueue, Busy
<1>. QED  BY <1>1, <1>2 DEF WakeInv, NobodyForgotten, Whereabouts, Asleep

LEMMA WakeKeeps == WakeInv /\ [QueuesNext]_queuesVars => WakeInv'
<1>. SUFFICES ASSUME WakeInv, [QueuesNext]_queuesVars PROVE WakeInv'
  OBVIOUS
<1>1. CASE DrainEnds
  <2>1. /\ UNCHANGED <<pool, overflow, stage, winner, answer, asked, placed>>
        /\ loop' \in {"turn", "flush"} /\ (loop' = "flush" => Ticks)
    BY <1>1 DEF DrainEnds
  <2>. QED  BY <2>1 DEF WakeInv, PoolTypes, NobodyForgotten, Whereabouts, Ticks
<1>2. CASE UNCHANGED queuesVars
  BY <1>2 DEF queuesVars, WakeInv, PoolTypes, NobodyForgotten, Whereabouts, Ticks
<1>. QED
  BY <1>1, <1>2, EnqueueAtWakes, EnqueueWakes, PoolTickWakes, SettlesWakes, OverflowTickWakes,
     OverflowResumesWakes, OverflowDoneWakes DEF QueuesNext, System

(***************************************************************************)
(* Whoever calls, and from where: a call that is not answered is in one of *)
(* the queues, a queue that has entries nobody works on has its consumer   *)
(* due, and onOverflow waits for onceFree only while no queue is free, so  *)
(* that no wakeup is lost (QueuePool.ts, enqueue and onOverflow).          *)
(***************************************************************************)
THEOREM PoolForgetsNobody == QueuesSpec => []NobodyForgotten
<1>1. WakeInv => NobodyForgotten
  BY DEF WakeInv
<1>. QED  BY <1>1, WakeStarts, WakeKeeps, PTL DEF QueuesSpec

(***************************************************************************)
(* So the pool never stalls: while a call is not answered, a callback is   *)
(* due or a processing function runs.                                      *)
(***************************************************************************)
THEOREM PoolNeverStalls == QueuesSpec => []NeverStalls
<1>1. WakeInv => NeverStalls
  <2>1. SUFFICES ASSUME WakeInv, NEW c \in Calls, answer[c] = "pending" PROVE SomeoneIsUp
    BY DEF NeverStalls
  <2>2. ASSUME NEW p \in PoolQueue, ~Asleep(p), ~Drained(p) PROVE Busy(p) \/ p.ticks > 0
    BY <2>2 DEF Asleep, Drained, PoolQueue
  <2>3. ASSUME NEW p \in PoolQueue, ~Asleep(p), Has(p, c) PROVE Busy(p) \/ p.ticks > 0
    <3>1. ~Drained(p)
      <4>1. p.processing = c => Busy(p)
        BY NoneAssumption DEF Busy
      <4>2. Awaits(p, c) => p.items # <<>>
        BY DEF Awaits
      <4>. QED  BY <2>3, <4>1, <4>2 DEF Has, Drained
    <3>. QED  BY <2>2, <2>3, <3>1
  <2>4. \A i \in Queues : pool[i] \in PoolQueue /\ ~Asleep(pool[i])
    BY <2>1 DEF WakeInv, PoolTypes, NobodyForgotten
  <2>5. (\E i \in Queues : Busy(pool[i])) \/ ChainPending \/ Ticks
    <3>1. CASE \E i \in Queues : Has(pool[i], c)
      BY <2>3, <2>4, <3>1 DEF Ticks
    <3>2. CASE ~Busy(overflow) /\ Awaits(overflow, c)
      <4>1. overflow \in PoolQueue /\ ~Asleep(overflow) /\ Has(overflow, c)
        BY <2>1, <3>2 DEF WakeInv, PoolTypes, NobodyForgotten, Has
      <4>. QED  BY <2>3, <3>2, <4>1 DEF Ticks
    <3>3. CASE Busy(overflow)
      <4>1. stage \in {"handed", "starved"} \/ stage = "waiting"
        BY <2>1, <3>3 DEF WakeInv, PoolTypes, NobodyForgotten
      <4>2. CASE stage = "waiting" /\ winner = 0
        <5>1. 1 \in Queues /\ ~Drained(pool[1])
          BY <2>1, <4>2, PoolAssumption DEF WakeInv, NobodyForgotten, Queues
        <5>. QED  BY <2>2, <2>4, <5>1 DEF Ticks
      <4>. QED  BY <4>1, <4>2 DEF ChainPending
    <3>. QED
      BY <2>1, <3>1, <3>2, <3>3, NoneAssumption DEF WakeInv, NobodyForgotten, Whereabouts, Busy
  <2>6. loop \in {"turn", "flush", "drain"} /\ (loop = "flush" => Ticks)
    BY <2>1 DEF WakeInv, PoolTypes, NobodyForgotten
  <2>. QED  BY <2>5, <2>6 DEF SomeoneIsUp, CanDrain
<1>. QED  BY <1>1, WakeStarts, WakeKeeps, PTL DEF QueuesSpec
==============================================================================
