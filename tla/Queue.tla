-------------------------------- MODULE Queue --------------------------------
(***************************************************************************)
(* The promise queue of src/src/util/Queue.ts, which every component of    *)
(* the bridge that must not do two things at once is built on: callers     *)
(* enqueue, the consumer coroutine runs processFn on one entry at a time.  *)
(*                                                                         *)
(* active, started and accepted are history: the code keeps no such state, *)
(* the properties compare it with them.                                    *)
(***************************************************************************)
EXTENDS QueueOps, FiniteSets, SequencesExt

CONSTANTS Ids,       \* the IDs callers give to their requests
          IdOf,      \* the ID of each call
          Waiters,   \* callers of onceFree
          Intervals  \* whether the queue may have an interval: some of BOOLEAN

ASSUME IdAssumption == IdOf \in [Calls -> Ids]
ASSUME IntervalAssumption == Intervals \subseteq BOOLEAN

VARIABLES q,         \* the queue
          promise,   \* the entry whose promise a call was given, None before
          outcome,   \* the state of each entry's promise
          waiter,    \* the state of each onceFree promise
          active,    \* entries whose processFn has not settled yet
          accepted,  \* every entry pushed, in order
          started    \* every entry processFn was called with, in order

vars == <<q, promise, outcome, waiter, active, accepted, started>>

Init ==
  /\ \E i \in Intervals : q = NewQueue(i)
  /\ promise = [c \in Calls |-> None]
  /\ outcome = [c \in Calls |-> "none"]
  /\ waiter = [w \in Waiters |-> "idle"]
  /\ active = {}
  /\ accepted = <<>>
  /\ started = <<>>
------------------------------------------------------------------------------
SameId(c) == {i \in DOMAIN q.items : IdOf[q.items[i]] = IdOf[c]}

SharesProcessing(c) ==
  /\ promise[c] = None /\ Busy(q) /\ IdOf[q.processing] = IdOf[c]
  /\ promise' = [promise EXCEPT ![c] = q.processing]
  /\ UNCHANGED <<q, outcome, waiter, active, accepted, started>>
EnqueueShares(c) ==
  /\ promise[c] = None
  /\ \E i \in SameId(c) : promise' = [promise EXCEPT ![c] = q.items[i]]
  /\ UNCHANGED <<q, outcome, waiter, active, accepted, started>>

EnqueuePushes(c) ==
  /\ promise[c] = None
  /\ SameId(c) = {}
  /\ q' = Push(q, c)
  /\ promise' = [promise EXCEPT ![c] = c]
  /\ outcome' = [outcome EXCEPT ![c] = "pending"]
  /\ accepted' = Append(accepted, c)
  /\ UNCHANGED <<waiter, active, started>>

\* The consumer leaves the queue in state p after the processFn of the entries
\* in left settled; another entry in the critical section means another call
\* of processFn, an empty queue fires onceFree.
Leaves(p, left) ==
  /\ q' = p
  /\ LET entered == {p.processing} \ ({None} \cup ({q.processing} \ left))
     IN  /\ active' = (active \ left) \cup entered
         /\ started' = IF entered = {} THEN started ELSE Append(started, p.processing)
  /\ waiter' = [w \in Waiters |->
                  IF waiter[w] = "waiting" /\ Drained(p) THEN "free" ELSE waiter[w]]

\* A scheduled consume() runs.
Wakeup ==
  /\ q.ticks > 0
  /\ Leaves(Consume(q), {})
  /\ UNCHANGED <<promise, outcome, accepted>>

\* The processFn of c settles: the promise of the entry in the critical section
\* settles with it (unless killAll rejected it), and the consumer goes on.
Settle(c, result) ==
  /\ c \in active
  /\ outcome' = [outcome EXCEPT ![q.processing] = IF @ = "pending" THEN result ELSE @]
  /\ Leaves(Release(q), {c})
  /\ UNCHANGED <<promise, accepted>>

OnceFreeWaits(w) ==
  /\ waiter[w] = "idle"
  /\ waiter' = [waiter EXCEPT ![w] = "waiting"]
  /\ UNCHANGED <<q, promise, outcome, active, accepted, started>>
OnceFree(w) ==
  /\ waiter[w] = "idle"
  /\ waiter' = [waiter EXCEPT ![w] = IF Size(q) = 0 THEN "free" ELSE "waiting"]
  /\ UNCHANGED <<q, promise, outcome, active, accepted, started>>

\* killAll rejects the waiting entries but leaves them queued.
KillAll ==
  /\ q.items # <<>>
  /\ outcome' = [c \in Calls |-> IF c \in Range(q.items) /\ outcome[c] = "pending"
                                 THEN "rejected" ELSE outcome[c]]
  /\ UNCHANGED <<q, promise, waiter, active, accepted, started>>

SomeSettle == \E c \in Calls, result \in {"resolved", "rejected"} : Settle(c, result)

Next ==
  \/ \E c \in Calls : EnqueueShares(c) \/ EnqueuePushes(c)
  \/ Wakeup
  \/ SomeSettle
  \/ \E w \in Waiters : OnceFree(w)
  \/ KillAll

\* The event loop runs what was scheduled; processFn settles in the end.
Fairness ==
  /\ WF_vars(Wakeup)
  /\ WF_vars(SomeSettle)

Spec == Init /\ [][Next]_vars /\ Fairness
------------------------------------------------------------------------------
TypeOK ==
  /\ q \in QueueType
  /\ promise \in [Calls -> Calls \cup {None}]
  /\ outcome \in [Calls -> {"none", "pending", "resolved", "rejected"}]
  /\ waiter \in [Waiters -> {"idle", "waiting", "free"}]
  /\ active \in SUBSET Calls
  /\ accepted \in Seq(Calls)
  /\ started \in Seq(Calls)

(***************************************************************************)
(* "Only 1 item at any one time will be calling this function" (Queue.ts,  *)
(* line 38): however ticks and settling promises interleave, the entry the *)
(* queue believes it is processing is the only one whose processFn runs.   *)
(***************************************************************************)
OneAtATime == active = IF Busy(q) THEN {q.processing} ELSE {}

(***************************************************************************)
(* "process items FIFO" (line 36): what was started, followed by what      *)
(* waits, is what was accepted, so nothing is lost, repeated or overtaken. *)
(***************************************************************************)
Fifo == accepted = started \o q.items

(***************************************************************************)
(* No lost wakeup: an idle queue with entries has a consume() coming, and  *)
(* a queue with an interval always has exactly one timer or one entry in   *)
(* its critical section (two would halve the interval, none would stop it).*)
(***************************************************************************)
WillConsume ==
  /\ q.items # <<>> => Busy(q) \/ q.ticks > 0
  /\ q.interval => q.ticks = IF Busy(q) THEN 0 ELSE 1

(***************************************************************************)
(* A second request with an ID that is still queued is not queued again,   *)
(* and one whose ID is only being processed is: no two waiting entries     *)
(* have one ID, and the promise a call shares is that of a queued entry.   *)
(***************************************************************************)
NoDuplicateIds ==
  \A i, j \in DOMAIN q.items : IdOf[q.items[i]] = IdOf[q.items[j]] => i = j

SharesQueuedOnly ==
  [][\A c \in Calls : promise'[c] # promise[c] => promise'[c] \in Range(q'.items)]_vars

(***************************************************************************)
(* onceFree resolves only at a moment when nothing is queued or processed: *)
(* QueuePool hands the queue an entry on the strength of it.               *)
(***************************************************************************)
FreeMeansFree ==
  [][\A w \in Waiters : waiter'[w] # waiter[w] /\ waiter'[w] = "free" => Size(q') = 0]_vars

\* Every enqueue call's promise settles, and every onceFree promise resolves
\* once callers stop coming (Calls is finite).
EveryCallSettles ==
  \A c \in Calls : promise[c] # None ~> \E d \in Calls :
                      promise[c] = d /\ outcome[d] \in {"resolved", "rejected"}
EveryWaiterFreed == \A w \in Waiters : waiter[w] = "waiting" ~> waiter[w] = "free"

(***************************************************************************)
(* The queue is a line with one server: it serves one entry at a time, in  *)
(* the order of the line, each one once, and every one in the end.         *)
(***************************************************************************)
Line == INSTANCE ServiceLine WITH
          Servers <- 1, line <- q.items, serving <- active, served <- Range(started) \ active
IsServiceLine == Line!LineSpec
=============================================================================
