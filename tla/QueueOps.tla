------------------------------ MODULE QueueOps ------------------------------
(***************************************************************************)
(* One Queue object of src/src/util/Queue.ts as a value, and what its      *)
(* methods do to it.  An entry is the enqueue call whose push created it:  *)
(* two calls share an entry when the second one finds its ID queued.       *)
(*   items       entries waiting (Queue.queue)                             *)
(*   processing  the entry in the critical section, None if there is none  *)
(*   ticks       consume() invocations the event loop still owes: nextTick *)
(*               callbacks, or the timer of a queue with an interval       *)
(*   interval    TRUE for a queue serviced every intervalMs                *)
(***************************************************************************)
EXTENDS Naturals, Sequences

CONSTANTS Calls,      \* the enqueue() calls made in a behaviour
          None        \* "no entry"

ASSUME NoneAssumption == None \notin Calls

QueueType == [items: Seq(Calls), processing: Calls \cup {None}, ticks: Nat,
              interval: BOOLEAN]

\* The constructor starts the consumer only when there is an interval; it
\* finds nothing, so what is left of it is its timer.
NewQueue(interval) == [items |-> <<>>, processing |-> None,
                       ticks |-> IF interval THEN 1 ELSE 0, interval |-> interval]

\* Queue.size: the waiting entries and the one being processed.
Size(q) == Len(q.items) + (IF q.processing = None THEN 0 ELSE 1)

Busy(q) == q.processing # None

\* The push of enqueue: the consumer is poked unless a timer drives it.
Push(q, c) == [q EXCEPT !.items = Append(@, c),
                        !.ticks = IF q.interval THEN @ ELSE @ + 1]

\* consume() on a queue that is not busy: shift the next entry into the
\* critical section; with nothing to shift, re-arm the timer if there is one.
TakeNewest(q) ==
  IF q.items = <<>>
  THEN [q EXCEPT !.ticks = IF q.interval THEN @ + 1 ELSE @]
  ELSE [q EXCEPT !.processing = q.items[Len(q.items)],
                 !.items = SubSeq(@, 1, Len(@) - 1)]
Take(q) ==
  IF q.items = <<>>
  THEN [q EXCEPT !.ticks = IF q.interval THEN @ + 1 ELSE @]
  ELSE [q EXCEPT !.processing = Head(q.items), !.items = Tail(@)]

\* A scheduled consume() runs: it returns at once when the queue is busy.
ConsumeUnguarded(q) == Take([q EXCEPT !.ticks = @ - 1])
Consume(q) ==
  LET p == [q EXCEPT !.ticks = @ - 1] IN IF Busy(q) THEN p ELSE Take(p)

\* The entry being processed is done.  A queue without interval consumes the
\* next one in the same turn, the other arms its timer.
ReleaseNoConsume(q) == [q EXCEPT !.processing = None]
Release(q) ==
  LET p == [q EXCEPT !.processing = None]
  IN  IF q.interval THEN [p EXCEPT !.ticks = @ + 1] ELSE Take(p)

\* A consumer that leaves the queue in state p found nothing to do, which is
\* when it fires the onceFree promises.
DrainedAlways(p) == TRUE
Drained(p) == p.items = <<>> /\ ~Busy(p)
=============================================================================
