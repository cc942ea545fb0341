------------------------------ MODULE QueuePool ------------------------------
(***************************************************************************)
(* The pool of queues of src/src/util/QueuePool.ts, behind which the       *)
(* bridge reconnects IRC clients and reads room members: N queues serve    *)
(* entries side by side and an overflow queue hands over what found all of *)
(* them busy.                                                              *)
(*                                                                         *)
(* Whether that is FIFO depends on WHEN a caller may come, so the event    *)
(* loop is part of the model.  The queues run on Bluebird promises, whose  *)
(* callbacks are drained together: a "turn" is ordinary code (an event     *)
(* handler, a continuation of an async function), "flush" runs the         *)
(* nextTick callbacks it left, and a "drain" runs promise callbacks until  *)
(* none is left.  TurnCalls come from ordinary code; the other calls come  *)
(* from a callback attached to a promise of the pool, inside the drain.    *)
(***************************************************************************)
EXTENDS QueueOps, FiniteSets, SequencesExt

CONSTANTS N,          \* the pool's size
          TurnCalls,  \* the calls made by ordinary code
          IndexOf     \* the queue a call names, 0 when it names none

ASSUME PoolAssumption ==
  /\ N \in Nat \ {0}
  /\ TurnCalls \subseteq Calls
  /\ IndexOf \in [Calls -> 0..N]

VARIABLES pool,      \* the N queues
          overflow,  \* the overflow queue
          stage,     \* how far onOverflow is with the entry it processes
          winner,    \* the queue whose onceFree won Promise.any, 0 before
          loop,      \* what the event loop is running
          answer,    \* the promise each call was given
          asked,     \* history: calls without an index, as they came
          placed     \* history: those calls, as a queue of the pool got them

queuesVars == <<pool, overflow, stage, winner, loop, answer, asked, placed>>
Queues == 1..N

QueuesInit ==
  /\ pool = [i \in Queues |-> NewQueue(FALSE)]
  /\ overflow = NewQueue(FALSE)
  /\ stage = "idle" /\ winner = 0
  /\ loop = "turn"
  /\ answer = [c \in Calls |-> "none"]
  /\ asked = <<>> /\ placed = <<>>
------------------------------------------------------------------------------
\* freeQueue: the first queue of size 0.
AnyFree == {i \in Queues : Size(pool[i]) = 0}
FirstFree == CHOOSE i \in AnyFree : \A j \in AnyFree : i <= j

Ticks == overflow.ticks > 0 \/ \E i \in Queues : pool[i].ticks > 0
ChainPending == stage \in {"handed", "starved"} \/ (stage = "waiting" /\ winner # 0)

\* An entry reaches the head of the overflow queue in state ovf: onOverflow
\* hands it to a free queue at once, or registers with onceFree of all queues.
StartOverflow(ovf) ==
  /\ overflow' = ovf
  /\ winner' = 0
  /\ IF ~Busy(ovf)
       THEN stage' = "idle" /\ UNCHANGED <<pool, placed>>
       ELSE IF AnyFree # {}
         THEN /\ stage' = "handed"
              /\ pool' = [pool EXCEPT ![FirstFree] = Push(@, ovf.processing)]
              /\ placed' = Append(placed, ovf.processing)
         ELSE stage' = "waiting" /\ UNCHANGED <<pool, placed>>

\* enqueue, by ordinary code or from within a promise callback.
MayCall(c) == IF c \in TurnCalls THEN loop = "turn" ELSE loop = "drain"

EnqueueAt(c) ==
  /\ answer[c] = "none" /\ MayCall(c) /\ IndexOf[c] # 0
  /\ pool' = [pool EXCEPT ![IndexOf[c]] = Push(@, c)]
  /\ answer' = [answer EXCEPT ![c] = "pending"]
  /\ UNCHANGED <<overflow, stage, winner, loop, asked, placed>>

Enqueue(c) ==
  /\ answer[c] = "none" /\ MayCall(c) /\ IndexOf[c] = 0
  /\ answer' = [answer EXCEPT ![c] = "pending"]
  /\ asked' = Append(asked, c)
  /\ IF AnyFree # {}
       THEN /\ pool' = [pool EXCEPT ![FirstFree] = Push(@, c)]
            /\ placed' = Append(placed, c)
            /\ UNCHANGED overflow
       ELSE overflow' = Push(overflow, c) /\ UNCHANGED <<pool, placed>>
  /\ UNCHANGED <<stage, winner, loop>>

\* Promise.any keeps the first queue to fire.
Wins(i) == winner' = IF stage = "waiting" /\ winner = 0 /\ Drained(pool'[i]) THEN i ELSE winner

\* The nextTick callbacks a turn or a drain left behind.
AfterTick == IF Ticks' THEN "flush" ELSE "turn"

PoolTick(i) ==
  /\ loop # "drain" /\ pool[i].ticks > 0
  /\ pool' = [pool EXCEPT ![i] = Consume(@)]
  /\ Wins(i)
  /\ UNCHANGED <<overflow, stage, answer, asked, placed>>
  /\ loop' = AfterTick

OverflowTick ==
  /\ loop # "drain" /\ overflow.ticks > 0
  /\ IF Busy(overflow)
       THEN overflow' = Consume(overflow) /\ UNCHANGED <<pool, stage, winner, placed>>
       ELSE StartOverflow(Consume(overflow))
  /\ UNCHANGED <<answer, asked>>
  /\ loop' = AfterTick

\* Promise callbacks run once the ticks of the turn have.
CanDrain == loop = "drain" \/ (loop = "turn" /\ ~Ticks)

\* The processing function of the entry in queue i settles.
Settles(i) ==
  /\ CanDrain /\ Busy(pool[i])
  /\ \E result \in {"resolved", "rejected"} :
       answer' = [answer EXCEPT ![pool[i].processing] = result]
  /\ pool' = [pool EXCEPT ![i] = Release(@)]
  /\ Wins(i)
  /\ loop' = "drain"
  /\ UNCHANGED <<overflow, stage, asked, placed>>

\* The winning queue is looked at again when the callback runs: if it is not
\* free any more the entry fails with the starvation error.
StillFree(i) == Size(pool[i]) = 0
OverflowResumes ==
  /\ CanDrain /\ stage = "waiting" /\ winner # 0
  /\ winner' = 0
  /\ loop' = "drain"
  /\ IF StillFree(winner)
       THEN /\ stage' = "handed"
            /\ pool' = [pool EXCEPT ![winner] = Push(@, overflow.processing)]
            /\ placed' = Append(placed, overflow.processing)
       ELSE stage' = "starved" /\ UNCHANGED <<pool, placed>>
  /\ UNCHANGED <<overflow, answer, asked>>

\* onOverflow's promise settles and the overflow queue takes the next entry.
OverflowDone ==
  /\ CanDrain /\ stage \in {"handed", "starved"}
  /\ answer' = IF stage = "starved"
                THEN [answer EXCEPT ![overflow.processing] = "starved"] ELSE answer
  /\ StartOverflow(Release(overflow))
  /\ loop' = "drain"
  /\ UNCHANGED asked

\* The drain ends when no promise callback is left.
DrainEnds ==
  /\ loop = "drain" /\ ~ChainPending
  /\ loop' = IF Ticks THEN "flush" ELSE "turn"
  /\ UNCHANGED <<pool, overflow, stage, winner, answer, asked, placed>>

System ==
  \/ \E i \in Queues : PoolTick(i)
  \/ OverflowTick \/ OverflowResumes \/ OverflowDone \/ DrainEnds

QueuesNext == (\E c \in Calls : EnqueueAt(c) \/ Enqueue(c)) \/ System \/ (\E i \in Queues : Settles(i))

\* The event loop goes on; the processing function settles in the end.
QueuesSpec ==
  QueuesInit /\ [][QueuesNext]_queuesVars
    /\ WF_queuesVars(System) /\ \A i \in Queues : WF_queuesVars(Settles(i))
------------------------------------------------------------------------------
(***************************************************************************)
(* "The QueuePool always operates in a FIFO manner, even when all queues   *)
(* are occupied" (QueuePool.ts, lines 22-23): calls without an index get   *)
(* their queue in the order they were made.  It holds as long as calls are *)
(* made by ordinary code, and fails for a call made in the callback of the *)
(* entry that just left a queue: it takes the queue the overflow waits for.*)
(***************************************************************************)
FifoPlacement == IsPrefix(placed, asked)

(***************************************************************************)
(* The error thrown at line 105, "QueuePool overflow: starvation", is for  *)
(* a case the pool's author holds impossible: the queue whose onceFree     *)
(* fired is free when the overflow entry is given to it.                   *)
(***************************************************************************)
NoStarvation == stage # "starved" /\ \A c \in Calls : answer[c] # "starved"

\* Every call's promise settles.
PoolCallsSettle == \A c \in Calls : answer[c] = "pending" ~> answer[c] \notin {"none", "pending"}

\* For calls from ordinary code that name no queue, the pool is a line with N
\* servers, whatever the calls that do name one occupy; who waits is in the
\* overflow queue, the one onOverflow works on first.
Waiting == (IF stage = "waiting" THEN <<overflow.processing>> ELSE <<>>) \o overflow.items
Done == {c \in Range(asked) : answer[c] \in {"resolved", "rejected"}}
PoolLine == INSTANCE ServiceLine WITH Servers <- N, line <- Waiting,
          serving <- Range(placed) \ Done, served <- Done
PoolIsServiceLine == PoolLine!LineSpec
=============================================================================
