------------------------------ MODULE UsageLog ------------------------------
(***************************************************************************)
(* The usage-log buffer of src/analytics/usage-log.service.ts: entries are *)
(* pushed on an in-memory queue by the `finish` handler of every proxied   *)
(* request and written to MongoDB in batches, by a repeating timer or as   *)
(* soon as a batch is full.  insertMany is awaited, so entries arrive and  *)
(* the timer fires while a batch is in flight.                             *)
(*                                                                         *)
(* An entry is named by its arrival number.  USAGE_LOG_BATCH_SIZE, any     *)
(* positive number B, appears as the two integers the code derives from    *)
(* it: queue.length >= B holds from FlushAt = ceil(B) entries on, and      *)
(* splice(0, B) removes at most BatchLimit = floor(B) of them.             *)
(***************************************************************************)
EXTENDS Integers, Sequences

CONSTANTS
    FlushAt,      \* queue length from which an enqueue flushes at once
    BatchLimit,   \* most entries one flush takes
    MaxEntries,   \* bound: entries enqueued in one behaviour
    MaxFailures   \* bound: insertMany calls that fail in one behaviour

ASSUME UsageLogAssumption ==
    /\ FlushAt \in Nat \ {0}
    /\ BatchLimit \in {FlushAt, FlushAt - 1}
    /\ MaxEntries \in Nat
    /\ MaxFailures \in Nat

VARIABLES
    queue,        \* `queue`: entries waiting, oldest first
    batch,        \* `batch` of the flush in flight, <<>> if there is none
    flushing,     \* `flushing`
    flushTimer,   \* `flushTimer` is set: the interval is armed
    sent,         \* entries enqueued so far
    stored,       \* copies of each entry in the collection usage_logs
    failures      \* insertMany calls that failed so far

vars == <<queue, batch, flushing, flushTimer, sent, stored, failures>>

Entries == 1..MaxEntries

(* Everything enqueued and not known to be stored, oldest first.           *)
Pending == batch \o queue

(* The length of the prefix of entries whose insertion was acknowledged.   *)
Durable == sent - Len(batch) - Len(queue)

Init ==
    /\ queue = <<>>
    /\ batch = <<>>
    /\ flushing = FALSE
    /\ flushTimer = FALSE
    /\ sent = 0
    /\ stored = [e \in Entries |-> 0]
    /\ failures = 0

-----------------------------------------------------------------------------
(* Mutants: plausible bugs, each of which breaks one of the properties     *)
(* below (PROJECT.json pairs them).  A flush that ignores `flushing`; an   *)
(* end of flush that forgets to reset it, or that always cancels the       *)
(* interval; a re-queue at the wrong end; entries stored twice.            *)
Smaller(a, b) == IF a < b THEN a ELSE b

FaultyFlushQueue(q) ==
    LET n == Smaller(BatchLimit, Len(q)) IN
    /\ batch' = SubSeq(q, 1, n)
    /\ queue' = SubSeq(q, n + 1, Len(q))
    /\ flushing' = (n > 0)

StuckEndFlush(q) ==
    /\ queue' = q
    /\ batch' = <<>>
    /\ flushTimer' = (flushTimer /\ q # <<>>)
    /\ UNCHANGED flushing

TimerlessEndFlush(q) ==
    /\ queue' = q
    /\ batch' = <<>>
    /\ flushing' = FALSE
    /\ flushTimer' = FALSE

MisplacedRequeue == queue \o batch

DoubleStore(written) ==
    [e \in Entries |-> IF e \in written THEN stored[e] + 2 ELSE stored[e]]
-----------------------------------------------------------------------------
(* flushQueue up to its await, called with `q` on the queue: nothing to do *)
(* if a flush is in flight or the queue is empty, otherwise the oldest     *)
(* entries become the batch in flight.                                     *)
FlushQueue(q) ==
    \/ /\ flushing \/ q = <<>>
       /\ queue' = q
       /\ UNCHANGED <<batch, flushing>>
    \/ /\ ~flushing /\ q # <<>>
       /\ LET n == Smaller(BatchLimit, Len(q)) IN
          /\ batch' = SubSeq(q, 1, n)
          /\ queue' = SubSeq(q, n + 1, Len(q))
          /\ flushing' = (n > 0)

(* enqueueUsageLog: a full queue is flushed at once and arms no timer;     *)
(* otherwise the interval is armed if it is not yet.                       *)
Enqueue ==
    /\ sent < MaxEntries
    /\ sent' = sent + 1
    /\ LET q == Append(queue, sent + 1) IN
       \/ /\ Len(q) >= FlushAt
          /\ FlushQueue(q)
          /\ UNCHANGED flushTimer
       \/ /\ Len(q) < FlushAt
          /\ queue' = q
          /\ flushTimer' = TRUE
          /\ UNCHANGED <<batch, flushing>>
    /\ UNCHANGED <<stored, failures>>

(* The interval of enqueueFlush fires.                                     *)
Tick ==
    /\ flushTimer
    /\ FlushQueue(queue)
    /\ UNCHANGED <<flushTimer, sent, stored, failures>>

(* usage_logs after the entries `written` were inserted once more: every   *)
(* insertMany builds documents with an _id of their own, so nothing in the *)
(* collection stops a second copy.                                         *)
Store(written) ==
    [e \in Entries |-> IF e \in written THEN stored[e] + 1 ELSE stored[e]]

(* The finally block, `q` being the queue it finds: the interval is        *)
(* cancelled when nothing is left to flush.                                *)
EndFlush(q) ==
    /\ queue' = q
    /\ batch' = <<>>
    /\ flushing' = FALSE
    /\ flushTimer' = (flushTimer /\ q # <<>>)

(* The catch block: the batch goes back in front of the queue.             *)
Requeue == batch \o queue

InFlight == {batch[i] : i \in 1..Len(batch)}

(* insertMany resolves: all of the batch is in the collection.             *)
InsertSucceeds ==
    /\ flushing
    /\ stored' = Store(InFlight)
    /\ EndFlush(queue)
    /\ UNCHANGED <<sent, failures>>

(* insertMany rejects.  With ordered: false any part of the batch may have *)
(* been inserted, all of it when only the acknowledgement was lost; the    *)
(* code re-queues the whole batch.                                         *)
InsertFails ==
    /\ flushing
    /\ failures < MaxFailures
    /\ failures' = failures + 1
    /\ \E written \in SUBSET InFlight : stored' = Store(written)
    /\ EndFlush(Requeue)
    /\ UNCHANGED sent

InsertSettles == InsertSucceeds \/ InsertFails

Next ==
    \/ Enqueue
    \/ Tick
    \/ InsertSettles

Spec == Init /\ [][Next]_vars

(* The interval keeps firing while it is armed, and every insertMany       *)
(* settles.  Requests are never obliged to arrive.                         *)
FairSpec == Spec /\ WF_vars(Tick) /\ WF_vars(InsertSettles)
-----------------------------------------------------------------------------
(* Type invariant; a batch exists exactly while `flushing` is set.         *)
TypeOK ==
    /\ queue \in Seq(Entries)
    /\ batch \in Seq(Entries)
    /\ flushing \in BOOLEAN
    /\ flushTimer \in BOOLEAN
    /\ sent \in 0..MaxEntries
    /\ stored \in [Entries -> Nat]
    /\ failures \in 0..MaxFailures
    /\ flushing <=> batch # <<>>

(* What waits or is in flight is the latest stretch of arrivals, each once *)
(* and in arrival order, however flushes fail and entries arrive meanwhile *)
(* (the unshift of the failure path against the push of enqueueUsageLog).  *)
PendingInOrder ==
    \A i \in 1..Len(Pending) : Pending[i] = Durable + i

(* No entry is lost by the buffer: whatever is no longer pending has been  *)
(* inserted at least once.                                                 *)
NothingLost == \A e \in 1..Durable : stored[e] >= 1

(* Duplicates in usage_logs come from failed flushes only: at most one     *)
(* copy per failure beyond the acknowledged one, and none beyond the       *)
(* failures for an entry that is still pending.                            *)
CopiesBounded ==
    \A e \in Entries :
        stored[e] <= failures + (IF e \in 1..Durable THEN 1 ELSE 0)

(* With batches of two and more, whatever waits or is in flight has the    *)
(* interval armed behind it, so it cannot be forgotten: the enqueue that   *)
(* flushes at once arms no timer and relies on an earlier one having done  *)
(* so.                                                                     *)
TimerArmed == FlushAt > 1 /\ Pending # <<>> => flushTimer

(* "persisted in usage_logs" (README.md): every entry is stored some day.  *)
EventuallyStored ==
    \A e \in Entries : sent >= e ~> stored[e] >= 1

(* The buffer implements the growing durable prefix of DurablePrefix, the  *)
(* prefix being what is neither queued nor in flight.                      *)
Abstract == INSTANCE DurablePrefix WITH accepted <- sent, durable <- Durable

ImplementsDurablePrefix == Abstract!Spec
=============================================================================
