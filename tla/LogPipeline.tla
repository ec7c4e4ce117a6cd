---------------------------- MODULE LogPipeline ----------------------------
(***************************************************************************)
(* The message log of src/bot/handlers.py: _log_message puts a record into *)
(* a bounded queue, one worker writes the queue in batches, a full queue   *)
(* falls back to an insert of the caller's own, and stop_log_worker ends   *)
(* the worker with a marker in the queue or, when the worker is stuck in   *)
(* a write, by cancelling it.                                              *)
(***************************************************************************)
EXTENDS Integers, Sequences, FiniteSets, SequencesExt, SortedSeqs

CONSTANTS
    Record,      \* log records, each handed to _log_message once
    LogStop,     \* _LOG_STOP
    QueueSize,   \* _LOG_QUEUE_MAXSIZE
    BatchSize    \* _LOG_BATCH_SIZE

\* handlers.py 86-87: the floor of both is at least 1.
ASSUME LogAssumption == /\ LogStop \notin Record
                        /\ QueueSize \in Nat \ {0}
                        /\ BatchSize \in Nat \ {0}

VARIABLES
    open,         \* _log_queue and _log_worker_task are set
    queue,        \* the items of the asyncio.Queue
    unfinished,   \* its count of items without task_done
    batch,        \* the worker's batch
    worker,       \* where _log_worker is suspended
    stopper,      \* where stop_log_worker is suspended
    caller,       \* where _log_message is, for each record
    rows,         \* the rows of message_logs, in order of insertion
    dropTotal,    \* _log_drop_count
    failureTotal, \* _log_write_failure_count
    fallbackTotal,\* _log_sync_fallback_count
    enqueued,     \* history: the records in the order of put_nowait
    lost          \* history: records that vanished with a cancelled task

counters == <<dropTotal, failureTotal, fallbackTotal>>
queueVars == <<queue, unfinished, batch>>
vars == <<open, queueVars, worker, stopper, caller, rows, counters, enqueued, lost>>

\* The worker awaits the commit of its batch: a batch of its loop, the batch
\* it held when it met the marker, and what was left behind the marker.
Flushing == {"flushing", "stopFlushing", "lastFlushing"}
Worker == {"off", "waiting", "done"} \cup Flushing
Stopper == {"idle", "putting", "joining", "forcing", "aborting", "stopped", "aborted"}
Caller == {"new", "inserting", "done"}

RecordsIn(s) == Kept(s, {i \in DOMAIN s : s[i] # LogStop})

Init ==
    /\ open = FALSE
    /\ queue = <<>>
    /\ unfinished = 0
    /\ batch = <<>>
    /\ worker = "off"
    /\ stopper = "idle"
    /\ caller = [r \in Record |-> "new"]
    /\ rows = <<>>
    /\ dropTotal = 0
    /\ failureTotal = 0
    /\ fallbackTotal = 0
    /\ enqueued = <<>>
    /\ lost = {}

-----------------------------------------------------------------------------
(* start_log_worker and _log_message                                       *)

\* main starts the worker once; a running worker is left alone.
StartWorker ==
    /\ worker = "off"
    /\ stopper = "idle"
    /\ open' = TRUE
    /\ worker' = "waiting"
    /\ UNCHANGED <<queueVars, stopper, caller, rows, counters, enqueued, lost>>

\* asyncio.Queue.put_nowait of an item
Put(item) ==
    /\ queue' = Append(queue, item)
    /\ unfinished' = unfinished + 1

Enqueue(r) ==
    /\ caller[r] = "new"
    /\ open /\ Len(queue) < QueueSize
    /\ Put(r)
    /\ caller' = [caller EXCEPT ![r] = "done"]
    /\ enqueued' = Append(enqueued, r)
    /\ UNCHANGED <<open, batch, worker, stopper, rows, counters, lost>>

\* No worker, or QueueFull: the caller inserts the row itself.
FallBack(r) ==
    /\ caller[r] = "new"
    /\ ~open \/ Len(queue) >= QueueSize
    /\ caller' = [caller EXCEPT ![r] = "inserting"]
    /\ fallbackTotal' = IF open THEN fallbackTotal + 1 ELSE fallbackTotal
    /\ UNCHANGED <<open, queueVars, worker, stopper, rows, dropTotal,
                   failureTotal, enqueued, lost>>

\* A write of n records that raises drops them and is counted.
CountFailure(n) ==
    /\ dropTotal' = dropTotal + n
    /\ failureTotal' = failureTotal + n
    /\ UNCHANGED fallbackTotal

InsertReturns(r) ==
    /\ caller[r] = "inserting"
    /\ caller' = [caller EXCEPT ![r] = "done"]
    /\ \/ rows' = Append(rows, r) /\ UNCHANGED counters
       \/ CountFailure(1) /\ UNCHANGED rows
    /\ UNCHANGED <<open, queueVars, worker, stopper, enqueued, lost>>

\* The reply task of the record is cancelled in its insert, before or after
\* the commit took place in the database's thread.
InsertCancelled(r) ==
    /\ caller[r] = "inserting"
    /\ caller' = [caller EXCEPT ![r] = "done"]
    /\ \/ rows' = Append(rows, r) /\ UNCHANGED lost
       \/ lost' = lost \cup {r} /\ UNCHANGED rows
    /\ UNCHANGED <<open, queueVars, worker, stopper, counters, enqueued>>

-----------------------------------------------------------------------------
(* _log_worker and _flush_log_batch                                        *)

\* Variant: the marker is taken without task_done.
TakeLeavingMarkerOpen ==
    /\ worker = "waiting"
    /\ queue # <<>>
    /\ queue' = Tail(queue)
    /\ IF Head(queue) = LogStop
       THEN /\ worker' = IF batch = <<>> THEN "done" ELSE "stopFlushing"
            /\ UNCHANGED <<unfinished, batch>>
       ELSE /\ batch' = Append(batch, Head(queue))
            /\ worker' = IF Len(batch') >= BatchSize THEN "flushing" ELSE "waiting"
            /\ UNCHANGED unfinished
    /\ UNCHANGED <<open, stopper, caller, rows, counters, enqueued, lost>>

\* After the marker, what is left of the queue becomes the last batch.
DrainRest(rest, done) ==
    /\ batch' = RecordsIn(rest)
    /\ queue' = <<>>
    /\ unfinished' = unfinished - done - (Len(rest) - Len(batch'))
    /\ worker' = IF batch' = <<>> THEN "done" ELSE "lastFlushing"

\* queue.get returns the next item; an empty batch is flushed at once.
Take ==
    /\ worker = "waiting"
    /\ queue # <<>>
    /\ \/ /\ Head(queue) # LogStop
          /\ queue' = Tail(queue)
          /\ batch' = Append(batch, Head(queue))
          /\ worker' = IF Len(batch') >= BatchSize THEN "flushing" ELSE "waiting"
          /\ UNCHANGED unfinished
       \/ /\ Head(queue) = LogStop
          /\ IF batch = <<>> THEN DrainRest(Tail(queue), 1)
             ELSE /\ queue' = Tail(queue)
                  /\ unfinished' = unfinished - 1
                  /\ worker' = "stopFlushing"
                  /\ UNCHANGED batch
    /\ UNCHANGED <<open, stopper, caller, rows, counters, enqueued, lost>>

\* Variant: a partial batch waits for BatchSize records or the stop.
NoInterval == FALSE /\ UNCHANGED vars

\* _LOG_BATCH_INTERVAL passes without an item.
IntervalPasses ==
    /\ worker = "waiting"
    /\ queue = <<>>
    /\ batch # <<>>
    /\ worker' = "flushing"
    /\ UNCHANGED <<open, queueVars, stopper, caller, rows, counters, enqueued, lost>>

\* The finally block of a flush: task_done for the batch, which is cleared;
\* then the worker goes on where it was.
FlushEnds ==
    IF worker = "stopFlushing" THEN DrainRest(queue, Len(batch))
    ELSE /\ unfinished' = unfinished - Len(batch)
         /\ batch' = <<>>
         /\ worker' = IF worker = "flushing" THEN "waiting" ELSE "done"
         /\ UNCHANGED queue

\* Variant: a batch whose write failed goes back to the queue.
FlushReturnsRetrying ==
    /\ worker \in Flushing
    /\ stopper \notin {"forcing", "aborting"}
    /\ \/ FlushEnds /\ rows' = rows \o batch
       \/ /\ queue' = queue \o batch
          /\ batch' = <<>>
          /\ worker' = "waiting"
          /\ UNCHANGED <<unfinished, rows>>
    /\ UNCHANGED <<open, stopper, caller, counters, enqueued, lost>>

\* Variant: the batch of a failed write is kept for the next one.
FlushReturnsKeepingBatch ==
    /\ worker \in Flushing
    /\ stopper \notin {"forcing", "aborting"}
    /\ \/ FlushEnds /\ rows' = rows \o batch /\ UNCHANGED counters
       \/ /\ CountFailure(Len(batch))
          /\ unfinished' = unfinished - Len(batch)
          /\ worker' = IF worker = "flushing" THEN "waiting" ELSE "done"
          /\ UNCHANGED <<queue, batch, rows>>
    /\ UNCHANGED <<open, stopper, caller, enqueued, lost>>

\* The commit returns or raises while nobody has cancelled the worker.
FlushReturns ==
    /\ worker \in Flushing
    /\ stopper \notin {"forcing", "aborting"}
    /\ \/ rows' = rows \o batch /\ UNCHANGED counters
       \/ CountFailure(Len(batch)) /\ UNCHANGED rows
    /\ FlushEnds
    /\ UNCHANGED <<open, stopper, caller, enqueued, lost>>

\* The worker was cancelled in the write.  CancelledError leaves the session's
\* block only when rollback and close, on the connection that the write
\* holds, have answered; until then the worker, and the stop that awaits it,
\* stay where they are.  That these two raise nothing themselves is assumed of
\* the library.  Then the finally block runs, but no counter moves; the
\* commit may have taken place.
FlushCancelled ==
    /\ worker \in Flushing
    /\ stopper \in {"forcing", "aborting"}
    /\ worker' = "done"
    /\ batch' = <<>>
    /\ unfinished' = unfinished - Len(batch)
    /\ \/ rows' = rows \o batch /\ UNCHANGED lost
       \/ lost' = lost \cup ToSet(batch) /\ UNCHANGED rows
    /\ UNCHANGED <<open, queue, stopper, caller, counters, enqueued>>

-----------------------------------------------------------------------------
(* stop_log_worker                                                         *)

\* Variant: the marker is put before _log_queue is set to None.
BeginStopStayingOpen ==
    /\ open /\ stopper = "idle"
    /\ IF Len(queue) < QueueSize THEN Put(LogStop) /\ stopper' = "joining"
       ELSE stopper' = "putting" /\ UNCHANGED <<queue, unfinished>>
    /\ UNCHANGED <<open, batch, worker, caller, rows, counters, enqueued, lost>>

\* From here on new records are inserted by their callers.
BeginStop ==
    /\ open /\ stopper = "idle"
    /\ open' = FALSE
    /\ \/ /\ Len(queue) < QueueSize
          /\ Put(LogStop)
          /\ stopper' = "joining"
       \/ /\ Len(queue) >= QueueSize
          /\ stopper' = "putting"
          /\ UNCHANGED <<queue, unfinished>>
    /\ UNCHANGED <<batch, worker, caller, rows, counters, enqueued, lost>>

PutSucceeds ==
    /\ stopper = "putting"
    /\ Len(queue) < QueueSize
    /\ Put(LogStop)
    /\ stopper' = "joining"
    /\ UNCHANGED <<open, batch, worker, caller, rows, counters, enqueued, lost>>

\* Variant: the put of the marker has no timeout.
NoPutTimeout == FALSE /\ UNCHANGED vars

\* Two seconds pass and the queue is still full, for the worker sits in a
\* write: the worker is cancelled.
PutTimesOut ==
    /\ stopper = "putting"
    /\ Len(queue) >= QueueSize
    /\ worker \in Flushing
    /\ stopper' = "forcing"
    /\ UNCHANGED <<open, queueVars, worker, caller, rows, counters, enqueued, lost>>

\* Variant: the drained items are counted with the marker.
ForceReturnsCountingTwice ==
    /\ stopper = "forcing"
    /\ worker = "done"
    /\ dropTotal' = dropTotal + Len(queue) + 1
    /\ unfinished' = unfinished - Len(queue)
    /\ queue' = <<>>
    /\ stopper' = "stopped"
    /\ UNCHANGED <<open, batch, worker, caller, rows, failureTotal,
                   fallbackTotal, enqueued, lost>>

\* _drain_log_queue: what is left in the queue is dropped and counted.
ForceReturns ==
    /\ stopper = "forcing"
    /\ worker = "done"
    /\ dropTotal' = dropTotal + Len(RecordsIn(queue))
    /\ unfinished' = unfinished - Len(queue)
    /\ queue' = <<>>
    /\ stopper' = "stopped"
    /\ UNCHANGED <<open, batch, worker, caller, rows, failureTotal,
                   fallbackTotal, enqueued, lost>>

JoinReturns ==
    /\ stopper = "joining"
    /\ worker = "done"
    /\ stopper' = "stopped"
    /\ UNCHANGED <<open, queueVars, worker, caller, rows, counters, enqueued, lost>>

\* Five seconds pass with the worker in a write: wait_for cancels it.
JoinTimesOut ==
    /\ stopper = "joining"
    /\ worker \in Flushing
    /\ stopper' = "aborting"
    /\ UNCHANGED <<open, queueVars, worker, caller, rows, counters, enqueued, lost>>

\* The queue is abandoned with whatever is still in it: nothing is drained,
\* counted or done.
AbortReturns ==
    /\ stopper = "aborting"
    /\ worker = "done"
    /\ stopper' = "aborted"
    /\ UNCHANGED <<open, queueVars, worker, caller, rows, counters, enqueued, lost>>

Log(r) == Enqueue(r) \/ FallBack(r) \/ InsertReturns(r) \/ InsertCancelled(r)
WorkerStep == Take \/ IntervalPasses
StopperStep ==
    \/ PutSucceeds \/ PutTimesOut \/ ForceReturns
    \/ JoinReturns \/ JoinTimesOut \/ AbortReturns

Next ==
    \/ StartWorker
    \/ \E r \in Record : Log(r)
    \/ WorkerStep \/ FlushReturns \/ FlushCancelled
    \/ BeginStop \/ StopperStep

Spec == Init /\ [][Next]_vars

\* The event loop runs the worker and the stopper, and their timers fire;
\* nothing is assumed of the database.
FairSpec == Spec /\ WF_vars(WorkerStep) /\ WF_vars(StopperStep)

-----------------------------------------------------------------------------
(* Properties                                                              *)

TypeOK ==
    /\ open \in BOOLEAN
    /\ queue \in Seq(Record \cup {LogStop})
    /\ unfinished \in Nat
    /\ batch \in Seq(Record)
    /\ worker \in Worker
    /\ stopper \in Stopper
    /\ caller \in [Record -> Caller]
    /\ rows \in Seq(Record)
    /\ dropTotal \in Nat
    /\ failureTotal \in Nat
    /\ fallbackTotal \in Nat
    /\ enqueued \in Seq(Record)
    /\ lost \subseteq Record

Inserting == {r \in Record : caller[r] = "inserting"}
Handed == {r \in Record : caller[r] # "new"}

\* Conservation: every record handed to _log_message is in the queue (which a
\* stop that timed out abandons), in the batch, with its caller, in the
\* table, counted in _log_drop_count or lost with a cancelled task, and in
\* one of these places only.
RecordsAccounted ==
    Cardinality(Handed) =
        Len(RecordsIn(queue)) + Len(batch) + Cardinality(Inserting)
            + Len(rows) + dropTotal + Cardinality(lost)

\* queue.join, which flush_log_queue awaits, returns exactly when nothing is
\* queued or held by the worker.
JoinExact == unfinished = Len(queue) + Len(batch)

\* The queued records reach the table in the order of their put, across
\* batches, failed writes and the flushes of the stop.
RowsInOrder ==
    \A i, j \in DOMAIN rows :
        i < j /\ {rows[i], rows[j]} \subseteq ToSet(enqueued) =>
            \E k, l \in DOMAIN enqueued :
                /\ k < l
                /\ enqueued[k] = rows[i]
                /\ enqueued[l] = rows[j]

\* A stop that began is over, or waits only for the write it has cancelled:
\* neither a full queue nor a worker that hangs in a commit holds it longer
\* than its own time limits.  stop_log_worker returns if that write leaves
\* its session, which the limits of 2 and 5 seconds do not cover.
StopReturns ==
    /\ stopper # "idle" ~> stopper \in {"forcing", "aborting", "stopped", "aborted"}
    /\ WF_vars(FlushCancelled) =>
           (stopper # "idle" ~> stopper \in {"stopped", "aborted"})

\* With a database that answers, every queued record leaves memory: the
\* interval, the batch size or the stop flushes it, unless the stop timed
\* out.
RecordsFlushed ==
    WF_vars(FlushReturns) /\ WF_vars(FlushCancelled) =>
        \A r \in Record :
            r \in ToSet(queue) ~> r \notin ToSet(queue \o batch) \/ stopper = "aborted"

=============================================================================
