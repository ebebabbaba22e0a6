---------------------------- MODULE WriteBehind ----------------------------
(***************************************************************************)
(* A write-behind writer of the database manager and the retention prune   *)
(* beside it: rows are queued without waiting, a drain loop hands them in  *)
(* batches to a sink in a thread, and stop must leave nothing behind while *)
(* a batch may be in its thread.  The thread of a write commits first; the *)
(* writer's counters follow when its task comes to run again.              *)
(***************************************************************************)
EXTENDS Naturals, Sequences, FiniteSets

CONSTANTS
    Row,        \* order books or news items
    QueueMax,   \* queue_maxsize, at least 1
    BatchSize,  \* batch_size, at least 1
    PruneBatch  \* PRUNE_BATCH_ROWS, at least 1

VARIABLES
    hooked,    \* the persist hooks are installed
    offered,   \* rows handed to enqueue so far
    queue,     \* _queue
    loop,      \* _task, the drain loop
    writes,    \* tasks of _write: the batch, and whether its thread is through
    tracked,   \* the batch of _inflight
    stop,      \* how far stop has come
    timedOut,  \* history: the drain of stop gave up on the batch in flight
    db,        \* rows in the table
    past,      \* rows of the table that are past the retention window
    pruned,    \* rows retention has deleted
    sweep,     \* the prune's thread is at work
    written, errors, dropped,  \* the writer's counters
    lost       \* history: rows of failed batches and of a full queue

vars == <<hooked, offered, queue, loop, writes, tracked, stop, timedOut, db,
          past, pruned, sweep, written, errors, dropped, lost>>
counters == <<written, errors>>
table == <<db, past, pruned, sweep>>

---------------------------------------------------------------------------
Outcome == {"running", "committed", "failed"}
Write == [batch: SUBSET Row, thread: Outcome]

Elements(s) == {s[n] : n \in DOMAIN s}

TypeOK ==
    /\ hooked \in BOOLEAN /\ timedOut \in BOOLEAN /\ sweep \in BOOLEAN
    /\ queue \in Seq(Row) /\ Len(queue) <= QueueMax
    /\ loop \in {"none", "get", "write"}
    /\ writes \subseteq Write
    /\ stop \in {"no", "drain", "flush", "flushing", "done"}
    /\ {offered, tracked, db, past, pruned, lost} \subseteq SUBSET Row
    /\ {written, errors, dropped} \subseteq Nat

Init ==
    /\ hooked = TRUE
    /\ offered = {}
    /\ queue = <<>>
    /\ loop = "none"
    /\ writes = {}
    /\ tracked = {}
    /\ stop = "no"
    /\ timedOut = FALSE
    /\ db = {} /\ past = {} /\ pruned = {}
    /\ sweep = FALSE
    /\ written = 0 /\ errors = 0 /\ dropped = 0
    /\ lost = {}

---------------------------------------------------------------------------
(* The writer                                                               *)

StartWriter ==
    /\ loop = "none" /\ stop = "no"
    /\ loop' = "get"
    /\ UNCHANGED <<hooked, offered, queue, writes, tracked, stop, timedOut,
                   table, counters, dropped, lost>>

\* enqueue: a full queue drops the row and counts it.
EnqueueRow(r) ==
    /\ hooked /\ r \notin offered
    /\ offered' = offered \cup {r}
    /\ IF Len(queue) < QueueMax
       THEN queue' = Append(queue, r) /\ UNCHANGED <<dropped, lost>>
       ELSE dropped' = dropped + 1 /\ lost' = lost \cup {r} /\ UNCHANGED queue
    /\ UNCHANGED <<hooked, loop, writes, tracked, stop, timedOut, table, counters>>

Least(m, n) == IF m < n THEN m ELSE n

\* _drain_loop: what the queue holds, up to a batch, goes to a task of its own.
TakeBatch ==
    /\ loop = "get" /\ queue # <<>>
    /\ LET n == Least(Len(queue), BatchSize)
           batch == Elements(SubSeq(queue, 1, n))
       IN  /\ queue' = SubSeq(queue, n + 1, Len(queue))
           /\ writes' = writes \cup {[batch |-> batch, thread |-> "running"]}
           /\ tracked' = batch
    /\ loop' = "write"
    /\ UNCHANGED <<hooked, offered, stop, timedOut, table, counters, dropped, lost>>

\* The sink commits the batch in its thread, or raises.
SinkEnds(w) ==
    /\ w \in writes /\ w.thread = "running"
    /\ \/ /\ db' = db \cup w.batch
          /\ writes' = (writes \ {w}) \cup {[w EXCEPT !.thread = "committed"]}
          /\ UNCHANGED lost
       \/ /\ lost' = lost \cup w.batch
          /\ writes' = (writes \ {w}) \cup {[w EXCEPT !.thread = "failed"]}
          /\ UNCHANGED db
    /\ UNCHANGED <<hooked, offered, queue, loop, tracked, stop, timedOut, past,
                   pruned, sweep, counters, dropped>>

\* _write comes back from its thread: the counters, and the loop or stop goes on.
WriteEnds(w) ==
    /\ w \in writes /\ w.thread # "running"
    /\ writes' = writes \ {w}
    /\ IF w.thread = "committed"
       THEN written' = written + Cardinality(w.batch) /\ UNCHANGED errors
       ELSE errors' = errors + 1 /\ UNCHANGED written
    /\ tracked' = IF tracked = w.batch THEN {} ELSE tracked
    /\ loop' = IF tracked = w.batch /\ loop = "write" THEN "get" ELSE loop
    /\ stop' = IF stop = "drain" /\ tracked = w.batch THEN "flush"
               ELSE IF stop = "flushing" /\ tracked # w.batch THEN "done" ELSE stop
    /\ UNCHANGED <<hooked, offered, queue, timedOut, table, dropped, lost>>

---------------------------------------------------------------------------
(* Shutdown                                                                 *)

\* The lifespan clears the persist hooks ahead of database_manager.stop.
Unhook ==
    /\ hooked
    /\ hooked' = FALSE
    /\ UNCHANGED <<offered, queue, loop, writes, tracked, stop, timedOut, table,
                   counters, dropped, lost>>

\* Variant: the writer is stopped with the hooks still installed.
MayStopHooked == TRUE

MayStop == ~hooked

\* What stop waits for first.
Awaited(batch) == IF batch = {} THEN "flush" ELSE "drain"

\* stop cancels the loop - not the batch in flight, which is shielded.
StopWriter ==
    /\ stop = "no" /\ MayStop
    /\ loop' = "none"
    /\ stop' = Awaited(tracked)
    /\ UNCHANGED <<hooked, offered, queue, writes, tracked, timedOut, table,
                   counters, dropped, lost>>

\* _drain_inflight gives up after STOP_DRAIN_TIMEOUT_SECONDS.
DrainTimeout ==
    /\ stop = "drain"
    /\ stop' = "flush"
    /\ timedOut' = TRUE
    /\ UNCHANGED <<hooked, offered, queue, loop, writes, tracked, table,
                   counters, dropped, lost>>

\* _flush: all that is still queued, in one batch.
Flush ==
    /\ stop = "flush"
    /\ LET batch == Elements(queue)
       IN  /\ stop' = IF batch = {} THEN "done" ELSE "flushing"
           /\ writes' = IF batch = {} THEN writes
                        ELSE writes \cup {[batch |-> batch, thread |-> "running"]}
    /\ queue' = <<>>
    /\ UNCHANGED <<hooked, offered, loop, tracked, timedOut, table, counters,
                   dropped, lost>>

---------------------------------------------------------------------------
(* Retention                                                                *)

RowPasses(r) ==
    /\ r \in db \ past
    /\ past' = past \cup {r}
    /\ UNCHANGED <<hooked, offered, queue, loop, writes, tracked, stop, timedOut,
                   db, pruned, sweep, counters, dropped, lost>>

\* The prune loop is the first thing the manager's stop ends.
SweepStarts ==
    /\ ~sweep /\ stop = "no" /\ past # {}
    /\ sweep' = TRUE
    /\ UNCHANGED <<hooked, offered, queue, loop, writes, tracked, stop, timedOut,
                   db, past, pruned, counters, dropped, lost>>

\* One statement of the sweep, which a running stop ends after the next.
SweepDeletes ==
    /\ sweep
    /\ \E gone \in SUBSET past :
         /\ Cardinality(gone) = Least(Cardinality(past), PruneBatch)
         /\ db' = db \ gone
         /\ past' = past \ gone
         /\ pruned' = pruned \cup gone
         /\ sweep' = (Cardinality(gone) = PruneBatch /\ stop = "no")
    /\ UNCHANGED <<hooked, offered, queue, loop, writes, tracked, stop, timedOut,
                   counters, dropped, lost>>

Next ==
    \/ StartWriter \/ TakeBatch \/ Unhook \/ StopWriter \/ DrainTimeout \/ Flush
    \/ \E r \in Row : EnqueueRow(r) \/ RowPasses(r)
    \/ \E w \in writes : SinkEnds(w) \/ WriteEnds(w)
    \/ SweepStarts \/ SweepDeletes

Spec == Init /\ [][Next]_vars

---------------------------------------------------------------------------
(* Safety                                                                   *)

\* When stop has returned without giving up on a batch, every row that was
\* offered is in the table, or was counted as dropped or lost with a failed
\* batch, or retention deleted it; none waits, none is still being written,
\* and "written" is the number of rows that reached the table (stop).
StoppedIsComplete ==
    stop = "done" /\ ~timedOut =>
       /\ offered = db \cup pruned \cup lost
       /\ writes = {} /\ queue = <<>>
       /\ written = Cardinality(db \cup pruned)
=============================================================================
