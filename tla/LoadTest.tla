-------------------------------- MODULE LoadTest --------------------------------
(***************************************************************************)
(* The end-to-end load test in its optimized form                           *)
(* (scripts/perf_streaming_e2e.py): a producer sends synthetic events to a   *)
(* FIFO queue in batches while tasks receive, gather, store and delete them  *)
(* in batches of their own, and count what they have stored until it is all. *)
(*                                                                         *)
(* The tasks share one event loop, so that a step lies between two awaits;   *)
(* sending, receiving, storing and deleting run in threads.  A receipt is    *)
(* the event and the number of its delivery, and is valid until the message  *)
(* is deleted or its visibility timeout ends.  When the run is over, its     *)
(* queues are deleted.                                                       *)
(***************************************************************************)
EXTENDS Integers, FiniteSets

CONSTANTS
    Tasks,        \* worker_count * worker_concurrency consumers
    Total,        \* --messages
    Partition,    \* message_group_id of each event
    SendSize,     \* sqs_batch_size
    ReceiveSize,  \* sqs_max_messages
    StoreSize,    \* db_batch_size
    MaxReceive    \* maxReceiveCount of the redrive policy

Events == 1..Total
Queues == {"queue", "dlq"}

ASSUME LoadTestAssumption ==
    /\ {Total, SendSize, ReceiveSize, StoreSize, MaxReceive} \subseteq Nat \ {0}
    /\ DOMAIN Partition = Events

VARIABLES
    handed,     \* how many events the producer has handed to SQS
    published,  \* the events SQS has accepted
    queue,      \* those that are in the queue
    inflight,   \* those of them that somebody has received
    receives,   \* ApproximateReceiveCount
    dlq,        \* the events the redrive policy moved
    left,       \* those of the two queues that have not been deleted
    stored,     \* the events that PostgreSQL has as COMPLETED
    pc,         \* where each task is
    records,    \* the receipts a task has gathered
    final,      \* the tasks that have left their loop
    seen,       \* seen_event_ids
    count,      \* processed["count"]
    late,       \* the deadline has passed
    run         \* "running", "returned" or "failed"

sqs   == <<queue, inflight, receives, dlq, left>>
tally == <<seen, count>>
vars  == <<handed, published, sqs, stored, pc, records, final, tally, late, run>>

Stages == {"check", "receive", "look", "store", "delete", "count", "over", "failed"}

Init ==
    /\ handed = 0
    /\ published = {}
    /\ queue = {} /\ inflight = {} /\ dlq = {}
    /\ receives = [e \in Events |-> 0]
    /\ left = Queues
    /\ stored = {}
    /\ pc = [t \in Tasks |-> "check"]
    /\ records = [t \in Tasks |-> {}]
    /\ final = {}
    /\ seen = {} /\ count = 0
    /\ late = FALSE
    /\ run = "running"

-----------------------------------------------------------------------------
(* The producer.                                                           *)

\* What is sent next: a full batch, or what remains after the last event.
Chunk == {e \in Events : handed < e /\ e <= handed + SendSize}

Send(accepted) ==
    /\ published' = published \cup accepted
    /\ queue' = queue \cup accepted
    /\ UNCHANGED <<inflight, receives, dlq, left, stored, pc, records, final, tally, late>>

Publish ==
    /\ run = "running" /\ Chunk # {}
    /\ handed' = handed + Cardinality(Chunk)
    /\ Send(Chunk)
    /\ UNCHANGED run

\* SQS is not reached, or its answer lists messages that failed: the producer
\* raises and the consumers are cancelled.
PublishFails ==
    /\ run = "running" /\ Chunk # {}
    /\ \E accepted \in SUBSET Chunk : Send(accepted)
    /\ run' = "failed"
    /\ UNCHANGED handed

-----------------------------------------------------------------------------
(* The queue.                                                              *)

\* What one receive may return: a partition is closed while one of its messages
\* is in flight, and otherwise gives its messages in order.
Deliverable(batch) ==
    /\ batch \subseteq queue \ inflight
    /\ Cardinality(batch) <= ReceiveSize
    /\ \A e \in batch : receives[e] < MaxReceive
    /\ \A e \in batch, f \in queue : Partition[f] = Partition[e] =>
          f \notin inflight /\ (f < e => f \in batch)

Redrive(e) ==
    /\ e \in queue \ inflight /\ receives[e] = MaxReceive /\ "dlq" \in left
    /\ queue' = queue \ {e}
    /\ dlq' = dlq \cup {e}
    /\ UNCHANGED <<handed, published, inflight, receives, left, stored, pc, records, final,
                   tally, late, run>>

\* A visibility timeout ends while a task gathers, or a thread is slow.
Expire(e) ==
    /\ e \in inflight
    /\ inflight' = inflight \ {e}
    /\ UNCHANGED <<handed, published, queue, receives, dlq, left, stored, pc, records, final,
                   tally, late, run>>

-----------------------------------------------------------------------------
(* A consumer task.                                                        *)

EventsOf(batch) == {r[1] : r \in batch}

Goto(t, stage) == pc' = [pc EXCEPT ![t] = stage]

\* The head of the loop: after the deadline, or when all is counted, what the
\* task still holds is flushed.
Check(t) ==
    /\ run = "running" /\ pc[t] = "check"
    /\ IF late \/ count >= Total
          THEN final' = final \cup {t} /\ Goto(t, IF records[t] = {} THEN "over" ELSE "store")
          ELSE final' = final /\ Goto(t, "receive")
    /\ UNCHANGED <<handed, published, sqs, stored, records, tally, late, run>>

\* Variant: what is received is deleted at once.
ReceiveAndDelete(t, batch) ==
    /\ run = "running" /\ pc[t] = "receive" /\ Deliverable(batch)
    /\ queue' = queue \ batch
    /\ receives' = [e \in Events |-> IF e \in batch THEN receives[e] + 1 ELSE receives[e]]
    /\ records' = [records EXCEPT ![t] = @ \cup {<<e, receives[e] + 1>> : e \in batch}]
    /\ Goto(t, "look")
    /\ UNCHANGED <<handed, published, inflight, dlq, left, stored, final, tally, late, run>>

\* receive and _record_from_message; short polling may find nothing.
Receive(t, batch) ==
    /\ run = "running" /\ pc[t] = "receive" /\ Deliverable(batch)
    /\ inflight' = inflight \cup batch
    /\ receives' = [e \in Events |-> IF e \in batch THEN receives[e] + 1 ELSE receives[e]]
    /\ records' = [records EXCEPT ![t] = @ \cup {<<e, receives[e] + 1>> : e \in batch}]
    /\ Goto(t, "look")
    /\ UNCHANGED <<handed, published, queue, dlq, left, stored, final, tally, late, run>>

\* Variant: only a full batch is flushed.
FlushFull(t) ==
    /\ run = "running" /\ pc[t] = "look" /\ Cardinality(records[t]) >= StoreSize
    /\ Goto(t, "store")
    /\ UNCHANGED <<handed, published, sqs, stored, records, final, tally, late, run>>

\* flush_due: the batch is full, or a second has passed since the last flush.
Flush(t) ==
    /\ run = "running" /\ pc[t] = "look" /\ records[t] # {}
    /\ Goto(t, "store")
    /\ UNCHANGED <<handed, published, sqs, stored, records, final, tally, late, run>>

Gather(t) ==
    /\ run = "running" /\ pc[t] = "look" /\ Cardinality(records[t]) < StoreSize
    /\ Goto(t, "check")
    /\ UNCHANGED <<handed, published, sqs, stored, records, final, tally, late, run>>

\* _persist_reservation_batch: one transaction for the batch.  A thread goes on
\* when the run has failed, but its task does not.
Store(t) ==
    /\ pc[t] = "store"
    /\ stored' = stored \cup EventsOf(records[t])
    /\ Goto(t, IF run = "running" THEN "delete" ELSE "failed")
    /\ UNCHANGED <<handed, published, sqs, records, final, tally, late, run>>

\* The receipts that SQS accepts; another one may be ignored or be an error.
Valid(t) == {e \in inflight : <<e, receives[e]>> \in records[t]}

\* _delete_message_batch
Delete(t) ==
    /\ pc[t] = "delete"
    /\ queue' = queue \ Valid(t)
    /\ inflight' = inflight \ Valid(t)
    /\ Goto(t, "count")
    /\ UNCHANGED <<handed, published, receives, dlq, left, stored, records, final, tally, late,
                   run>>

\* A call raises, and with it the task: receive, the transaction, or the deletion
\* of a part of the batch.  The other tasks go on.
Raise(t) ==
    /\ pc[t] \in {"receive", "store", "delete"}
    /\ \E gone \in SUBSET (IF pc[t] = "delete" THEN Valid(t) ELSE {}) :
          queue' = queue \ gone /\ inflight' = inflight \ gone
    /\ Goto(t, "failed")
    /\ UNCHANGED <<handed, published, receives, dlq, left, stored, records, final, tally, late,
                   run>>

\* Variant: every record counts.
CountRecords(batch) == Cardinality(batch)

\* min(done, count_new_event_ids(seen, records)): every event counts once.
Counted(batch) ==
    LET new  == EventsOf(batch) \ seen
        done == Cardinality(batch)
    IN IF Cardinality(new) <= done THEN Cardinality(new) ELSE done

Count(t) ==
    /\ run = "running" /\ pc[t] = "count"
    /\ count' = count + Counted(records[t])
    /\ seen' = seen \cup EventsOf(records[t])
    /\ records' = [records EXCEPT ![t] = {}]
    /\ Goto(t, IF t \in final THEN "over" ELSE "check")
    /\ UNCHANGED <<handed, published, sqs, stored, final, late, run>>

Task(t) ==
    \/ Check(t) \/ (\E batch \in SUBSET Events : Receive(t, batch))
    \/ Flush(t) \/ Gather(t) \/ Store(t) \/ Delete(t) \/ Raise(t) \/ Count(t)

-----------------------------------------------------------------------------
Deadline ==
    /\ ~late /\ late' = TRUE
    /\ UNCHANGED <<handed, published, sqs, stored, pc, records, final, tally, run>>

\* gather, awaited when the producer is done: the first exception, or all tasks
\* over and the count compared.
Finish ==
    /\ run = "running" /\ Chunk = {}
    /\ \/ (\E t \in Tasks : pc[t] = "failed") /\ run' = "failed"
       \/ /\ \A t \in Tasks : pc[t] = "over"
          /\ run' = IF count = Total THEN "returned" ELSE "failed"
    /\ UNCHANGED <<handed, published, sqs, stored, pc, records, final, tally, late>>

\* finally, of a run that has returned or failed: its queues are deleted with what
\* is in them; a queue stays when its call fails (_delete_local_queues).
CleanUp ==
    /\ run # "running" /\ left = Queues
    /\ left' \in SUBSET Queues
    /\ IF "queue" \in left' THEN UNCHANGED <<queue, inflight>> ELSE queue' = {} /\ inflight' = {}
    /\ dlq' = IF "dlq" \in left' THEN dlq ELSE {}
    /\ UNCHANGED <<handed, published, receives, stored, pc, records, final, tally, late, run>>

\* The run is over.
Idle == run # "running" /\ UNCHANGED vars

Next ==
    \/ Publish \/ PublishFails
    \/ \E e \in Events : Redrive(e) \/ Expire(e)
    \/ \E t \in Tasks : Task(t)
    \/ Deadline \/ Finish \/ CleanUp \/ Idle

Spec == Init /\ [][Next]_vars

\* Threads end, the event loop runs every task, a partition that is open is
\* served in the end, and a second passes.  Nothing says that a timeout ends.
Fairness ==
    /\ WF_vars(Publish) /\ WF_vars(Finish)
    /\ \A e \in Events : WF_vars(Redrive(e))
    /\ \A t \in Tasks :
          /\ WF_vars(Task(t))
          /\ SF_vars(\E batch \in SUBSET Events \ {{}} : Receive(t, batch))
          /\ SF_vars(Flush(t))

FairSpec == Spec /\ Fairness

-----------------------------------------------------------------------------
(* Properties.                                                             *)

TypeOK ==
    /\ handed \in 0..Total
    /\ published \subseteq Events
    /\ queue \subseteq published /\ inflight \subseteq queue /\ dlq \subseteq published
    /\ receives \in [Events -> 0..MaxReceive]
    /\ left \subseteq Queues
    /\ stored \subseteq Events
    /\ pc \in [Tasks -> Stages]
    /\ records \in [Tasks -> SUBSET (Events \X (1..MaxReceive))]
    /\ final \subseteq Tasks
    /\ seen \subseteq Events
    /\ count \in 0..Total
    /\ late \in BOOLEAN
    /\ run \in {"running", "returned", "failed"}

\* A run that reports --messages events as processed has each of them COMPLETED in
\* PostgreSQL, although a message may be delivered again to another task while
\* the first one gathers, stored twice, and its receipt be ignored
\* (count_new_event_ids, _consume_optimized).
ReportIsTrue == run = "returned" => stored = Events

\* An event that SQS accepted is in the queue, in PostgreSQL or in the DLQ,
\* whichever task, thread or call fails, and when (_flush_records: the batch is
\* stored before it is deleted); until a failed run deletes its queues, and with
\* them what it has not stored, for a run that returns has stored what it drops.
NothingLost ==
    \/ published \subseteq queue \cup stored \cup dlq
    \/ run = "failed" /\ left # Queues

\* The tasks never all wait for messages of partitions that they keep closed with
\* what they have gathered: but for the deadline and the DLQ the run ends by
\* itself (flush_due, the second that passes).
RunEnds == <>(run # "running" \/ late \/ dlq # {})
=============================================================================
