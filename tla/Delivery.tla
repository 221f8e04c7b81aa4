------------------------------- MODULE Delivery -------------------------------
(***************************************************************************)
(* The SQS FIFO queue of events and the enricher processes that empty it    *)
(* (sqs.py SqsConsumer, sqs_message_processor.py; the queue and its redrive *)
(* policy are terraform/storage.tf).  Messages are numbered in the order    *)
(* they were sent, and each belongs to the group of its hotel.              *)
(*                                                                         *)
(* A process receives a batch, handles its groups concurrently (at most     *)
(* Concurrency of them) and the messages of a group one after the other,    *)
(* and receives again only when the whole batch is done.  A message it did  *)
(* not delete stays in flight until its visibility timeout ends, which may  *)
(* happen while the process is still working on it.                         *)
(*                                                                         *)
(* What enriching does to the database is abstract here: done is the set of *)
(* messages whose transaction committed (Ledger has the detail), retries    *)
(* the column retry_count that mark_failed increments.                      *)
(***************************************************************************)
EXTENDS Integers, FiniteSets

CONSTANTS
    Messages,       \* the messages in the queue, numbered in sending order
    Groups,         \* message groups (hotels)
    GroupOf,        \* the group of each message
    Procs,          \* enricher processes
    NoProc,         \* nobody holds the message
    MaxBatch,       \* sqs_max_messages
    Concurrency,    \* enricher_concurrency
    MaxAttempts,    \* enricher_max_attempts
    MaxReceive,     \* maxReceiveCount of the redrive policy
    DlqConfigured   \* whether sqs_enricher_dlq_url is set

ASSUME DeliveryAssumption ==
    /\ Messages \subseteq Nat
    /\ GroupOf \in [Messages -> Groups]
    /\ NoProc \notin Procs
    /\ MaxBatch \in Nat \ {0}
    /\ Concurrency \in Nat \ {0}
    /\ MaxAttempts \in Nat \ {0}
    /\ MaxReceive \in Nat \ {0}
    /\ DlqConfigured \in BOOLEAN

VARIABLES
    queued,    \* SQS: the messages in the queue, in flight or not
    holder,    \* SQS: who received the message last and may still delete it
    receives,  \* SQS: ApproximateReceiveCount of each message
    dlq,       \* SQS: the messages copied or moved to the dead-letter queue
    done,      \* database: events whose enrichment committed at least once
    retries,   \* database: retry_count of each event
    phase,     \* what each process is doing with each message of its batch
    count      \* the receive count each process was given with the message

queue == <<queued, holder, receives, dlq>>
vars  == <<queued, holder, receives, dlq, done, retries, phase, count>>

\* "none": not in the batch; "waiting": in the batch, its turn has not come;
\* "enriching": awaiting the service; "commit": enriched, to be deleted;
\* "poison": marked as failed for the last time, to be copied to the DLQ;
\* "drop": copied, to be deleted.
Phases  == {"none", "waiting", "enriching", "commit", "poison", "drop"}
Working == {"enriching", "commit", "poison", "drop"}

TypeOK ==
    /\ queued \subseteq Messages
    /\ holder \in [Messages -> Procs \cup {NoProc}]
    /\ receives \in [Messages -> 0..MaxReceive]
    /\ dlq \subseteq Messages
    /\ done \subseteq Messages
    /\ retries \in [Messages -> Nat]
    /\ phase \in [Procs -> [Messages -> Phases]]
    /\ count \in [Procs -> [Messages -> 0..MaxReceive]]

Init ==
    /\ queued = Messages
    /\ holder = [m \in Messages |-> NoProc]
    /\ receives = [m \in Messages |-> 0]
    /\ dlq = {}
    /\ done = {}
    /\ retries = [m \in Messages |-> 0]
    /\ phase = [p \in Procs |-> [m \in Messages |-> "none"]]
    /\ count = [p \in Procs |-> [m \in Messages |-> 0]]

Group(g)     == {m \in Messages : GroupOf[m] = g}
Before(m)    == {n \in Messages : GroupOf[n] = GroupOf[m] /\ n < m}
Batch(p)     == {m \in Messages : phase[p][m] # "none"}
Holding(m)   == holder[m] # NoProc

-----------------------------------------------------------------------------
(* SQS FIFO.                                                               *)

\* No message of a group is delivered while another one is in flight.
Available(g) == \A m \in Group(g) \cap queued : ~Holding(m)

\* Variant: a queue without a redrive policy.
AlwaysDeliverable(m) == TRUE

\* The redrive policy lets a message be received maxReceiveCount times.
Deliverable(m) == receives[m] < MaxReceive

\* What ReceiveMessage may answer: of every available group in it, the oldest
\* messages still in the queue.
Receivable(batch) ==
    /\ batch # {} /\ batch \subseteq queued
    /\ Cardinality(batch) <= MaxBatch
    /\ \A m \in batch :
          /\ Available(GroupOf[m])
          /\ Deliverable(m)
          /\ Before(m) \cap queued \subseteq batch

\* The queue gives a batch to p.
Deliver(p, batch) ==
    /\ holder' = [m \in Messages |-> IF m \in batch THEN p ELSE holder[m]]
    /\ receives' = [m \in Messages |-> IF m \in batch THEN receives[m] + 1 ELSE receives[m]]

\* A process with nothing left of its batch receives the next one.
Receive(p, batch) ==
    /\ Batch(p) = {}
    /\ Receivable(batch)
    /\ Deliver(p, batch)
    /\ count' = [count EXCEPT ![p] =
                   [m \in Messages |-> IF m \in batch THEN receives[m] + 1 ELSE 0]]
    /\ phase' = [phase EXCEPT ![p] =
                   [m \in Messages |-> IF m \in batch THEN "waiting" ELSE "none"]]
    /\ UNCHANGED <<queued, dlq, done, retries>>

\* Instead of delivering the oldest message of an available group once more
\* than maxReceiveCount, SQS moves it to the dead-letter queue.
Redrive(m) ==
    /\ m \in queued
    /\ Available(GroupOf[m])
    /\ Before(m) \cap queued = {}
    /\ ~Deliverable(m)
    /\ \E p \in Procs : Batch(p) = {}
    /\ queued' = queued \ {m}
    /\ dlq' = dlq \cup {m}
    /\ UNCHANGED <<holder, receives, done, retries, phase, count>>

\* The visibility timeout of a message ends, be it sqs_visibility_timeout or
\* the one _change_visibility asked for.
Expire(m) ==
    /\ m \in queued
    /\ Holding(m)
    /\ holder' = [holder EXCEPT ![m] = NoProc]
    /\ UNCHANGED <<queued, receives, dlq, done, retries, phase, count>>

-----------------------------------------------------------------------------
(* A batch.                                                                *)

\* Message m of the batch of p goes to its next phase.
Advance(p, m, to) ==
    /\ phase' = [phase EXCEPT ![p][m] = to]
    /\ UNCHANGED count

\* The batch of p becomes the messages that f gives a phase.
Rest(p, f) ==
    /\ phase' = [phase EXCEPT ![p] = f]
    /\ count' = [count EXCEPT ![p] =
                   [m \in Messages |-> IF f[m] = "none" THEN 0 ELSE count[p][m]]]

\* The groups whose task holds the semaphore.
Running(p) == {GroupOf[m] : m \in {n \in Messages : phase[p][n] \in Working}}

\* Variant: each message of the batch is a task of its own.
EachByItself(p, m) == phase[p][m] = "waiting"

\* The first message of a group that process p has not dealt with.
First(p, m) == phase[p][m] = "waiting" /\ Before(m) \cap Batch(p) = {}

\* The task of a group gets the semaphore and starts with its first message.
Start(p, m) ==
    /\ First(p, m)
    /\ Cardinality(Running(p)) < Concurrency
    /\ Advance(p, m, "enriching")
    /\ UNCHANGED <<queue, done, retries>>

\* process_message returned True: the task goes on with the next message of
\* the group, if the batch has one, and keeps the semaphore.
Proceed(p, m) ==
    Rest(p, [n \in Messages |->
                IF n = m THEN "none"
                ELSE IF phase[p][n] = "waiting" /\ Before(n) \cap Batch(p) = {m}
                     THEN "enriching"
                     ELSE phase[p][n]])

\* Variant: the task goes on with the next message of the group.
BreakNothing(p, m) ==
    Rest(p, [n \in Messages |->
                IF n = m THEN "none"
                ELSE IF phase[p][n] = "waiting" /\ Before(n) \cap Batch(p) = {m}
                     THEN "enriching"
                     ELSE phase[p][n]])

\* Variant: the process keeps the message and tries it again itself.
BreakAndRetry(p, m) == Rest(p, [phase[p] EXCEPT ![m] = "enriching"])

\* process_message returned False or raised: the task leaves the rest of its
\* group in flight and ends (gather collects the exception).
Break(p, m) ==
    Rest(p, [n \in Messages |-> IF GroupOf[n] = GroupOf[m] THEN "none" ELSE phase[p][n]])

-----------------------------------------------------------------------------
(* process_message.                                                        *)

\* enrich returns: the event is committed, or was COMPLETED already.
Enriched(p, m) ==
    /\ phase[p][m] = "enriching"
    /\ done' = done \cup {m}
    /\ Advance(p, m, "commit")
    /\ UNCHANGED <<queue, retries>>

\* A retryable error, a database error, a message that does not parse:
\* nothing is written, and the message stays in flight for a while.
NotEnriched(p, m) ==
    /\ phase[p][m] = "enriching"
    /\ Break(p, m)
    /\ UNCHANGED <<queue, done, retries>>

\* receive_count is the one of the delivery, not the one of the queue.
LastAttempt(p, m) == count[p][m] >= MaxAttempts

\* EnrichmentPoisonError: mark_failed, and either the DLQ or another delivery.
Poisoned(p, m) ==
    /\ phase[p][m] = "enriching"
    /\ retries' = [retries EXCEPT ![m] = @ + 1]
    /\ IF LastAttempt(p, m) THEN Advance(p, m, "poison") ELSE Break(p, m)
    /\ UNCHANGED <<queue, done>>

\* _send_to_dlq does nothing without a DLQ URL.
SendToDlq(p, m) ==
    /\ phase[p][m] = "poison"
    /\ dlq' = IF DlqConfigured THEN dlq \cup {m} ELSE dlq
    /\ Advance(p, m, "drop")
    /\ UNCHANGED <<queued, holder, receives, done, retries>>

\* Variant: a poison message may be deleted before it is copied to the DLQ.
DeletableEarly(p, m) == phase[p][m] \in {"commit", "poison", "drop"}

\* The two places that delete the message.
Deletable(p, m) == phase[p][m] \in {"commit", "drop"}

\* DeleteMessage with the receipt handle of the current delivery.
Delete(p, m) ==
    /\ Deletable(p, m)
    /\ holder[m] = p
    /\ queued' = queued \ {m}
    /\ holder' = [holder EXCEPT ![m] = NoProc]
    /\ Proceed(p, m)
    /\ UNCHANGED <<receives, dlq, done, retries>>

\* A call to SQS fails: for want of a network, or because the visibility
\* timeout of the delivery has ended and its receipt handle with it.
CallFails(p, m) ==
    /\ phase[p][m] \in {"commit", "poison", "drop"}
    /\ Break(p, m)
    /\ UNCHANGED <<queue, done, retries>>

\* The process dies and another one starts in its place.
Crash(p) ==
    /\ Batch(p) # {}
    /\ Rest(p, [m \in Messages |-> "none"])
    /\ UNCHANGED <<queue, done, retries>>

Process(p, m) ==
    \/ Start(p, m)
    \/ Enriched(p, m) \/ NotEnriched(p, m) \/ Poisoned(p, m)
    \/ SendToDlq(p, m) \/ Delete(p, m) \/ CallFails(p, m)

\* Nothing is left to do: the processes poll an empty queue.
Idle ==
    /\ queued = {}
    /\ \A p \in Procs : Batch(p) = {}
    /\ UNCHANGED vars

Next ==
    \/ \E p \in Procs, batch \in SUBSET Messages : Receive(p, batch)
    \/ \E m \in Messages : Redrive(m) \/ Expire(m)
    \/ \E p \in Procs, m \in Messages : Process(p, m)
    \/ \E p \in Procs : Crash(p)
    \/ Idle

Spec == Init /\ [][Next]_vars

\* What the environment owes: a live process polls, a task that can go on goes
\* on (every await has a timeout), visibility timeouts end, and SQS applies its
\* redrive policy.  Nothing says that any call succeeds, or that a process ever
\* survives its batch.
Fairness ==
    /\ WF_vars(\E p \in Procs, batch \in SUBSET Messages : Receive(p, batch))
    /\ \A m \in Messages : WF_vars(Redrive(m)) /\ WF_vars(Expire(m))
    /\ \A p \in Procs, m \in Messages : WF_vars(Process(p, m))

FairSpec == Spec /\ Fairness

-----------------------------------------------------------------------------
(* Properties.                                                             *)

\* "Solo entonces elimina el mensaje de SQS", "envia a DLQ y borra el original"
\* (README.md): a message that is no longer in the queue has been enriched or is
\* in the dead-letter queue, in spite of crashes, failing calls and deliveries
\* that outlive their visibility timeout (process_message).
NothingLost ==
    \A m \in Messages \ queued : m \in done \cup dlq

\* "preserva el orden FIFO del grupo" (_process_group): an event is enriched, is
\* recorded as failed or leaves the queue only once every earlier message of its
\* hotel has left it, even in the hands of a process whose delivery has expired
\* and is being repeated by another process.
GroupOrder ==
    \A m \in Messages :
        m \in done \/ retries[m] > 0 \/ m \notin queued => Before(m) \cap queued = {}

\* "Marca error; tras ENRICHER_MAX_ATTEMPTS, envia a DLQ y borra el original"
\* (README.md): an event whose every outcome is a recorded failure reaches the
\* dead-letter queue only after that many of them.
DlqAfterAttempts ==
    \A p \in Procs, m \in Messages :
        phase[p][m] = "poison" => retries[m] >= MaxAttempts

\* The abstract view of the queue and the enrichers.
Promise == INSTANCE Channel WITH pending <- queued, handled <- done, aside <- dlq

\* Whatever expires, fails and dies, the queue and the enrichers together are a
\* channel that handles or puts aside every message before it leaves, in the
\* order of its hotel (sqs_message_processor.py, terraform/storage.tf).
ImplementsChannel == Promise!Spec

\* Every message leaves the queue in the end, whatever the services answer and
\* however often the processes die: no task, no group and no process waits for
\* ever (run_forever, _process_batch, redrive policy).
EverythingLeaves ==
    \A m \in Messages : <>(m \notin queued)
=============================================================================
