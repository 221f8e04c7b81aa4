# Verification of opera-ohip

opera-ohip brings the business events of Oracle OPERA Cloud into PostgreSQL. A
*listener* reads the OHIP stream over a websocket and publishes every event to an
SQS FIFO queue. *Enrichers* read the queue, ask the OHIP Property API for the
resource an event is about, and write the answer to three schemas of one
database. A daily job builds analytics from what they wrote.
This directory holds
TLA+ models of those parts, the TLC configurations that check them on small
instances, and proofs, checked by TLAPS, that the most important properties hold
for every size of the system.

Paths below are relative to the root of the repository.

## Inventory

| Component | Source | State | Operations | Hard behaviour | Module |
|---|---|---|---|---|---|
| Listener | `src/ohip_bridge/listener.py`, `graphql.py`, `offsets.py` | offset in S3, connection, reconnection delay | load, subscribe, receive, publish, save, sleep | failure between publish and save; two listeners during a deployment; events that can never be published | `Listener` |
| Publisher, consumer | `src/ohip_bridge/sqs.py`, `terraform/storage.tf` | the FIFO queue, receipt handles, receive counts | send, receive, delete, redrive | at-least-once delivery, order per hotel, visibility timeouts that end early | `Listener`, `Delivery`, `Consumer` |
| Message processor | `src/ohip_bridge/sqs_message_processor.py`, `event_enricher.py` | a batch, one task per hotel, a semaphore | process_message, break, DLQ, change visibility | crashes between two calls, expired receipts, counting attempts | `Delivery`, `Channel` |
| Enrichment service | `src/ohip_bridge/enrichment_service.py`, `enrichment_repositories.py`, `retry_classifier.py`, `db/migrations/002`, `006` | `opera_events.event`, `opera_raw.resource_snapshot`, `opera_core.*` | enrich, persist, mark deleted, mark failed | stale responses, concurrent transactions, redeliveries, colliding offsets | `Ledger`, `Projection` |
| Parser, router, resolver, transformers | `events.py`, `opera_event_parser.py`, `event_router.py`, `config/event-router.yaml`, `identifier_resolver.py`, `transformers.py` | none | from an event on the stream to the key of a row | two parsers of one event, missing fields, two sources for one key | `Resolve` |
| OAuth and HTTP client | `oauth.py`, `ohip_client.py` | cached token, its lock | token, invalidate, request with one retry | a late 401 that discards a fresh token; a token that ends on its way | `Access` |
| Consumer v1 | `consumer.py`, `db.py`, `raw_store.py`, `db/migrations/001` | `ohip_events`, raw objects in S3 | store, persist, delete | reads the same queue as the enricher | `Consumer` |
| Analytics job | `analytics_snapshot.py`, `db/migrations/003` to `007` | `opera_analytics.*` | daily snapshot, last status, pickup | reads tables that enrichers write; reruns for one date; overlapping jobs | `Analytics` |
| Load test | `scripts/perf_streaming_e2e.py`, `perf_streaming_load.py` | counts, batches in memory | send, receive, store and delete in batches | redelivery while a batch is gathered; tasks that close partitions to each other | `LoadTest` |
| Configuration, secrets, health, metrics, logging, diagrams, Terraform | the rest | none that matters here | | | |

How they interact: the listener calls OHIP, SQS and S3; SQS is the only channel
from the listener to the enrichers; the processor calls the service, which calls
OHIP and PostgreSQL; enrichers of different ECS tasks meet only in SQS and in
PostgreSQL; the analytics job meets them in PostgreSQL; the tasks of one enricher
share the token; the first consumer competes with the enrichers for messages.

What makes each part correct:

- listener: the saved offset never runs ahead of what was published; nothing is
  skipped within a connection; whatever is published late is published in the end;
- queue and processor: a message leaves the queue only when its effect is
  durable, hotels keep their order, and no message stays for ever;
- ledger: the three schemas agree, a finished event is reflected in the core row
  of its resource, and an older event never overwrites a newer one;
- resolution: an event has one identity, and the time it states, at every delivery,
  is asked for under what it names, and what it writes meets under one key;
- client: a rejected token is not used again, none is used after its end, no more
  tokens are fetched than needed, and every call ends;
- analytics: a date is one picture of the reservations, the report agrees with its
  nights, and a pickup counts each night once;
- load test: the count it reports is what is stored.

`PROJECT.json` lists, under `hazards`, everything in this code that is hard to
test, at its line, with the property that covers it or the reason why none does.

## Modules

### Ledger and Projection: the enrichment service over PostgreSQL

`Ledger.tla` models `OperaEnrichmentService` and the repositories. A *worker* is
one delivery of a message, in any process. Its actions follow `enrich`:

| Action | Code |
|---|---|
| `Deliver` | `process_message` calls `enrich` |
| `Unresolvable` | no route, or `IdentifierResolutionError` |
| `Fetch` | `_fetch`, then `classify_http` on the status code |
| `Register` | `register_event`: `INSERT ... ON CONFLICT DO NOTHING`, `SELECT status` |
| `Deduplicate` | early return for a `COMPLETED` event |
| `Persist`, `MarkDeleted`, `MarkFailed` | the rest of the transaction, up to its commit |
| `Abort` | any exception or crash; PostgreSQL rolls back |

The request to OHIP, the registration and the commit are separate steps, because
other workers may act between them. All that a transaction writes is one step, the
commit: the rows stay locked from the first write on, and the `WHERE` clause of
an upsert is evaluated under the lock of its row.

Columns are abstracted to what the properties tell apart. OHIP numbers the changes
of a resource (`version`); an event announces one of them (`rank`); a response is
the version it was read at; a core row is its version, the event that wrote it and
whether `deleted_at` is set. Route, identifier, timestamp, offset and the delete
test of an event are constants here; `Resolve` looks into them. A folio is special
twice: its deletion writes no core row, and a response may not list it (`Listed`).

A worker that waits for another one that inserts the same row is a guard of
`Register`: this is what the unique index makes PostgreSQL do.

`Projection.tla` is what a reader of `opera_core` may rely on: no workers, no
requests, no transactions. Each resource has a row; a row and the end of its event
change in one step; an event never takes a row from a later one; what a row shows
is not older than the event it names. `Ledger!ImplementsProjection` states the
refinement, under the mapping `Reader`: `latest`, `shown` and `gone` are the three
fields of a core row, `finished` the events with status `COMPLETED` or `DELETED`.

### Delivery and Channel: the queue and the processor

`Delivery.tla` models the FIFO queue with visibility timeouts and the redrive
policy, and any number of enricher processes. `Receive` is `receive_message`,
`Start`, `Proceed` and `Break` are `_process_batch` and `_process_group` with the
semaphore, and `Enriched`, `NotEnriched`, `Poisoned`, `SendToDlq`, `Delete` and
`CallFails` are the paths of `process_message`. A timeout may end at any moment
(`Expire`), which covers `sqs_visibility_timeout` and what `_change_visibility`
asks for. The receipt handle of a delivery works while `holder` still names its
process. Database effects are two facts, `done` and `retries`; Ledger has the rest.

`Channel.tla` is the promise: messages are handled at least once, or put aside, and
leave in the order of their group. `Delivery!ImplementsChannel` states that
batches, semaphores, timeouts and crashes implement it (`pending <- queued`,
`handled <- done`, `aside <- dlq`).

### Listener

`Listener.tla` models `run` with the stream, the connection and the offset in S3.
Events are numbered by their position in the stream. `origin` and `start` are
history variables: they record where the run of events began that the saved
offset, or a listener, continues. The handshake is one step, `Subscribe`; OHIP
serves one connection at a time and refuses a second one (`Refused`), but a
listener whose connection is closed goes on with the events it has buffered, which
is how two listeners can both save. OHIP may start with the event of the offset or
with the next one; without an offset, anywhere. With `CustomQuery` the saved offset
is not sent (`SendsOffset`); no run sets it.

### Resolve

`Resolve.tla` follows one event through the pure functions: `Publish` is
`parse_ohip_event` and `publish`, `Deliver` is `OperaEventParser.parse`, `route_for`
and `resolve` at each delivery, `Answer` and `NotFound` are what is written, and
under which key, for an answer or a 404 (`written`, a history variable). The
searches in nested JSON are abstracted to whether they find the field, the changes
that an event lists are kept in order (the first that fits is taken), and the
routes are those of `config/event-router.yaml`.

The two parsers are two sets of operators. They read the same event at different
times and know different names of a field: `hotel` says who finds it, and `both` is
an event that names two hotels, the first in a way that only the listener knows.
`ListenerTime` looks for a timestamp by name. `EnricherTime` looks further, in the
changes that are called like one (`Dated`), since the enricher also takes
`elementName` for a name (changes called like the other fields, a hotel for one, are
left out); `stamp` tells a timestamp that is missing, a time, and one
that does not parse. The event happened at `EventTime`, the dates among its changes
are earlier.

An answer is where it has the identifier of its resource: in a field of its own, in
the first element of a list, in both or nowhere. What it says is
external: OHIP answers about what it was asked for, and names a reservation by its
`reservationId` even if it was asked for by a confirmation number (`NameOf`).
`RowKeys` is what the transformers take from the answer, `Raises` where that of
reservations fails.

### Access

`Access.tla` models `_request` and the token that all tasks of an enricher share.
A step lies between two awaits. Tokens are numbered; `life` is when the server ends
one, `expiresAt` what the client believes, which is later by the latency of the
answer. `MaxLatency` and `MaxWait` bound what the HTTP timeouts bound: the answer of
the token endpoint, and the time from taking a token to its reaching the API. The
server may withdraw any token (`Revoke`). `drops` is a history variable.

### Consumer

`Consumer.tla` EXTENDS Delivery and adds the first consumer: `Poll`, then `Write`
(S3), `Persist` (`ohip_events`) and `Remove` for each message of the batch in order;
`Skip` is the `except` of the loop, `Die` a crash. `ConsumerNext` is every step of
Delivery or of a consumer: this is the composition of the two services that
`terraform/ecs.tf` runs on one queue.

### Analytics

`Analytics.tla` models the job as what it is, statements of one READ COMMITTED
transaction: `Build` (DELETE, SELECT, INSERTs of the nights), `RefreshLastStatus`,
one `RefreshPickup` for each period, `Commit` or `Rollback`. Enrichers change the
reservations between any two of them (`Enrich`, `Delete`, each of which may leave the
row alone, as the guard on `last_event_at` does for an event that comes late), and
jobs of other dates commit between them. The SQL is given as set expressions: `Selected`, `LastOf`,
`Joined` and `Pickups`. `picture` is a history variable: the reservations that
`Build` read.

### LoadTest

`LoadTest.tla` models the optimized pipeline of `perf_streaming_e2e.py`. A receipt is
an event and the number of its delivery. `Store` and `Delete` run in threads, which
go on when the run has failed; all else is guarded by `run = "running"`, since the
tasks are cancelled. `CleanUp` is the `finally` of `_run_e2e_async`: of a run that
has returned or failed it deletes the queue and the DLQ with what is in them, each by
a call whose error is suppressed; `left` has those that remain. SQS may ignore an outdated receipt or call it an error
(`Delete`, `Raise`), as LocalStack and SQS differ in it.

### Variants

Operators whose comment begins with *Variant* are plausible mistakes: a dropped
`WHERE` clause, a column that is not updated, a missing unique index, a message
deleted before it is copied. They are not part of any specification. For each
property of each passing run, `mutants` in `PROJECT.json` names the definition to
replace by a variant so that TLC finds the property violated: no property holds
whatever the code does.

## Runs

| Run | Instance | Distinct states | Shows |
|---|---|---|---|
| `ledger` | 2 workers, 4 events of one reservation: create, cancel, change, and an unroutable one with the offset of the third | 1.25 million | `TypeOK`, `CompletedIsReflected`, `DeletedIsReflected`, `SchemasAgree`, `OneEventPerOffset`, `OlderEventNeverOverwrites`, `ImplementsProjection` |
| `ledger_final` | 1 worker, 2 events | | violates `CompletedIsFinal` |
| `delivery` | 2 processes, 3 messages of 2 hotels, semaphore of 1 | 524 000 | `TypeOK`, `NothingLost`, `GroupOrder`, `ImplementsChannel` |
| `delivery_attempts` | 1 process, 2 messages of one hotel, 2 attempts and 2 receptions | | violates `DlqAfterAttempts` |
| `listener` | 2 listeners, 3 events, the second without offset, 2 faults | 611 000 | `TypeOK`, `NoGap`, `InOrder` |
| `listener_live` | 1 listener, 4 events, the last refused, 2 faults | 11 000 | `EveryEventPublished`, `NothingForgotten` |
| `access` | 2 calls, 4 tokens, clock up to 5 | 363 000 | `TypeOK`, `RetryUsesAnotherToken`, `OneTokenAtATime`, `TokenOutlivesItsWait`, `CallsEnd` |
| `consumer` | 1 consumer, 1 enricher, 2 messages of 2 hotels | 48 000 | `ConsumerTypeOK`, `RowHasObject`, `LeftForAReason`, `EverythingLeaves` |
| `analytics` | 2 reservations, 3 bookings, 3 dates, pickups of 1 and 2 days, 2 changes, 3 jobs | 715 000 | `TypeOK`, `OnePicture`, `LastStatusAgrees`, `PickupsAddUp` |
| `analytics_arrivals` | the same | | violates `ArrivalIsReal` |
| `resolve` | 72 events that differ in identifier, hotel, timestamp and dates, and several thousand that differ in route, key and up to 2 changes; 2 deliveries | 162 000 | `TypeOK`, `SameIdentity`, `TimeKept`, `FolioAsksForReservation`, `KeysMeet`, `NamedIsAsked` |
| `load_test` | 2 tasks, 3 events of one partition, batches of 2 and 3 | 1.6 million | `TypeOK`, `ReportIsTrue`, `NothingLost`, `RunEnds` |

### Bounds, and why they are enough

- *Workers, processes, listeners, calls, tasks: 2.* Every race in this code is
  between two transactions on one event, one offset or one row, between two holders
  of one message or one token, or between an old and a new listener. The proofs
  cover any number.
- *Events: 3 or 4 of one resource.* An older one, the one in question and a later
  one, with a deletion among them; rows of different resources do not interact. A
  fourth event collides with an offset.
- *Messages: 3 of 2 hotels*, so that a group has a first and a second message, a
  batch has two groups, and with a semaphore of 1 one of them waits.
  `MaxAttempts` and `MaxReceive` are 2 (5 in production, equal as there).
- *Consumer: 2 messages of 2 hotels*: the two services hold one each, or pass one
  to each other; the order within a hotel is not a matter of that module.
- *MaxEvents 3 or 4, MaxFaults 2*: a fault between publishing and saving, and one
  more while recovering from it. OHIP's `complete` and errors count as faults.
- *MaxDelay 3* with *MinDelay 1*: the delay doubles once below the cap and once
  above it.
- *Lifetime 4, Skew 2, MaxLatency and MaxWait 1, MaxTime 5, 4 tokens*: a token is
  fetched, begins to expire and ends within the clock, with the skew exactly as
  large as latency and wait; two calls that are each refused once need 4 tokens.
  At the bounds the clock stops and no more tokens are issued; the calls then still
  end, as a request for a token may fail.
- *Bookings: 3; dates 1 to 3; Horizon 2; 2 changes; 3 jobs*: a stay that becomes
  shorter or is cancelled, with a change before and one between two jobs; a date
  that is run again, or three dates of which two are compared with earlier ones;
  the night of date 3 is beyond the horizon of no date, that of a stay to come is.
- *Resolve*: an identifier with a digit, one without, and a confirmation number that
  stands for the first; one date, of before the event; two changes so that the first
  is not the one that matters, or is called like a timestamp and has no date; every module and name that a route or an alias
  tells apart, and one of each that none knows. *MaxClock 2, 2 deliveries*: the two
  deliveries differ in time from each other and from the publication.
- *LoadTest*: 3 events of one partition, sent as 2 and 1 and stored in batches of up
  to 3, so that a task leaves its loop with a batch in hand, and so that the
  partition is closed by a batch that is not yet full; `MaxReceive` 2, so that an
  event is delivered to both tasks. The invariants also hold
  with two partitions, in an instance too large for the runs.

Workers, processes, listeners and reservations are symmetric in the runs that
check safety only. Liveness runs use no symmetry. No run disables the deadlock
check: `Idle` and `Quiet` are the states where the system has nothing left to do.

### Fairness

- `Delivery!Fairness`: a process polls again when it is free, tasks go on (every
  await has a timeout: HTTP 30 s, the pool, boto3), visibility timeouts end, SQS
  applies its redrive policy. No particular outcome is assumed to happen: the
  process may crash in every batch and OHIP may fail every time.
  `ConsumerFairness` adds the same for the consumer: it polls, and each step of its
  loop ends, by an error or not.
- `Listener!FairSpec`: OHIP sends what it has and a listener whose next step is
  possible takes it. Failures are bounded by `MaxFaults`, as no listener can
  promise anything while they go on for ever; `Reject` is not a fault and repeats
  for ever, which is why the liveness property ends at the first refused event.
- `Access!Fairness`: each call goes on, one way or another: the event loop runs
  every task that can run, and all that a call awaits has a timeout, but for the
  lock, whose holder is such a call. Nothing says that a call succeeds.
- `LoadTest!Fairness`: threads end, the tasks go on, and what happens again and
  again in time is taken in the end (strong fairness): a poll of an open partition
  finds its messages, and a second passes after the last flush. Visibility timeouts
  and the deadline are not fair: the run has to end without them.

## Where documents and code disagree

Three runs expect a violation; `findings` in `PROJECT.json` quotes both sides.

1. `ledger_final`: `README.md` says that an event already `COMPLETED` is deleted
   from SQS without reprocessing. The code asks OHIP first, and if OHIP refuses,
   `mark_failed` turns the event into `FAILED`. A later delivery then enriches it
   again; the core row is not harmed (`CompletedIsReflected` holds throughout).
2. `delivery_attempts`: `README.md` says that an event goes to the DLQ after
   `ENRICHER_MAX_ATTEMPTS` failures. The code counts attempts by
   `ApproximateReceiveCount`, and SQS counts receptions. In the run a process receives
   a message and dies before trying it; the message is received again, and its first
   failure, recorded with a `retry_count` of 1, is its last. A reception is spent in
   the same way by a message whose group is broken ahead of it.
3. `analytics_arrivals`: the snapshot has no night before its date, so that the
   report of the last status shows every guest in house as an arrival of the day.

The first consumer deletes what it has archived, and `terraform/ecs.tf` runs it
beside the enricher on the same queue, so that an event it received is neither
enriched nor in the DLQ: `Delivery`'s `NothingLost` does not carry over to
`Consumer`, whose `LeftForAReason` says what does.

`docs/ohip-streaming-to-service-api-examples.md` says that a cancellation answered by
a 404 does not touch `opera_core` and leaves the event `COMPLETED`
(lines 281 and 292). The code marks the row and sets `DELETED`
(`enrichment_service.py:162`, `163`), as `tests/test_mark_deleted_flow.py` has it; the
models follow the code.

## Proofs

TLC checks the instances above. Eight modules prove, for every value of the
constants, every invariant and every action property that a passing run checks, and both
refinements:

| Theorem | Statement |
|---|---|
| `Ledger_proofs!TypeCorrect` | `Spec => []TypeOK` |
| `SchemasAlwaysAgree` | `Spec => []SchemasAgree` |
| `OffsetsAreUnique` | `Spec => []OneEventPerOffset` |
| `CompletedStaysReflected`, `DeletedStaysReflected` | `Spec => []CompletedIsReflected`, `[]DeletedIsReflected`, if `DistinctTimes` |
| `RowsOnlyGoForward` | `Spec => OlderEventNeverOverwrites`, if `DistinctTimes` |
| `LedgerImplementsProjection` | `Spec => ImplementsProjection` |
| `Delivery_proofs!TypeCorrect` | `Spec => []TypeOK` |
| `NoMessageIsLost` | `Spec => []NothingLost`, if `DlqConfigured` |
| `GroupsStayInOrder` | `Spec => []GroupOrder` |
| `DeliveryImplementsChannel` | `Spec => ImplementsChannel`, if `DlqConfigured` |
| `Listener_proofs!TypeCorrect` | `Spec => []TypeOK` |
| `OffsetIsAPromise` | `Spec => []NoGap` |
| `NothingSkipped` | `Spec => []InOrder` |
| `SubscriptionGoesOn` | `Spec => NothingForgotten`, if `Plain` |
| `Access_proofs!TypeCorrect` | `Spec => []TypeOK` |
| `RetriesUseAnotherToken` | `Spec => []RetryUsesAnotherToken` |
| `TokensOutliveTheirWait` | `Spec => []TokenOutlivesItsWait` |
| `TokensComeOneAtATime` | `Spec => []OneTokenAtATime` |
| `Consumer_proofs!ConsumerTypeCorrect` | `ConsumerSpec => []ConsumerTypeOK` |
| `RowsHaveObjects` | `ConsumerSpec => []RowHasObject` |
| `LeftForAReasonHolds` | `ConsumerSpec => []LeftForAReason`, if `DlqConfigured` |
| `Analytics_proofs!TypeCorrect` | `Spec => []TypeOK` |
| `OnePictureHolds` | `Spec => []OnePicture` |
| `ReportMatchesNights` | the report is `LastStatus` of the nights it is committed with |
| `LastStatusAlwaysAgrees` | `Spec => []LastStatusAgrees` |
| `PickupsAlwaysAddUp` | `Spec => []PickupsAddUp` |
| `Resolve_proofs!TypeCorrect` | `Spec => []TypeOK` |
| `IdentityIsKept` | `Spec => []SameIdentity` |
| `TimeIsKept` | `Spec => []TimeKept` |
| `FoliosAskForReservations` | `Spec => []FolioAsksForReservation` |
| `NamedIsAlwaysAsked` | `Spec => NamedIsAsked` |
| `KeysAlwaysMeet` | `Spec => []KeysMeet` |
| `LoadTest_proofs!TypeCorrect` | `Spec => []TypeOK` |
| `ReportHolds` | `Spec => []ReportIsTrue` |
| `NothingIsLost` | `Spec => []NothingLost` |

Assumptions: each module's `...Assumption` says what its constants are (TLC
evaluates it in the runs). `AccessAssumption` holds what `TokenOutlivesItsWait`
rests on: the skew covers the longest answer of the token endpoint and the longest
wait for a connection, as 120 s do for timeouts of 30 s. `AnalyticsAssumption` says
that the reservations are finitely many and that dates and rooms are numbers, as the
sums of SQL need; `ResolveAssumption` that no request is `None`. `DistinctTimes` says
that two events of a resource differ in their timestamp. It is needed: with equal
timestamps `<=` lets either event overwrite the other. `DlqConfigured` is needed,
as without a DLQ a poison message is deleted and nothing keeps it. `Plain` is one
listener with the built-in query and an offset on every event.

The arguments:

- **Ledger.** `SchemasAgree` is not inductive: nothing in it says that the snapshot
  a worker is about to replace is not the one a row depends on, or that the
  response it holds is recent. `LedgerInv` adds four parts. `WorldInv`: events of a
  resource are announced in the order of their timestamps. `WorkerInv`: a worker
  holds an event that happened, and a response at least as recent. `RowInv`: the
  schemas agree, rows name events of their own resource, and a finished event is
  `Reflected`, that is, the writer of its row did not occur before it.
  `OffsetInv`: whoever inserts an event row is alone with its identifier and its
  offset. The heart is `RowKept`: when the guard of the upsert rejects an event, the
  row belongs to a later one, so replacing the event's snapshot leaves the agreement
  alone; when it accepts it, row and snapshot are written together. `LaterIsNewer`
  turns the order of timestamps into the order of changes.
  For the refinement, `AnswerInv` says of a response that it lies between the
  announcement of its event and the present, and that only a destructive event is
  about to be marked as deleted; then each commit is `Show`, `Bury`, `Pass` or
  `Withdraw` of Projection, and every other step is `Announce` or a stutter.
- **Delivery.** `NothingLost` needs `Outcomes`: a message about to be deleted is
  enriched or in the DLQ. `GroupOrder` needs `BatchIsPrefix` (a batch holds whatever
  the queue still has before any of its messages, even after its deliveries
  have expired) and `InTurn` (a task works on a message only when the queue holds
  nothing before it). Every step of a process `Shrinks` its batch in a way that
  keeps both: that is one lemma for each of going on, ending and advancing. With
  `Outcomes` and `InTurn`, each step is one of Channel's.
- **Listener.** `NoGap` needs to know what each listener has published since it
  began, and where it would resume: `PromiseInv` says that the events a listener
  has taken are published or in its hands, and that the offset it loaded keeps the
  promise of the offset that was saved then. For `NothingForgotten`, `OneRun` says
  that the only listener has loaded the offset that is stored.
- **Access.** What a call was refused with must not come back into the cache.
  `OnItsWay`: a token whose answer has not arrived is known to no other call.
  `Forgotten`: a refused token is neither cached nor in the hands of its call.
  `TimeInv` relates the client's clock to the server's for the token that is cached
  and for those in use. `OneTokenAtATime` counts `Spare` tokens, those the client
  would use and does not have: only `Invalidate` makes one, and the lock keeps a
  fetch from making another.
- **Consumer.** `StepInv`: a message about to be archived or deleted has its object,
  then its row. `LeaveInv` adds `Outcomes` for the enrichers. A service relies on
  nothing that the other may change. `ConsumerTypeOK` types what the enrichers keep as
  well, and is inductive as it stands.
- **Analytics.** `SnapshotInv` carries *nights of one picture* and *report of those
  nights* through the workspace of a job; that the DELETE comes before the INSERTs
  is what makes a rerun right. `PictureInv` types the picture. `OneStay` does the
  arithmetic: the nights of a booking from a date on are an interval, and all of
  them carry the status of their reservation.
  For `PickupsAddUp`, the sums of `MapThenSumSet` are defined by recursion over a
  set, and the library's induction on sets has an operator as a parameter. The proof
  does without: by `SmallestSubset` a set of subsets that is not empty has a least
  one, and each fact about sums is shown for the least subset that would refute it.
  `SumTake` (any element may be the first) and `SumByClass` (a sum may be taken
  class by class) give `PickupCountsNights`: the left join pairs each night on the
  books with one night at most, as a reservation has one row for a night
  (`RowsAreCountable`), and grouping only divides the pairs. `PickupInv` carries
  this through the job: no line yet of the periods to come, a right count of the
  others.
- **LoadTest.** `BatchStored`: what is about to be deleted or counted is stored.
  `CountBehind`: the count is at most the number of events seen, all of them stored.
  A count of `Total` then means that every event has been seen. `NothingLost` is
  part of the invariant: what leaves the queue is stored or in the DLQ until
  `CleanUp`, and `ReturnedStored` says of a run that returned that all is stored,
  so that its queues may go; a run that failed may lose what they held.
- **Resolve.** All that is done for an event is a function of it, for lists of changes
  of any length. `MessageInv` and `ParsedInv`: what was read has the identity of the
  event, and the times that either parser can give it (`TimesRead`). `OneRoute` and `OneRequest`: of the routes, at most one fits, so that
  `Asks` gives one request at most. `AskedInv` and `KeysInv`: what is asked for is that
  request, and what was written is under its identifier, under the one the answer
  gives for it (`NameOf`), or under `None`. `RowKeysMeet` is where the transformers
  are looked into; the two identifiers differ for a confirmation number only.
  `FromDetailsNames` says which change is taken: one that has a name looked for and
  a value, whenever there is one.

Model-checked only: liveness (`EverythingLeaves`, `EveryEventPublished`, `CallsEnd`,
`RunEnds`), which is out of the reach of the installed provers, and that the system
does not deadlock, which is a matter of `ENABLED`. The three violated properties are
refuted by their runs.

## Not modelled, and why

- Websocket framing, heartbeats, GraphQL texts, JSON, HTTP headers, URLs. The
  handshake awaits an acknowledgement without a timeout of its own
  (`graphql.py:115`); the listener's liveness supposes that OHIP answers.
- The deduplication window of SQS: `Publish` is idempotent in Listener (a set), and
  Ledger delivers any event that has happened any number of times, so both sides
  are checked without relying on it.
- `RETRYABLE`, which the status constraint admits and no code writes.
- A query file and a missing DLQ are constants (`CustomQuery`, `DlqConfigured`) that
  no passing run sets that way. Folios are covered by the theorems of Ledger and by
  no run.
- ADR, which is a division, and the amounts, which follow `rooms`.
- The sequential form of the load test, its timings, monitor and report.
- Configuration and secrets are read once at the start; health, metrics and logs
  change nothing that a property is about. Terraform appears in the constants.
  The remaining scripts draw diagrams.

What the models show and no property asks for, because no document says what should
happen:

- an event without a timestamp gets the date of its first change that is called like
  one (`creationDate`), so that its upsert may be refused by an older event's row, and
  without such a date occurs anew at every delivery (`TimeKept` leaves both open);
- an event that names two hotels is ordered under one and registered under the other
  (`SameIdentity` excepts it);
- for an event that names a confirmation number only, the row is written under the
  `reservationId` of the answer, payload and deletion mark under the
  confirmation number: the mark makes a row of its own and the reservation stays; an
  answer whose list has an element without an id makes a row called `None`
  (`KeysMeet` excepts both), and an empty list raises;
- a load test that fails deletes its queue and its DLQ, and with them the events that
  it has not stored and a reader of the DLQ would look for (`NothingLost` ends there);
- no upsert clears `deleted_at`, and two events with one timestamp overwrite each
  other;
- a reservation leaves the snapshot on its day of departure, a backfill does not
  refresh the pickups of later dates, and cancellations do not lower a pickup.

`Analytics` supposes that no two jobs of one date overlap, as EventBridge starts one
a day.

## What could come next

A composition of Listener and Delivery in one specification (what the stream
announces reaches the ledger or the DLQ), for which `Channel` and `Projection` are the
interfaces, and the sequential form of the load test.
