-------------------------------- MODULE Ledger --------------------------------
(***************************************************************************)
(* The enrichment service and the PostgreSQL ledger it writes              *)
(* (enrichment_service.py, enrichment_repositories.py, migrations 002 and  *)
(* 006).  A worker is one delivery of an SQS message being enriched: it    *)
(* reads the resource from the OHIP Property API, waits for the answer,    *)
(* and then runs one transaction over opera_events.event (status),         *)
(* opera_raw.resource_snapshot (raw) and the opera_core row of the         *)
(* resource (core).                                                        *)
(*                                                                         *)
(* Workers belong to different enricher processes, so that their           *)
(* transactions interleave under READ COMMITTED.  The same event may be in *)
(* the hands of several workers: a visibility timeout, a new publication   *)
(* after the deduplication window or a redrive delivers it again.          *)
(*                                                                         *)
(* Everything a transaction writes stays locked until it ends, so its      *)
(* writes are one step, the commit.  What it READS is a step of its own:   *)
(* register_event reads the status before the other rows are locked.       *)
(***************************************************************************)
EXTENDS Integers, FiniteSets

CONSTANTS
    Workers,      \* deliveries that can be enriched at the same time
    Events,       \* business events, by unique_event_id
    Resources,    \* opera_core rows: a reservation, a profile, a folio ...
    NoEvent,      \* the last_event_id of a row that does not exist
    ResourceOf,   \* the row that the route and the identifier of an event name
    OccurredAt,   \* the timestamp of an event
    OffsetOf,     \* its (chain_code, stream_offset), 0 when one of them is missing
    Destructive,  \* the events for which is_delete_or_cancel holds
    Unroutable,   \* the events without a route or without an identifier
    Folios        \* the resources that are rows of opera_core.folio

ASSUME LedgerAssumption ==
    /\ NoEvent \notin Events
    /\ ResourceOf \in [Events -> Resources]
    /\ OccurredAt \in [Events -> Nat]
    /\ OffsetOf \in [Events -> Nat]
    /\ Destructive \subseteq Events
    /\ Unroutable \subseteq Events
    /\ Folios \subseteq Resources

VARIABLES
    rank,     \* OHIP: the version of its resource an event announced, 0 before
    version,  \* OHIP: the current version of each resource
    live,     \* OHIP: whether the resource can be read at all
    status,   \* opera_events.event.status, "NONE" when there is no row
    raw,      \* opera_raw.resource_snapshot of each event
    core,     \* the opera_core row of each resource
    pc,       \* what each worker is about to do
    event,    \* the event each worker holds
    fetched,  \* the version in the response each worker holds
    seen      \* the status register_event returned, "NONE" outside a transaction

api     == <<rank, version, live>>
db      == <<status, raw, core>>
workers == <<pc, event, fetched, seen>>
vars    == <<rank, version, live, status, raw, core, pc, event, fetched, seen>>

Committed == {"NONE", "FAILED", "COMPLETED", "DELETED"}

TypeOK ==
    /\ rank \in [Events -> Nat]
    /\ version \in [Resources -> Nat]
    /\ live \in [Resources -> BOOLEAN]
    /\ status \in [Events -> Committed]
    /\ raw \in [Events -> [kind : {"none", "payload", "marker"}, version : Nat]]
    /\ core \in [Resources -> [version : Nat,
                               writer : Events \cup {NoEvent},
                               deleted : BOOLEAN]]
    /\ pc \in [Workers -> {"idle", "fetch", "persist", "delete", "fail"}]
    /\ event \in [Workers -> Events \cup {NoEvent}]
    /\ \A w \in Workers : pc[w] # "idle" => event[w] \in Events
    /\ fetched \in [Workers -> Nat]
    /\ seen \in [Workers -> Committed \cup {"RECEIVED"}]

Init ==
    /\ rank = [e \in Events |-> 0]
    /\ version = [r \in Resources |-> 0]
    /\ live = [r \in Resources |-> FALSE]
    /\ status = [e \in Events |-> "NONE"]
    /\ raw = [e \in Events |-> [kind |-> "none", version |-> 0]]
    /\ core = [r \in Resources |-> [version |-> 0, writer |-> NoEvent, deleted |-> FALSE]]
    /\ pc = [w \in Workers |-> "idle"]
    /\ event = [w \in Workers |-> NoEvent]
    /\ fetched = [w \in Workers |-> 0]
    /\ seen = [w \in Workers |-> "NONE"]

-----------------------------------------------------------------------------
(* The world: OHIP changes resources and announces each change.            *)

Emitted(e) == rank[e] > 0

\* OHIP changes a resource and emits the event of the change.  The events of a
\* resource are emitted in the order of their timestamps.  A destructive event
\* may leave the resource readable: a cancelled reservation usually is.
Emit(e) ==
    LET r == ResourceOf[e] IN
    /\ ~Emitted(e)
    /\ \A f \in Events :
          ResourceOf[f] = r /\ OccurredAt[f] < OccurredAt[e] => Emitted(f)
    /\ version' = [version EXCEPT ![r] = @ + 1]
    /\ rank' = [rank EXCEPT ![e] = version[r] + 1]
    /\ \E readable \in (IF e \in Destructive THEN BOOLEAN ELSE {TRUE}) :
          live' = [live EXCEPT ![r] = readable]
    /\ UNCHANGED <<db, workers>>

-----------------------------------------------------------------------------
(* Enriching one delivery.                                                 *)

\* A worker becomes free: the delivery is over, or its process died and
\* PostgreSQL rolled its transaction back.
Release(w) ==
    /\ pc' = [pc EXCEPT ![w] = "idle"]
    /\ event' = [event EXCEPT ![w] = NoEvent]
    /\ fetched' = [fetched EXCEPT ![w] = 0]
    /\ seen' = [seen EXCEPT ![w] = "NONE"]

\* SQS delivers an event; enrich starts.
Deliver(w, e) ==
    /\ pc[w] = "idle"
    /\ Emitted(e)
    /\ pc' = [pc EXCEPT ![w] = "fetch"]
    /\ event' = [event EXCEPT ![w] = e]
    /\ UNCHANGED <<api, db, fetched, seen>>

\* route_for finds no route, or the resolver no identifier: a poison event.
Unresolvable(w) ==
    /\ pc[w] = "fetch"
    /\ event[w] \in Unroutable
    /\ pc' = [pc EXCEPT ![w] = "fail"]
    /\ UNCHANGED <<api, db, event, fetched, seen>>

\* RetryClassifier.classify_http, with the success of the request before it.
\* 500 stands for every 5xx, 403 for every code without a rule.
Decision(code, e) ==
    CASE code = 200                             -> "persist"
      [] code = 404 /\ e \in Destructive        -> "delete"
      [] code \in {401, 429, 500}               -> "retry"
      [] OTHER                                  -> "fail"

Answers(r) == IF live[r] THEN {200, 400, 401, 403, 429, 500}
                         ELSE {400, 401, 403, 404, 429, 500}

\* The OHIP Property API answers with the state of the resource at this moment.
\* A retryable answer gives the delivery up and leaves the message to SQS.
Fetch(w) ==
    LET r == ResourceOf[event[w]] IN
    /\ pc[w] = "fetch"
    /\ event[w] \notin Unroutable
    /\ \E code \in Answers(r) :
          LET decision == Decision(code, event[w]) IN
          IF decision = "retry"
             THEN Release(w)
             ELSE /\ pc' = [pc EXCEPT ![w] = decision]
                  /\ fetched' = [fetched EXCEPT ![w] = version[r]]
                  /\ UNCHANGED <<event, seen>>
    /\ UNCHANGED <<api, db>>

\* The rows an INSERT of e conflicts with: its own, and the one that has taken
\* its (chain_code, stream_offset).
Twins(e, f) == OffsetOf[e] = OffsetOf[f] /\ OffsetOf[e] > 0
Collides(e, f) == e = f \/ Twins(e, f)

\* A worker that has inserted its event row and not committed yet.
Inserting(w) == seen[w] = "RECEIVED"

\* Variant: no unique index on (chain_code, stream_offset).
RegisteredStatusByEventId(e) == IF status[e] # "NONE" THEN {status[e]} ELSE {"RECEIVED"}

\* The status register_event selects: of the event's own row if there is one,
\* else of the row that has its offset, else of the row it just inserted.
RegisteredStatus(e) ==
    IF status[e] # "NONE" THEN {status[e]}
    ELSE LET twins == {f \in Events : Twins(e, f) /\ status[f] # "NONE"} IN
         IF twins # {} THEN {status[f] : f \in twins} ELSE {"RECEIVED"}

\* register_event: INSERT ... ON CONFLICT DO NOTHING waits for another
\* transaction that is inserting the same row; the SELECT after it reads what
\* is committed by then and locks nothing.
Register(w) ==
    /\ pc[w] \in {"persist", "delete", "fail"}
    /\ seen[w] = "NONE"
    /\ \A u \in Workers \ {w} : Inserting(u) => ~Collides(event[w], event[u])
    /\ \E s \in RegisteredStatus(event[w]) : seen' = [seen EXCEPT ![w] = s]
    /\ UNCHANGED <<api, db, pc, event, fetched>>

InTransaction(w) == seen[w] # "NONE"

\* The worker's event has a row its UPDATEs and its foreign keys can find.
HasRow(w) == Inserting(w) \/ status[event[w]] # "NONE"

\* Variant: an upsert without its WHERE clause.
AlwaysNewer(r, e) == TRUE

\* The WHERE clause of every opera_core upsert: last_event_at IS NULL or not
\* later than the event's.
NotOlder(r, e) ==
    \/ core[r].writer = NoEvent
    \/ OccurredAt[core[r].writer] <= OccurredAt[e]

\* _persist and _mark_deleted return early for a COMPLETED event.
Deduplicates(w) == seen[w] = "COMPLETED"

Deduplicate(w) ==
    /\ pc[w] \in {"persist", "delete"}
    /\ InTransaction(w)
    /\ Deduplicates(w)
    /\ Release(w)
    /\ UNCHANGED <<api, db>>

\* Variant: ON CONFLICT DO UPDATE forgets a column.
UpsertedInPart(row, e, v) == [row EXCEPT !.writer = e]

\* The core row after an upsert: deleted_at is not among the updated columns.
Upserted(row, e, v) == [version |-> v, writer |-> e, deleted |-> row.deleted]

\* Whether the transformer finds the row of r in a response: always, except
\* that the folios of a reservation are those the response lists.
Listed(r) == IF r \in Folios THEN BOOLEAN ELSE {TRUE}

\* _persist: raw snapshot, guarded upsert of the core row, COMPLETED, commit.
\* Without a row of its own for the event the foreign key of the snapshot
\* fails, and the transaction ends in Abort instead.
Persist(w) ==
    LET e == event[w]
        r == ResourceOf[event[w]] IN
    /\ pc[w] = "persist"
    /\ InTransaction(w)
    /\ ~Deduplicates(w)
    /\ HasRow(w)
    /\ raw' = [raw EXCEPT ![e] = [kind |-> "payload", version |-> fetched[w]]]
    /\ \E listed \in Listed(r) :
          core' = IF listed /\ NotOlder(r, e)
                     THEN [core EXCEPT ![r] = Upserted(@, e, fetched[w])]
                     ELSE core
    /\ status' = [status EXCEPT ![e] = "COMPLETED"]
    /\ Release(w)
    /\ UNCHANGED api

\* Variant: mark_resource_deleted leaves last_event_id and last_event_at alone.
TombstoneOnly(row, e) == [row EXCEPT !.deleted = TRUE]

\* The core row after mark_resource_deleted: its other columns stay.
Tombstone(row, e) == [version |-> row.version, writer |-> e, deleted |-> TRUE]

\* _mark_deleted: marker as raw snapshot, guarded deleted_at (a folio names no
\* row), DELETED, commit.
MarkDeleted(w) ==
    LET e == event[w]
        r == ResourceOf[event[w]] IN
    /\ pc[w] = "delete"
    /\ InTransaction(w)
    /\ ~Deduplicates(w)
    /\ HasRow(w)
    /\ raw' = [raw EXCEPT ![e] = [kind |-> "marker", version |-> fetched[w]]]
    /\ core' = IF r \notin Folios /\ NotOlder(r, e)
                  THEN [core EXCEPT ![r] = Tombstone(@, e)]
                  ELSE core
    /\ status' = [status EXCEPT ![e] = "DELETED"]
    /\ Release(w)
    /\ UNCHANGED api

\* Variant: mark_failed registers the event and forgets its UPDATE.
MarkFailedOnlyRegisters(w) ==
    /\ pc[w] = "fail"
    /\ InTransaction(w)
    /\ status' = IF Inserting(w) THEN [status EXCEPT ![event[w]] = "RECEIVED"] ELSE status
    /\ Release(w)
    /\ UNCHANGED <<api, raw, core>>

\* mark_failed: the status register_event returned is ignored; the UPDATE finds
\* no row when another event has taken the offset.
MarkFailed(w) ==
    /\ pc[w] = "fail"
    /\ InTransaction(w)
    /\ status' = IF HasRow(w) THEN [status EXCEPT ![event[w]] = "FAILED"] ELSE status
    /\ Release(w)
    /\ UNCHANGED <<api, raw, core>>

\* Variant: the repository commits each statement by itself, so that a process
\* that dies leaves a row without a finished event.
AbortHalfway(w) ==
    LET r == ResourceOf[event[w]] IN
    /\ pc[w] = "persist" /\ InTransaction(w) /\ HasRow(w) /\ NotOlder(r, event[w])
    /\ core' = [core EXCEPT ![r] = Upserted(@, event[w], fetched[w])]
    /\ Release(w)
    /\ UNCHANGED <<api, status, raw>>

\* An exception, a lost connection, a killed process: nothing is committed.
Abort(w) ==
    /\ pc[w] # "idle"
    /\ Release(w)
    /\ UNCHANGED <<api, db>>

Work(w) ==
    \/ Unresolvable(w) \/ Fetch(w) \/ Register(w)
    \/ Deduplicate(w) \/ Persist(w) \/ MarkDeleted(w) \/ MarkFailed(w)
    \/ Abort(w)

Next ==
    \/ \E e \in Events : Emit(e)
    \/ \E w \in Workers, e \in Events : Deliver(w, e)
    \/ \E w \in Workers : Work(w)

Spec == Init /\ [][Next]_vars

-----------------------------------------------------------------------------
(* Properties.                                                             *)

\* No two events of a resource carry the same timestamp.
DistinctTimes ==
    \A e, f \in Events :
        ResourceOf[e] = ResourceOf[f] /\ OccurredAt[e] = OccurredAt[f] => e = f

\* Every event committed as COMPLETED is reflected in opera_core (a folio's may
\* not be: the response need not list the folio): its row was
\* last written for this or a later event, and holds a version at least as
\* recent as the change the event announced, unless the last write only marked
\* the row as deleted (_persist, the WHERE clause of the upserts).  It fails if
\* any order of redeliveries, aborts and transactions lets an old response win.
CompletedIsReflected ==
    \A e \in Events : status[e] = "COMPLETED" /\ ResourceOf[e] \notin Folios =>
        LET row == core[ResourceOf[e]] IN
        /\ row.writer # NoEvent
        /\ rank[row.writer] >= rank[e]
        /\ row.version >= rank[e] \/ raw[row.writer].kind = "marker"

\* The same for DELETED, except for folios, whose deletion writes no row
\* (_mark_deleted, mark_resource_deleted).
DeletedIsReflected ==
    \A e \in Events : status[e] = "DELETED" /\ ResourceOf[e] \notin Folios =>
        LET row == core[ResourceOf[e]] IN
        /\ row.writer # NoEvent
        /\ rank[row.writer] >= rank[e]

\* The three schemas agree: the event that a row names has a snapshot, an event
\* with a snapshot has a status, and the row holds exactly what that snapshot
\* holds, whatever happened since to either (one transaction over the three of
\* them, README.md "Procesamiento transaccional").  A folio's snapshot may have
\* been replaced by a response that does not list the folio.
SchemasAgree ==
    /\ \A e \in Events : raw[e].kind # "none" => status[e] # "NONE"
    /\ \A r \in Resources :
          LET e == core[r].writer IN
          e # NoEvent =>
             /\ raw[e].kind # "none"
             /\ r \in Folios \/ IF raw[e].kind = "payload"
                                  THEN core[r].version = raw[e].version
                                  ELSE core[r].deleted

\* At most one event per (chain_code, stream_offset) is ever registered: the
\* second one is never given a status, a snapshot or a row (register_event, index
\* opera_event_chain_offset_uk).
OneEventPerOffset ==
    \A e, f \in Events :
        status[e] # "NONE" /\ status[f] # "NONE" /\ Twins(e, f) => e = f

\* "Los UPSERT evitan que un evento antiguo sobrescriba una version mas reciente
\* usando last_event_at" (README.md): no step replaces what an event wrote in a
\* core row by what an event emitted before it writes.
OlderEventNeverOverwrites ==
    [][\A r \in Resources :
          core[r].writer # NoEvent /\ core'[r] # core[r]
             => rank[core'[r].writer] >= rank[core[r].writer]]_vars

\* The abstract view of the ledger: the rows of opera_core and the finished events.
Reader == INSTANCE Projection WITH
    latest   <- [r \in Resources |-> core[r].writer],
    shown    <- [r \in Resources |-> core[r].version],
    gone     <- {r \in Resources : core[r].deleted},
    finished <- {e \in Events : status[e] \in {"COMPLETED", "DELETED"}}

\* "`opera_raw`, `opera_core` y el cambio de estado del evento se guardan dentro
\* de la misma transaccion" (README.md): whatever workers, answers and aborted
\* transactions are involved, a reader of opera_core and of the status sees the
\* steps of Projection: a row and the status of its event change together, a row
\* never goes back to an earlier event, and what it shows is not older than the
\* event it names.
ImplementsProjection == Reader!Spec

\* "Si el evento ya esta COMPLETED, borra el mensaje de SQS sin reprocesar"
\* (README.md): a later delivery never takes COMPLETED back.
CompletedIsFinal ==
    [][\A e \in Events : status[e] = "COMPLETED" => status'[e] = "COMPLETED"]_vars
=============================================================================
