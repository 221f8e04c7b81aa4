------------------------------ MODULE Analytics ------------------------------
(***************************************************************************)
(* The daily snapshot job (analytics_snapshot.py) over the tables that the  *)
(* enrichers keep writing (opera_core.reservation, opera_raw).              *)
(*                                                                         *)
(* A job is one transaction for one snapshot date.  It replaces the nights  *)
(* of that date (daily), the last status of every reservation (last) and    *)
(* the pickups (pickup), one statement after the other; each statement      *)
(* reads what is committed when it runs (READ COMMITTED) and what the job    *)
(* itself has written.  Jobs of different dates may run at the same time, a *)
(* backfill (ANALYTICS_SNAPSHOT_DATE) beside the scheduled one; no two jobs  *)
(* of one date do (EventBridge starts one a day).                           *)
(***************************************************************************)
EXTENDS Integers, FiniteSetsExt

CONSTANTS
    Reservations,
    Bookings,     \* what OPERA may say of one: arrival, departure, status, rooms, market
    NoBooking,    \* the row of a deletion that came first, or no payload
    NoRow,        \* the right side of a left join without a match
    Dates,        \* snapshot dates
    Horizon,      \* analytics_stay_horizon_days
    PickupDays,   \* analytics_pickup_days
    MaxChanges,   \* bound: changes of the reservations
    MaxJobs       \* bound: jobs

ASSUME AnalyticsAssumption ==
    /\ \A b \in Bookings : {b.arrival, b.departure, b.rooms} \subseteq Int
    /\ IsFiniteSet(Reservations)
    /\ Dates \subseteq Int
    /\ {Horizon, MaxChanges, MaxJobs} \subseteq Nat
    /\ PickupDays \subseteq Nat \ {0}
    /\ NoBooking \notin Bookings

VARIABLES
    core,      \* opera_core.reservation of each reservation
    deleted,   \* the reservations whose row has deleted_at
    raw,       \* its last payload in opera_raw.resource_snapshot
    tables,    \* opera_analytics: what is committed for each date
    work,      \* what the transaction of a job has written
    stage,     \* the last statement each job has run
    pending,   \* the pickup periods a job has still to compute
    changes,   \* changes so far
    jobs       \* jobs so far

source == <<core, deleted, raw, changes>>
vars == <<source, tables, work, stage, pending, jobs>>

Stages == {"idle", "built", "refreshed"}

\* The tables of one date, and the history variable picture: the reservations as
\* they were when its nights were read.
Empty == [daily |-> {}, last |-> {}, pickup |-> {},
          picture |-> [core |-> [r \in Reservations |-> NoBooking],
                       raw |-> [r \in Reservations |-> NoBooking], deleted |-> {}]]

Init ==
    /\ core = [r \in Reservations |-> NoBooking]
    /\ deleted = {}
    /\ raw = [r \in Reservations |-> NoBooking]
    /\ tables = [d \in Dates |-> Empty]
    /\ work = [d \in Dates |-> Empty]
    /\ stage = [d \in Dates |-> "idle"]
    /\ pending = [d \in Dates |-> {}]
    /\ changes = 0
    /\ jobs = 0

-----------------------------------------------------------------------------
(* The enrichers (Ledger has the detail).                                  *)

\* An event is enriched: the payload is stored, and the row unless a later event
\* has written it.  Nothing clears deleted_at.
Enrich(r, b) ==
    /\ changes < MaxChanges
    /\ changes' = changes + 1
    /\ raw' = [raw EXCEPT ![r] = b]
    /\ core' \in {core, [core EXCEPT ![r] = b]}
    /\ UNCHANGED <<deleted, tables, work, stage, pending, jobs>>

\* A deletion stores a marker, and marks the row, which it creates if need be, unless
\* a later event has written it (mark_resource_deleted).
Delete(r) ==
    /\ changes < MaxChanges
    /\ changes' = changes + 1
    /\ deleted' \in {deleted, deleted \cup {r}}
    /\ raw' = [raw EXCEPT ![r] = NoBooking]
    /\ UNCHANGED <<core, tables, work, stage, pending, jobs>>

-----------------------------------------------------------------------------
(* _build_daily_snapshot.                                                  *)

\* Variant: the nights before the snapshot date are kept too.
AllNights(b, d) == b.arrival .. b.departure - 1

\* transform: the nights of a booking from the snapshot date on.
Nights(b, d) == {n \in b.arrival .. b.departure - 1 : n >= d}

\* The SELECT: departure and arrival are compared, and NULL dates fail.
Selected(src, d) ==
    {r \in Reservations :
        /\ src.core[r] # NoBooking
        /\ src.core[r].departure >= d
        /\ src.core[r].arrival <= d + Horizon}

\* _snapshot_row: the status is that of the row, rooms (they stand for the
\* amounts) and market (for the five segments) come from the payload, with 1 and
\* UNMAPPED for what it lacks.
Night(src, r, n) ==
    [reservation |-> r, stay |-> n, status |-> src.core[r].status,
     deleted |-> r \in src.deleted,
     rooms   |-> IF src.raw[r] = NoBooking THEN 1 ELSE src.raw[r].rooms,
     market  |-> IF src.raw[r] = NoBooking THEN "UNMAPPED" ELSE src.raw[r].market]

Rows(src, d) ==
    UNION {{Night(src, r, n) : n \in Nights(src.core[r], d)} : r \in Selected(src, d)}

\* INSERT ... ON CONFLICT (snapshot_date, hotel_id, stay_date, reservation_id).
Upserted(rows, new) ==
    new \cup {o \in rows : \A t \in new : <<t.reservation, t.stay>> # <<o.reservation, o.stay>>}

\* Variant: the nights of an earlier job for the date are left where they are.
KeepNights(rows) == rows

\* DELETE ... WHERE snapshot_date = %s
DeleteNights(rows) == {}

\* The job begins: DELETE, SELECT and INSERTs.
Build(d) ==
    /\ stage[d] = "idle"
    /\ jobs < MaxJobs
    /\ jobs' = jobs + 1
    /\ LET src == [core |-> core, raw |-> raw, deleted |-> deleted]
       IN work' = [work EXCEPT ![d] =
              [tables[d] EXCEPT !.daily = Upserted(DeleteNights(@), Rows(src, d)),
                                !.picture = src]]
    /\ stage' = [stage EXCEPT ![d] = "built"]
    /\ UNCHANGED <<source, tables, pending>>

-----------------------------------------------------------------------------
(* _refresh_last_status.                                                   *)

\* A reservation in one row, that of its earliest night; its stay goes from its
\* first night in the snapshot to the day after the last.
LastOf(rows, r) ==
    LET own   == {t \in rows : t.reservation = r}
        first == CHOOSE t \in own : \A u \in own : t.stay <= u.stay
        final == CHOOSE t \in own : \A u \in own : u.stay <= t.stay
    IN [reservation |-> r, arrival |-> first.stay, departure |-> final.stay + 1,
        status |-> IF first.deleted THEN "DELETED" ELSE first.status]

LastStatus(rows) == {LastOf(rows, r) : r \in {t.reservation : t \in rows}}

RefreshLastStatus(d) ==
    /\ stage[d] = "built"
    /\ work' = [work EXCEPT ![d].last = LastStatus(work[d].daily), ![d].pickup = {}]
    /\ stage' = [stage EXCEPT ![d] = "refreshed"]
    /\ pending' = [pending EXCEPT ![d] = PickupDays]
    /\ UNCHANGED <<source, tables, jobs>>

-----------------------------------------------------------------------------
(* _refresh_pickups.                                                       *)

\* Deleted, cancelled and no-show nights are not on the books.
OnBooks(rows) == {t \in rows : ~t.deleted /\ t.status \notin {"CANCELLED", "NO_SHOW"}}

\* Variant: a night is compared with every night of its reservation.
SameReservation(t, o) == o.reservation = t.reservation

\* The join condition.
SameNight(t, o) == o.reservation = t.reservation /\ o.stay = t.stay

\* today LEFT JOIN old.
Joined(rows, old) ==
    UNION {LET match == {o \in OnBooks(old) : SameNight(t, o)}
           IN {<<t, o>> : o \in IF match = {} THEN {NoRow} ELSE match} : t \in OnBooks(rows)}

\* SUM(today.rooms) and SUM(old.rooms).
TodayRooms(pairs) == MapThenSumSet(LAMBDA p : p[1].rooms, pairs)
OldRooms(pairs) == MapThenSumSet(LAMBDA p : IF p[2] = NoRow THEN 0 ELSE p[2].rooms, pairs)

\* GROUP BY: one line per night and segment.
Pickups(rows, old, days) ==
    {LET group == {p \in Joined(rows, old) : p[1].stay = t.stay /\ p[1].market = t.market}
     IN [days |-> days, stay |-> t.stay, market |-> t.market,
         rooms |-> TodayRooms(group), previous |-> OldRooms(group)]
     : t \in OnBooks(rows)}

\* One INSERT per period, which reads the nights of the earlier date as they are
\* committed then, or none.
RefreshPickup(d, days) ==
    /\ stage[d] = "refreshed" /\ days \in pending[d]
    /\ LET old == IF d - days \in Dates THEN tables[d - days].daily ELSE {}
       IN work' = [work EXCEPT ![d].pickup = @ \cup Pickups(work[d].daily, old, days)]
    /\ pending' = [pending EXCEPT ![d] = @ \ {days}]
    /\ UNCHANGED <<source, tables, stage, jobs>>

-----------------------------------------------------------------------------
\* The job is over, and its workspace gone.
End(d) ==
    /\ work' = [work EXCEPT ![d] = Empty]
    /\ stage' = [stage EXCEPT ![d] = "idle"]
    /\ pending' = [pending EXCEPT ![d] = {}]
    /\ UNCHANGED <<source, jobs>>

Commit(d) ==
    /\ stage[d] = "refreshed" /\ pending[d] = {}
    /\ tables' = [tables EXCEPT ![d] = work[d]]
    /\ End(d)

\* Variant: what was written before the error stays.
KeepPart(d) ==
    /\ stage[d] # "idle"
    /\ tables' = [tables EXCEPT ![d] = work[d]]
    /\ End(d)

\* An error, or the death of the job: the transaction is rolled back.
Rollback(d) ==
    /\ stage[d] # "idle"
    /\ End(d)
    /\ UNCHANGED tables

Job(d) ==
    \/ Build(d) \/ RefreshLastStatus(d)
    \/ \E days \in PickupDays : RefreshPickup(d, days)
    \/ Commit(d) \/ Rollback(d)

\* No job runs, until the next day.
Idle ==
    /\ \A d \in Dates : stage[d] = "idle"
    /\ UNCHANGED vars

Next ==
    \/ \E r \in Reservations, b \in Bookings : Enrich(r, b)
    \/ \E r \in Reservations : Delete(r)
    \/ \E d \in Dates : Job(d)
    \/ Idle

Spec == Init /\ [][Next]_vars

-----------------------------------------------------------------------------
(* Properties.                                                             *)

NightsOf(d, r) == {t \in tables[d].daily : t.reservation = r}

\* Every snapshot has nights from its date on, whatever stays began before it.
TypeOK ==
    /\ core \in [Reservations -> Bookings \cup {NoBooking}]
    /\ raw \in [Reservations -> Bookings \cup {NoBooking}]
    /\ deleted \subseteq Reservations
    /\ stage \in [Dates -> Stages]
    /\ pending \in [Dates -> SUBSET PickupDays]
    /\ changes \in 0..MaxChanges
    /\ jobs \in 0..MaxJobs
    /\ DOMAIN tables = Dates /\ DOMAIN work = Dates
    /\ \A d \in Dates : \A t \in tables[d].daily \cup work[d].daily :
          t.reservation \in Reservations /\ t.stay \in Int /\ t.stay >= d

\* The nights of a date are those of the reservations as they were at one moment:
\* a job that is run again for the date leaves no night of a stay that has become
\* shorter, moved or been replaced since, and a job that fails leaves all as it
\* was (_build_daily_snapshot, run).
OnePicture ==
    \A d \in Dates : tables[d].daily = Rows(tables[d].picture, d)

\* "una fila unica por reserva con el ultimo estado conocido en el snapshot
\* diario" (docs/analytics-last-status.md): the report and the nights of a date
\* come from one job, cancelled and deleted reservations included; the nights of
\* a reservation fill the stay of its row and have its status.
LastStatusAgrees ==
    \A d \in Dates :
        /\ {l.reservation : l \in tables[d].last} = {t.reservation : t \in tables[d].daily}
        /\ \A l, m \in tables[d].last : l.reservation = m.reservation => l = m
        /\ \A l \in tables[d].last :
              /\ {t.stay : t \in NightsOf(d, l.reservation)} = l.arrival .. l.departure - 1
              /\ \A t \in NightsOf(d, l.reservation) :
                    l.status = IF t.deleted THEN "DELETED" ELSE t.status

Rooms(rows) == MapThenSumSet(LAMBDA t : t.rooms, rows)

\* Every period counts the rooms on the books of the same nights, each once,
\* whatever the snapshot that they are compared with holds, and although that one
\* may be replaced while the job runs (_refresh_pickups, the left join).
PickupsAddUp ==
    \A d \in Dates, days \in PickupDays :
        Rooms({p \in tables[d].pickup : p.days = days}) = Rooms(OnBooks(tables[d].daily))

\* "Llegadas del dia por ultimo estado": WHERE snapshot_date = CURRENT_DATE AND
\* arrival_date = CURRENT_DATE (docs/analytics-last-status.md): a reservation
\* that the report has arriving on its date does arrive then
\* (_refresh_last_status, MIN(stay_date)).
ArrivalIsReal ==
    \A d \in Dates : \A l \in tables[d].last :
        l.arrival = d => tables[d].picture.core[l.reservation].arrival = d
=============================================================================
