---------------------------- MODULE Analytics_proofs ----------------------------
(***************************************************************************)
(* The daily snapshot, for any number of reservations, bookings, dates and  *)
(* jobs: what is committed for a date was computed from one state of the     *)
(* reservations, and the report of the last status from those same nights.  *)
(* The invariant carries both through the workspace of a running job.       *)
(***************************************************************************)
EXTENDS Analytics, FiniteSetTheorems, WellFoundedInduction, TLAPS

\* The tables of a date, committed or not, are a record with these fields.
IsTables(t) ==
    t = [daily |-> t.daily, last |-> t.last, pickup |-> t.pickup, picture |-> t.picture]

\* Nights that come from one picture; a report that comes from those nights.
Pictured(t, d) == t.daily = Rows(t.picture, d)
Reported(t)    == t.last = LastStatus(t.daily)

SnapshotInv ==
    /\ tables = [d \in Dates |-> tables[d]]
    /\ work = [d \in Dates |-> work[d]]
    /\ stage \in [Dates -> Stages]
    /\ \A d \in Dates :
          /\ IsTables(tables[d]) /\ IsTables(work[d])
          /\ Pictured(tables[d], d) /\ Reported(tables[d])
          /\ Pictured(work[d], d)
          /\ stage[d] = "refreshed" => Reported(work[d])

\* Without rows there are no nights and no report.
LEMMA NothingYet ==
    /\ IsTables(Empty)
    /\ \A d : Pictured(Empty, d)
    /\ Reported(Empty)
<1>1. IsTables(Empty)
  BY DEF IsTables, Empty
<1>2. ASSUME NEW d PROVE Pictured(Empty, d)
  <2>1. Selected(Empty.picture, d) = {}
    BY DEF Selected, Empty
  <2>2. Rows(Empty.picture, d) = {}
    BY <2>1 DEF Rows
  <2>3. QED BY <2>2 DEF Pictured, Empty
<1>3. Reported(Empty)
  BY DEF Reported, LastStatus, Empty
<1>4. QED BY <1>1, <1>2, <1>3

\* DELETE and INSERT leave the new rows alone.
LEMMA Replaced ==
    ASSUME NEW rows, NEW new
    PROVE  Upserted(DeleteNights(rows), new) = new
  BY DEF Upserted, DeleteNights

\* What EXCEPT does to the tables of a date, field by field.
LEMMA TwoFields ==
    ASSUME NEW t, IsTables(t), NEW x, NEW y
    PROVE  /\ [t EXCEPT !.daily = x, !.picture = y]
                  = [daily |-> x, last |-> t.last, pickup |-> t.pickup, picture |-> y]
           /\ [t EXCEPT !.last = x, !.pickup = y]
                  = [daily |-> t.daily, last |-> x, pickup |-> y, picture |-> t.picture]
<1>1. [t EXCEPT !.daily = x, !.picture = y] = [[t EXCEPT !.daily = x] EXCEPT !.picture = y]
  OBVIOUS
<1>2. [t EXCEPT !.last = x, !.pickup = y] = [[t EXCEPT !.last = x] EXCEPT !.pickup = y]
  OBVIOUS
<1>3. [t EXCEPT !.daily = x]
         = [daily |-> x, last |-> t.last, pickup |-> t.pickup, picture |-> t.picture]
  BY DEF IsTables
<1>4. [t EXCEPT !.last = x]
         = [daily |-> t.daily, last |-> x, pickup |-> t.pickup, picture |-> t.picture]
  BY DEF IsTables
<1>5. ASSUME NEW u, u = [daily |-> x, last |-> t.last, pickup |-> t.pickup, picture |-> t.picture]
      PROVE  [u EXCEPT !.picture = y]
                = [daily |-> x, last |-> t.last, pickup |-> t.pickup, picture |-> y]
  BY <1>5
<1>6. ASSUME NEW u, u = [daily |-> t.daily, last |-> x, pickup |-> t.pickup, picture |-> t.picture]
      PROVE  [u EXCEPT !.pickup = y]
                = [daily |-> t.daily, last |-> x, pickup |-> y, picture |-> t.picture]
  BY <1>6
<1> DEFINE u == [t EXCEPT !.daily = x]
           v == [t EXCEPT !.last = x]
<1>7. /\ u = [daily |-> x, last |-> t.last, pickup |-> t.pickup, picture |-> t.picture]
      /\ v = [daily |-> t.daily, last |-> x, pickup |-> t.pickup, picture |-> t.picture]
      /\ [t EXCEPT !.daily = x, !.picture = y] = [u EXCEPT !.picture = y]
      /\ [t EXCEPT !.last = x, !.pickup = y] = [v EXCEPT !.pickup = y]
  BY <1>1, <1>2, <1>3, <1>4
<1> HIDE DEF u, v
<1>8. /\ [u EXCEPT !.picture = y]
             = [daily |-> x, last |-> t.last, pickup |-> t.pickup, picture |-> y]
      /\ [v EXCEPT !.pickup = y]
             = [daily |-> t.daily, last |-> x, pickup |-> y, picture |-> t.picture]
  BY <1>5, <1>6, <1>7
<1>9. QED BY <1>7, <1>8

\* The tables of one date change in the workspace of its job.
LEMMA WorkChanges ==
    ASSUME SnapshotInv, NEW d \in Dates, NEW t, work' = [work EXCEPT ![d] = t],
           NEW s \in Stages, stage' = [stage EXCEPT ![d] = s], UNCHANGED tables,
           IsTables(t), Pictured(t, d), s = "refreshed" => Reported(t)
    PROVE  SnapshotInv'
<1>1. /\ work' = [e \in Dates |-> IF e = d THEN t ELSE work[e]]
      /\ stage' = [e \in Dates |-> IF e = d THEN s ELSE stage[e]]
  BY DEF SnapshotInv
<1>2. \A e \in Dates : work'[e] = (IF e = d THEN t ELSE work[e])
                       /\ stage'[e] = (IF e = d THEN s ELSE stage[e])
  BY <1>1
<1>3. stage' \in [Dates -> Stages]
  BY <1>1 DEF SnapshotInv
<1>4. work' = [e \in Dates |-> work'[e]]
  BY <1>1
<1>5. QED BY <1>2, <1>3, <1>4 DEF SnapshotInv

LEMMA SnapshotKept == SnapshotInv /\ [Next]_vars => SnapshotInv'
<1> SUFFICES ASSUME SnapshotInv, [Next]_vars PROVE SnapshotInv'
  OBVIOUS
<1>1. ASSUME UNCHANGED <<tables, work, stage>> PROVE SnapshotInv'
  BY <1>1 DEF SnapshotInv
<1>2. ASSUME NEW d \in Dates, Build(d) PROVE SnapshotInv'
  <2> DEFINE src == [core |-> core, raw |-> raw, deleted |-> deleted]
             t == [tables[d] EXCEPT !.daily = Upserted(DeleteNights(tables[d].daily), Rows(src, d)),
                                    !.picture = src]
  <2>1. /\ work' = [work EXCEPT ![d] = t] /\ stage' = [stage EXCEPT ![d] = "built"]
        /\ UNCHANGED tables
    BY <1>2 DEF Build
  <2>3. t = [daily |-> Rows(src, d), last |-> tables[d].last,
             pickup |-> tables[d].pickup, picture |-> src]
    <3>1. IsTables(tables[d])
      BY DEF SnapshotInv
    <3>2. Upserted(DeleteNights(tables[d].daily), Rows(src, d)) = Rows(src, d)
      BY Replaced
    <3> HIDE DEF src
    <3>3. QED BY <3>1, <3>2, TwoFields
  <2>4. IsTables(t) /\ Pictured(t, d)
    BY <2>3 DEF IsTables, Pictured
  <2>5. QED BY <2>1, <2>4, WorkChanges DEF Stages
<1>3. ASSUME NEW d \in Dates, RefreshLastStatus(d) PROVE SnapshotInv'
  <2> DEFINE t == [work[d] EXCEPT !.last = LastStatus(work[d].daily), !.pickup = {}]
  <2>1. /\ stage[d] = "built"
        /\ work' = [work EXCEPT ![d].last = LastStatus(work[d].daily), ![d].pickup = {}]
        /\ stage' = [stage EXCEPT ![d] = "refreshed"] /\ UNCHANGED tables
    BY <1>3 DEF RefreshLastStatus
  <2>3. t = [daily |-> work[d].daily, last |-> LastStatus(work[d].daily),
             pickup |-> {}, picture |-> work[d].picture]
    BY TwoFields DEF SnapshotInv
  <2>4. work' = [work EXCEPT ![d] = t]
    BY <2>1 DEF SnapshotInv
  <2>5. Pictured(work[d], d)
    BY <2>1 DEF SnapshotInv
  <2>6. IsTables(t) /\ Pictured(t, d) /\ Reported(t)
    BY <2>3, <2>5 DEF IsTables, Pictured, Reported
  <2>7. QED BY <2>1, <2>4, <2>6, WorkChanges DEF Stages
<1>4. ASSUME NEW d \in Dates, NEW days \in PickupDays, RefreshPickup(d, days)
      PROVE  SnapshotInv'
  <2> DEFINE old == IF d - days \in Dates THEN tables[d - days].daily ELSE {}
             t == [work[d] EXCEPT !.pickup = work[d].pickup \cup Pickups(work[d].daily, old, days)]
  <2>1. /\ stage[d] = "refreshed" /\ UNCHANGED <<stage, tables>>
        /\ work' = [work EXCEPT ![d].pickup = work[d].pickup
                                                  \cup Pickups(work[d].daily, old, days)]
    BY <1>4 DEF RefreshPickup
  <2> HIDE DEF old
  <2>2. work[d] = [daily |-> work[d].daily, last |-> work[d].last,
                   pickup |-> work[d].pickup, picture |-> work[d].picture]
    BY DEF SnapshotInv, IsTables
  <2>3. t = [daily |-> work[d].daily, last |-> work[d].last,
             pickup |-> work[d].pickup \cup Pickups(work[d].daily, old, days),
             picture |-> work[d].picture]
    BY <2>2
  <2>4. work' = [work EXCEPT ![d] = t]
    BY <2>1 DEF SnapshotInv
  <2>5. Pictured(work[d], d) /\ Reported(work[d])
    BY <2>1 DEF SnapshotInv
  <2>6. IsTables(t) /\ Pictured(t, d) /\ Reported(t)
    BY <2>3, <2>5 DEF IsTables, Pictured, Reported
  <2>7. stage' = [stage EXCEPT ![d] = "refreshed"]
    BY <2>1 DEF SnapshotInv
  <2>8. QED BY <2>1, <2>4, <2>6, <2>7, WorkChanges DEF Stages
<1>5. ASSUME NEW d \in Dates, Commit(d) PROVE SnapshotInv'
  <2>1. /\ stage[d] = "refreshed" /\ tables' = [tables EXCEPT ![d] = work[d]]
        /\ work' = [work EXCEPT ![d] = Empty] /\ stage' = [stage EXCEPT ![d] = "idle"]
    BY <1>5 DEF Commit, End
  <2>2. \A e \in Dates : /\ tables'[e] = IF e = d THEN work[d] ELSE tables[e]
                         /\ work'[e] = IF e = d THEN Empty ELSE work[e]
                         /\ stage'[e] = IF e = d THEN "idle" ELSE stage[e]
    BY <2>1 DEF SnapshotInv
  <2>3. /\ tables' = [e \in Dates |-> tables'[e]]
        /\ work' = [e \in Dates |-> work'[e]]
        /\ stage' \in [Dates -> Stages]
    BY <2>1 DEF SnapshotInv, Stages
  <2>4. IsTables(work[d]) /\ Pictured(work[d], d) /\ Reported(work[d])
    BY <2>1 DEF SnapshotInv
  <2>5. QED BY <2>2, <2>3, <2>4, NothingYet DEF SnapshotInv
<1>6. ASSUME NEW d \in Dates, Rollback(d) PROVE SnapshotInv'
  BY <1>6, NothingYet, WorkChanges DEF Rollback, End, Stages
<1>7. ASSUME NEW r \in Reservations, NEW b \in Bookings, Enrich(r, b)
      PROVE  UNCHANGED <<tables, work, stage>>
  BY <1>7 DEF Enrich
<1>8. ASSUME NEW r \in Reservations, Delete(r) PROVE UNCHANGED <<tables, work, stage>>
  BY <1>8 DEF Delete
<1>9. ASSUME Idle \/ UNCHANGED vars PROVE UNCHANGED <<tables, work, stage>>
  BY <1>9 DEF Idle, vars
<1>10. QED
  BY <1>1, <1>2, <1>3, <1>4, <1>5, <1>6, <1>7, <1>8, <1>9 DEF Next, Job

LEMMA SnapshotHolds == Spec => []SnapshotInv
<1>1. Init => SnapshotInv
  BY NothingYet DEF Init, SnapshotInv, Stages
<1>2. QED BY <1>1, SnapshotKept, PTL DEF Spec

\* A snapshot has nights of reservations, from its date on.
LEMMA RowsFromDate ==
    ASSUME NEW src, NEW d \in Int, NEW t \in Rows(src, d)
    PROVE  t.reservation \in Reservations /\ t.stay \in Int /\ t.stay >= d
<1>0. PICK r \in Selected(src, d) :
          t \in {Night(src, r, n) : n \in Nights(src.core[r], d)}
  BY DEF Rows
<1>1. PICK n \in Nights(src.core[r], d) : t = Night(src, r, n)
  BY <1>0
<1>2. r \in Reservations
  BY DEF Selected
<1>3. n \in Int /\ n >= d
  BY DEF Nights
<1>4. t.reservation = r /\ t.stay = n
  BY <1>1 DEF Night
<1>5. QED BY <1>2, <1>3, <1>4

\* The variables keep their types, and no table of a date ever has a night before
\* it (transform, the range of the nights).
THEOREM TypeCorrect == Spec => []TypeOK
<1> DEFINE Simple ==
               /\ core \in [Reservations -> Bookings \cup {NoBooking}]
               /\ raw \in [Reservations -> Bookings \cup {NoBooking}]
               /\ deleted \subseteq Reservations
               /\ pending \in [Dates -> SUBSET PickupDays]
               /\ changes \in 0..MaxChanges
               /\ jobs \in 0..MaxJobs
<1>1. Init => Simple
  BY AnalyticsAssumption DEF Init
<1>2. Simple /\ [Next]_vars => Simple'
  <2> SUFFICES ASSUME Simple, [Next]_vars PROVE Simple'
    OBVIOUS
  <2> USE DEF source
  <2>1. ASSUME NEW r \in Reservations, NEW b \in Bookings, Enrich(r, b) PROVE Simple'
    BY <2>1, AnalyticsAssumption DEF Enrich
  <2>2. ASSUME NEW r \in Reservations, Delete(r) PROVE Simple'
    BY <2>2, AnalyticsAssumption DEF Delete
  <2>3. ASSUME NEW d \in Dates, Build(d) PROVE Simple'
    BY <2>3, AnalyticsAssumption DEF Build
  <2>4. ASSUME NEW d \in Dates, RefreshLastStatus(d) PROVE Simple'
    BY <2>4 DEF RefreshLastStatus
  <2>5. ASSUME NEW d \in Dates, NEW days \in PickupDays, RefreshPickup(d, days) PROVE Simple'
    BY <2>5 DEF RefreshPickup
  <2>6. ASSUME NEW d \in Dates, Commit(d) \/ Rollback(d) PROVE Simple'
    BY <2>6 DEF Commit, Rollback, End
  <2>7. CASE Idle \/ UNCHANGED vars
    BY <2>7 DEF Idle, vars
  <2>8. QED BY <2>1, <2>2, <2>3, <2>4, <2>5, <2>6, <2>7 DEF Next, Job
<1>3. Simple /\ SnapshotInv => TypeOK
  <2> SUFFICES ASSUME Simple, SnapshotInv PROVE TypeOK
    OBVIOUS
  <2>1. ASSUME NEW d \in Dates, NEW t \in tables[d].daily \cup work[d].daily
        PROVE  t.reservation \in Reservations /\ t.stay \in Int /\ t.stay >= d
    <3>1. d \in Int
      BY AnalyticsAssumption
    <3>2. t \in Rows(tables[d].picture, d) \/ t \in Rows(work[d].picture, d)
      BY <2>1 DEF SnapshotInv, Pictured
    <3>3. QED BY <3>1, <3>2, RowsFromDate
  <2>2. DOMAIN tables = Dates /\ DOMAIN work = Dates
    BY DEF SnapshotInv
  <2>3. stage \in [Dates -> Stages]
    BY DEF SnapshotInv
  <2>4. QED BY <2>1, <2>2, <2>3 DEF TypeOK
<1>4. QED BY <1>1, <1>2, <1>3, SnapshotHolds, PTL DEF Spec

\* The nights of a date are those of one moment, however often its job is run
\* again, fails or overlaps with changes and with jobs of other dates
\* (_build_daily_snapshot, run).
THEOREM OnePictureHolds == Spec => []OnePicture
<1>1. SnapshotInv => OnePicture
  BY DEF SnapshotInv, OnePicture, Pictured
<1>2. QED BY <1>1, SnapshotHolds, PTL

\* The report of the last status is computed from the very nights it is committed
\* with (_refresh_last_status, one commit for the three tables).
THEOREM ReportMatchesNights == Spec => [](\A d \in Dates : Reported(tables[d]))
<1>1. SnapshotInv => \A d \in Dates : Reported(tables[d])
  BY DEF SnapshotInv
<1>2. QED BY <1>1, SnapshotHolds, PTL

-----------------------------------------------------------------------------
(* The report and the nights of a stay.                                    *)

Known == [Reservations -> Bookings \cup {NoBooking}]

\* Every picture is of reservations with a booking or without one.
KnownPicture(src) == src.core \in Known /\ src.raw \in Known
PictureInv == \A d \in Dates : KnownPicture(tables[d].picture) /\ KnownPicture(work[d].picture)

LEMMA PictureKept == TypeOK /\ SnapshotInv /\ PictureInv /\ [Next]_vars => PictureInv'
<1> SUFFICES ASSUME TypeOK, SnapshotInv, PictureInv, [Next]_vars PROVE PictureInv'
  OBVIOUS
<1> USE DEF PictureInv, KnownPicture
<1>0. KnownPicture(Empty.picture)
  BY DEF Empty, Known
<1>1. ASSUME NEW d \in Dates, Build(d) PROVE PictureInv'
  <2> DEFINE src == [core |-> core, raw |-> raw, deleted |-> deleted]
             new == Upserted(DeleteNights(tables[d].daily), Rows(src, d))
             t   == [tables[d] EXCEPT !.daily = new, !.picture = src]
  <2>1. work' = [work EXCEPT ![d] = t] /\ UNCHANGED tables
    BY <1>1 DEF Build
  <2>2. IsTables(tables[d])
    BY DEF SnapshotInv
  <2>3. t.picture = src
    <3> HIDE DEF src, new
    <3>1. QED BY <2>2, TwoFields
  <2>4. KnownPicture(t.picture)
    BY <2>3 DEF TypeOK, Known
  <2> HIDE DEF t
  <2>5. \A e \in Dates : work'[e] = IF e = d THEN t ELSE work[e]
    BY <2>1 DEF SnapshotInv
  <2>6. QED BY <2>1, <2>4, <2>5
<1>2. ASSUME NEW d \in Dates, RefreshLastStatus(d) \/ \E days \in PickupDays : RefreshPickup(d, days)
      PROVE  PictureInv'
  <2>1. /\ UNCHANGED tables
        /\ \A e \in Dates : work'[e].picture = work[e].picture
    <3>1. UNCHANGED tables
      BY <1>2 DEF RefreshLastStatus, RefreshPickup
    <3>2. IsTables(work[d]) /\ work = [e \in Dates |-> work[e]]
      BY DEF SnapshotInv
    <3>3. CASE RefreshLastStatus(d)
      <4>1. work' = [work EXCEPT ![d].last = LastStatus(work[d].daily), ![d].pickup = {}]
        BY <3>3 DEF RefreshLastStatus
      <4>2. QED BY <3>1, <3>2, <4>1 DEF IsTables
    <3>4. ASSUME NEW days \in PickupDays, RefreshPickup(d, days)
          PROVE  \A e \in Dates : work'[e].picture = work[e].picture
      <4>1. PICK p : work' = [work EXCEPT ![d].pickup = p]
        BY <3>4 DEF RefreshPickup
      <4>2. QED BY <3>2, <4>1 DEF IsTables
    <3>5. QED BY <1>2, <3>1, <3>3, <3>4
  <2>2. QED BY <2>1
<1>3. ASSUME NEW d \in Dates, Commit(d) \/ Rollback(d) PROVE PictureInv'
  <2>1. /\ \A e \in Dates : work'[e] = IF e = d THEN Empty ELSE work[e]
        /\ \A e \in Dates : tables'[e] \in {tables[e], work[e]}
    BY <1>3 DEF Commit, Rollback, End, SnapshotInv
  <2>2. QED BY <1>0, <2>1
<1>4. ASSUME NEW r \in Reservations, Delete(r) \/ \E b \in Bookings : Enrich(r, b) PROVE PictureInv'
  BY <1>4 DEF Delete, Enrich
<1>5. CASE Idle \/ UNCHANGED vars
  BY <1>5 DEF Idle, vars
<1>6. QED BY <1>1, <1>2, <1>3, <1>4, <1>5 DEF Next, Job

LEMMA PictureHolds == Spec => [](TypeOK /\ SnapshotInv /\ PictureInv)
<1>1. Init => PictureInv
  BY DEF Init, PictureInv, KnownPicture, Empty, Known
<1>2. QED BY <1>1, PictureKept, SnapshotHolds, TypeCorrect, PTL DEF Spec

\* A stay from the snapshot date on is an interval, and all its nights say the same
\* of their reservation; the row of the report is the first night's.
LEMMA OneStay ==
    ASSUME NEW src, src.core \in Known, NEW d \in Int, NEW r,
           \E t \in Rows(src, d) : t.reservation = r
    PROVE  /\ \A t \in Rows(src, d) : t.reservation = r =>
                  /\ t.stay \in LastOf(Rows(src, d), r).arrival
                                  .. LastOf(Rows(src, d), r).departure - 1
                  /\ LastOf(Rows(src, d), r).status = IF t.deleted THEN "DELETED" ELSE t.status
           /\ \A n \in LastOf(Rows(src, d), r).arrival
                            .. LastOf(Rows(src, d), r).departure - 1 :
                  \E t \in Rows(src, d) : t.reservation = r /\ t.stay = n
<1> DEFINE own == {t \in Rows(src, d) : t.reservation = r}
           N  == Nights(src.core[r], d)
           lo == IF src.core[r].arrival >= d THEN src.core[r].arrival ELSE d
           hi == src.core[r].departure - 1
           first == CHOOSE t \in own : \A u \in own : t.stay <= u.stay
           final == CHOOSE t \in own : \A u \in own : u.stay <= t.stay
<1>1. r \in Selected(src, d) /\ own = {Night(src, r, n) : n \in N}
  <2>1. \A q, n : Night(src, q, n).reservation = q
    BY DEF Night
  <2>2. QED BY <2>1 DEF Rows
<1>2. src.core[r].arrival \in Int /\ src.core[r].departure \in Int
  BY <1>1, AnalyticsAssumption DEF Selected, Known
<1>3. N = lo .. hi /\ lo \in Int /\ hi \in Int
  BY <1>2 DEF Nights
<1>4. lo \in N /\ hi \in N /\ lo <= hi
  <2>1. N # {}
    BY <1>1
  <2>2. QED BY <1>3, <2>1
<1> HIDE DEF N, lo, hi
<1>5. \A n : /\ Night(src, r, n).stay = n
             /\ Night(src, r, n).status = src.core[r].status
             /\ Night(src, r, n).deleted = (r \in src.deleted)
  BY DEF Night
<1>6. \A t \in own : /\ t.stay \in N
                     /\ t.status = src.core[r].status
                     /\ t.deleted = (r \in src.deleted)
  BY <1>1, <1>5
<1>7. \A n \in N : \E t \in own : t.stay = n
  BY <1>1, <1>5
<1>8. first \in own /\ first.stay = lo
  <2>1. PICK t \in own : t.stay = lo
    BY <1>4, <1>7
  <2>2. \A u \in own : t.stay <= u.stay
    BY <1>3, <1>6, <2>1
  <2>3. first \in own /\ \A u \in own : first.stay <= u.stay
    BY <2>2
  <2>4. first.stay \in lo .. hi /\ first.stay <= lo
    BY <1>3, <1>6, <2>1, <2>3
  <2>5. QED BY <1>3, <2>3, <2>4
<1>9. final \in own /\ final.stay = hi
  <2>1. PICK t \in own : t.stay = hi
    BY <1>4, <1>7
  <2>2. \A u \in own : u.stay <= t.stay
    BY <1>3, <1>6, <2>1
  <2>3. final \in own /\ \A u \in own : u.stay <= final.stay
    BY <2>2
  <2>4. final.stay \in lo .. hi /\ hi <= final.stay
    BY <1>3, <1>6, <2>1, <2>3
  <2>5. QED BY <1>3, <2>3, <2>4
<1>10. LastOf(Rows(src, d), r)
          = [reservation |-> r, arrival |-> first.stay, departure |-> final.stay + 1,
             status |-> IF first.deleted THEN "DELETED" ELSE first.status]
  BY DEF LastOf
<1> HIDE DEF first, final
<1>11. /\ LastOf(Rows(src, d), r).arrival = lo
       /\ LastOf(Rows(src, d), r).departure - 1 = hi
  BY <1>3, <1>8, <1>9, <1>10
<1>12. \A t \in own : t.stay \in lo .. hi
  BY <1>3, <1>6
<1>13. \A t \in own : LastOf(Rows(src, d), r).status
                         = IF t.deleted THEN "DELETED" ELSE t.status
  BY <1>6, <1>8, <1>10
<1>14. /\ \A t \in Rows(src, d) : t.reservation = r => t \in own
       /\ \A t \in own : t \in Rows(src, d) /\ t.reservation = r
  OBVIOUS
<1> HIDE DEF own
<1>15. LastOf(Rows(src, d), r).arrival .. LastOf(Rows(src, d), r).departure - 1 = lo .. hi
  BY <1>11
<1>16. ASSUME NEW t \in Rows(src, d), t.reservation = r
       PROVE  /\ t.stay \in LastOf(Rows(src, d), r).arrival
                               .. LastOf(Rows(src, d), r).departure - 1
              /\ LastOf(Rows(src, d), r).status = IF t.deleted THEN "DELETED" ELSE t.status
  <2>1. t \in own
    BY <1>14, <1>16
  <2>2. t.stay \in LastOf(Rows(src, d), r).arrival .. LastOf(Rows(src, d), r).departure - 1
    BY <2>1, <1>12, <1>15
  <2>3. QED BY <2>1, <2>2, <1>13
<1>17. ASSUME NEW n \in LastOf(Rows(src, d), r).arrival .. LastOf(Rows(src, d), r).departure - 1
       PROVE  \E t \in Rows(src, d) : t.reservation = r /\ t.stay = n
  <2>1. n \in N
    BY <1>3, <1>15
  <2>2. PICK t \in own : t.stay = n
    BY <1>7, <2>1
  <2>3. QED BY <1>14, <2>2
<1>18. QED BY <1>16, <1>17

\* The report has one row for each reservation of the snapshot, whose stay is
\* filled by its nights and whose status is theirs, for every set of bookings and
\* whatever fails and runs at the same time (_refresh_last_status).
THEOREM LastStatusAlwaysAgrees == Spec => []LastStatusAgrees
<1>1. SnapshotInv /\ PictureInv => LastStatusAgrees
  <2> SUFFICES ASSUME SnapshotInv, PictureInv, NEW d \in Dates
               PROVE  /\ {l.reservation : l \in tables[d].last}
                            = {t.reservation : t \in tables[d].daily}
                      /\ \A l, m \in tables[d].last : l.reservation = m.reservation => l = m
                      /\ \A l \in tables[d].last :
                            /\ {t.stay : t \in NightsOf(d, l.reservation)}
                                  = l.arrival .. l.departure - 1
                            /\ \A t \in NightsOf(d, l.reservation) :
                                  l.status = IF t.deleted THEN "DELETED" ELSE t.status
    BY DEF LastStatusAgrees
  <2> DEFINE src == tables[d].picture
             rows == tables[d].daily
  <2>1. /\ rows = Rows(src, d) /\ src.core \in Known /\ d \in Int
        /\ tables[d].last = {LastOf(rows, r) : r \in {t.reservation : t \in rows}}
    BY AnalyticsAssumption
       DEF SnapshotInv, PictureInv, KnownPicture, Pictured, Reported, LastStatus
  <2> HIDE DEF src, rows
  <2>2. \A r : LastOf(rows, r).reservation = r
    BY DEF LastOf
  <2>3. \A l \in tables[d].last :
            /\ l = LastOf(rows, l.reservation)
            /\ \E t \in rows : t.reservation = l.reservation
    BY <2>1, <2>2
  <2>4. \A t \in rows : LastOf(rows, t.reservation) \in tables[d].last
    BY <2>1
  <2>5. {l.reservation : l \in tables[d].last} = {t.reservation : t \in rows}
    BY <2>2, <2>3, <2>4
  <2>6. \A l, m \in tables[d].last : l.reservation = m.reservation => l = m
    BY <2>3
  <2>7. ASSUME NEW l \in tables[d].last
        PROVE  /\ {t.stay : t \in NightsOf(d, l.reservation)} = l.arrival .. l.departure - 1
               /\ \A t \in NightsOf(d, l.reservation) :
                     l.status = IF t.deleted THEN "DELETED" ELSE t.status
    <3>1. /\ l = LastOf(Rows(src, d), l.reservation)
          /\ \E t \in Rows(src, d) : t.reservation = l.reservation
      BY <2>1, <2>3
    <3>2. \A t : t \in NightsOf(d, l.reservation)
                    <=> t \in Rows(src, d) /\ t.reservation = l.reservation
      BY <2>1 DEF NightsOf, rows
    <3>3. /\ \A t \in NightsOf(d, l.reservation) :
                /\ t.stay \in l.arrival .. l.departure - 1
                /\ l.status = IF t.deleted THEN "DELETED" ELSE t.status
          /\ \A n \in l.arrival .. l.departure - 1 :
                \E t \in NightsOf(d, l.reservation) : t.stay = n
      BY <2>1, <3>1, <3>2, OneStay
    <3>4. QED BY <3>3
  <2>8. QED BY <2>5, <2>6, <2>7 DEF rows
<1>2. QED BY <1>1, PictureHolds, PTL

-----------------------------------------------------------------------------
(* Sums over finite sets.                                                   *)

\* Any of the elements, the one that the fold takes first.
Any(s) == CHOOSE x \in s : TRUE

\* g sums the values of F over every subset of S; the sum over S.
Summing(F, g, S) ==
    g = [s \in SUBSET S |-> IF s = {} THEN 0 ELSE F[Any(s)] + g[s \ {Any(s)}]]
SumOver(F, S) == (CHOOSE g : Summing(F, g, S))[S]

\* Induction on finite sets: a set of subsets that is not empty has a smallest one.
LEMMA SmallestSubset ==
    ASSUME NEW S, IsFiniteSet(S), NEW B \in SUBSET SUBSET S, B # {}
    PROVE  \E s \in B : \A t \in SUBSET s : t # s => t \notin B
<1>1. IsWellFoundedOn(StrictSubsetOrdering(S), SUBSET S)
  BY FS_StrictSubsetOrderingWellFounded, FS_FiniteSubsetsOfFinite
<1>2. PICK s \in B : \A t \in B : <<t, s>> \notin StrictSubsetOrdering(S)
  BY <1>1, WFMin
<1>3. QED BY <1>2 DEF StrictSubsetOrdering

\* What is left of a set without one of its elements is smaller.
LEMMA AnyIsIn == \A s : s # {} => Any(s) \in s
BY DEF Any

\* The equation of a sum, at a subset.
LEMMA SummingAt ==
    ASSUME NEW F, NEW g, NEW S, Summing(F, g, S), NEW s \in SUBSET S
    PROVE  g[s] = IF s = {} THEN 0 ELSE F[Any(s)] + g[s \ {Any(s)}]
BY DEF Summing

\* Two functions that sum the same values agree where both are defined.
LEMMA SummingUnique ==
    ASSUME NEW F, NEW g, NEW h, NEW S, NEW T, IsFiniteSet(S),
           Summing(F, g, S), Summing(F, h, T), S \subseteq T
    PROVE  \A s \in SUBSET S : g[s] = h[s]
<1> DEFINE B == {s \in SUBSET S : g[s] # h[s]}
<1> SUFFICES ASSUME B # {} PROVE FALSE
  OBVIOUS
<1>1. PICK s \in B : \A t \in SUBSET s : t # s => t \notin B
  <2>1. B \in SUBSET SUBSET S
    OBVIOUS
  <2> HIDE DEF B
  <2>2. QED BY <2>1, SmallestSubset
<1>2. s \in SUBSET S /\ s \in SUBSET T
  OBVIOUS
<1>3. /\ g[s] = IF s = {} THEN 0 ELSE F[Any(s)] + g[s \ {Any(s)}]
      /\ h[s] = IF s = {} THEN 0 ELSE F[Any(s)] + h[s \ {Any(s)}]
  BY <1>2, SummingAt
<1>4. s # {} => g[s \ {Any(s)}] = h[s \ {Any(s)}]
  BY <1>1, AnyIsIn
<1>5. QED BY <1>3, <1>4

\* Every finite set has a function that sums over its subsets.
LEMMA SummingExists ==
    ASSUME NEW F, NEW S, IsFiniteSet(S)
    PROVE  \E g : Summing(F, g, S)
<1> DEFINE B == {s \in SUBSET S : ~ \E g : Summing(F, g, s)}
<1> SUFFICES ASSUME B # {} PROVE FALSE
  OBVIOUS
<1>1. PICK s \in B : \A t \in SUBSET s : t # s => t \notin B
  <2>1. B \in SUBSET SUBSET S
    OBVIOUS
  <2> HIDE DEF B
  <2>2. QED BY <2>1, SmallestSubset
<1> DEFINE h(t) == CHOOSE k : Summing(F, k, t)
           g == [u \in SUBSET s |-> IF u = {} THEN 0
                                    ELSE F[Any(u)] + h(u \ {Any(u)})[u \ {Any(u)}]]
<1>2. \A t \in SUBSET s : t # s => Summing(F, h(t), t)
  BY <1>1
<1>3. \A u \in SUBSET s : IsFiniteSet(u)
  BY FS_Subset
<1>4. ASSUME NEW u \in SUBSET s, u # {}
      PROVE  h(u \ {Any(u)})[u \ {Any(u)}] = g[u \ {Any(u)}]
  <2> DEFINE w == u \ {Any(u)}
  <2>1. w \in SUBSET s /\ w # s
    BY <1>4, AnyIsIn
  <2>2. Summing(F, h(w), w)
    BY <1>2, <2>1
  <2>3. h(w)[w] = IF w = {} THEN 0 ELSE F[Any(w)] + h(w)[w \ {Any(w)}]
    <3> HIDE DEF w, h
    <3>1. QED BY <2>2, SummingAt
  <2>4. w # {} => h(w)[w \ {Any(w)}] = h(w \ {Any(w)})[w \ {Any(w)}]
    <3> DEFINE v == w \ {Any(w)}
    <3> SUFFICES ASSUME w # {} PROVE h(w)[v] = h(v)[v]
      OBVIOUS
    <3>1. v \in SUBSET s /\ v # s /\ v \subseteq w
      BY <2>1
    <3>2. Summing(F, h(v), v) /\ IsFiniteSet(v)
      BY <1>2, <1>3, <3>1
    <3> HIDE DEF h, v, w
    <3>3. \A x \in SUBSET v : h(v)[x] = h(w)[x]
      BY <2>2, <3>1, <3>2, SummingUnique
    <3>4. QED BY <3>3
  <2>5. g[w] = IF w = {} THEN 0 ELSE F[Any(w)] + h(w \ {Any(w)})[w \ {Any(w)}]
    BY <2>1
  <2> HIDE DEF w, h, g
  <2>6. h(w)[w] = g[w]
    BY <2>3, <2>4, <2>5
  <2>7. QED BY <2>6 DEF w
<1>5. Summing(F, g, s)
  <2>1. ASSUME NEW u \in SUBSET s
        PROVE  g[u] = IF u = {} THEN 0 ELSE F[Any(u)] + g[u \ {Any(u)}]
    <3> HIDE DEF h
    <3>1. g[u] = IF u = {} THEN 0 ELSE F[Any(u)] + h(u \ {Any(u)})[u \ {Any(u)}]
      OBVIOUS
    <3> HIDE DEF g
    <3>2. QED BY <1>4, <3>1
  <2>2. g = [u \in SUBSET s |-> g[u]]
    OBVIOUS
  <2> HIDE DEF g
  <2>3. QED BY <2>1, <2>2 DEF Summing
<1>6. QED BY <1>1, <1>5

\* So the sum of nothing is 0, and that of a set begins with one of its elements.
LEMMA SumFirst ==
    ASSUME NEW F, NEW S, IsFiniteSet(S)
    PROVE  SumOver(F, S) = IF S = {} THEN 0 ELSE F[Any(S)] + SumOver(F, S \ {Any(S)})
<1> DEFINE h(t) == CHOOSE k : Summing(F, k, t)
           T == S \ {Any(S)}
<1>1. Summing(F, h(S), S)
  BY SummingExists
<1>2. IsFiniteSet(T) /\ T \subseteq S
  BY FS_Subset
<1>3. Summing(F, h(T), T)
  BY <1>2, SummingExists
<1> HIDE DEF h, T
<1>4. h(T)[T] = h(S)[T]
  BY <1>1, <1>2, <1>3, SummingUnique
<1>5. h(S)[S] = IF S = {} THEN 0 ELSE F[Any(S)] + h(S)[S \ {Any(S)}]
  BY <1>1, SummingAt
<1>6. SumOver(F, S) = h(S)[S] /\ SumOver(F, T) = h(T)[T]
  BY DEF SumOver, h
<1>7. QED BY <1>4, <1>5, <1>6 DEF T

LEMMA SumInt ==
    ASSUME NEW F, NEW S, IsFiniteSet(S), \A x \in S : F[x] \in Int
    PROVE  SumOver(F, S) \in Int
<1> DEFINE B == {s \in SUBSET S : SumOver(F, s) \notin Int}
<1> SUFFICES ASSUME B # {} PROVE FALSE
  OBVIOUS
<1>1. PICK s \in B : \A t \in SUBSET s : t # s => t \notin B
  <2>1. B \in SUBSET SUBSET S
    OBVIOUS
  <2> HIDE DEF B
  <2>2. QED BY <2>1, SmallestSubset
<1>2. SumOver(F, s) = IF s = {} THEN 0 ELSE F[Any(s)] + SumOver(F, s \ {Any(s)})
  BY SumFirst, FS_Subset
<1>3. s # {} => SumOver(F, s \ {Any(s)}) \in Int /\ F[Any(s)] \in Int
  BY <1>1, AnyIsIn
<1>4. QED BY <1>2, <1>3

\* Any element may be the first.
LEMMA SumTake ==
    ASSUME NEW F, NEW S, IsFiniteSet(S), \A x \in S : F[x] \in Int, NEW a \in S
    PROVE  SumOver(F, S) = F[a] + SumOver(F, S \ {a})
<1> DEFINE B == {s \in SUBSET S : \E x \in s : SumOver(F, s) # F[x] + SumOver(F, s \ {x})}
<1> SUFFICES ASSUME B # {} PROVE FALSE
  OBVIOUS
<1>1. PICK s \in B : \A t \in SUBSET s : t # s => t \notin B
  <2>1. B \in SUBSET SUBSET S
    OBVIOUS
  <2> HIDE DEF B
  <2>2. QED BY <2>1, SmallestSubset
<1>2. PICK x \in s : SumOver(F, s) # F[x] + SumOver(F, s \ {x})
  OBVIOUS
<1> DEFINE c == Any(s)
<1>3. c \in s
  BY <1>2, AnyIsIn
<1>4. SumOver(F, s) = F[c] + SumOver(F, s \ {c})
  BY <1>2, SumFirst, FS_Subset
<1>5. x # c
  BY <1>2, <1>4
<1> HIDE DEF c
<1>6. /\ SumOver(F, s \ {c}) = F[x] + SumOver(F, (s \ {c}) \ {x})
      /\ SumOver(F, s \ {x}) = F[c] + SumOver(F, (s \ {x}) \ {c})
  BY <1>1, <1>3, <1>5
<1>7. (s \ {c}) \ {x} = (s \ {x}) \ {c}
  OBVIOUS
<1>8. F[x] \in Int /\ F[c] \in Int /\ SumOver(F, (s \ {x}) \ {c}) \in Int
  BY <1>3, SumInt, FS_Subset
<1> HIDE DEF B
<1>9. F[x] + (F[c] + SumOver(F, (s \ {x}) \ {c})) = F[c] + (F[x] + SumOver(F, (s \ {x}) \ {c}))
  BY <1>8
<1>10. QED BY <1>2, <1>4, <1>6, <1>7, <1>9

\* A sum depends on nothing but the values.
LEMMA SumSame ==
    ASSUME NEW F, NEW G, NEW S, IsFiniteSet(S), \A x \in S : F[x] = G[x]
    PROVE  SumOver(F, S) = SumOver(G, S)
<1> DEFINE B == {s \in SUBSET S : SumOver(F, s) # SumOver(G, s)}
<1> SUFFICES ASSUME B # {} PROVE FALSE
  OBVIOUS
<1>1. PICK s \in B : \A t \in SUBSET s : t # s => t \notin B
  <2>1. B \in SUBSET SUBSET S
    OBVIOUS
  <2> HIDE DEF B
  <2>2. QED BY <2>1, SmallestSubset
<1>2. /\ SumOver(F, s) = IF s = {} THEN 0 ELSE F[Any(s)] + SumOver(F, s \ {Any(s)})
      /\ SumOver(G, s) = IF s = {} THEN 0 ELSE G[Any(s)] + SumOver(G, s \ {Any(s)})
  BY SumFirst, FS_Subset
<1>3. s # {} => SumOver(F, s \ {Any(s)}) = SumOver(G, s \ {Any(s)}) /\ F[Any(s)] = G[Any(s)]
  BY <1>1, AnyIsIn
<1>4. QED BY <1>2, <1>3

LEMMA SumZero ==
    ASSUME NEW F, NEW S, IsFiniteSet(S), \A x \in S : F[x] = 0
    PROVE  SumOver(F, S) = 0
<1> DEFINE B == {s \in SUBSET S : SumOver(F, s) # 0}
<1> SUFFICES ASSUME B # {} PROVE FALSE
  OBVIOUS
<1>1. PICK s \in B : \A t \in SUBSET s : t # s => t \notin B
  <2>1. B \in SUBSET SUBSET S
    OBVIOUS
  <2> HIDE DEF B
  <2>2. QED BY <2>1, SmallestSubset
<1>2. SumOver(F, s) = IF s = {} THEN 0 ELSE F[Any(s)] + SumOver(F, s \ {Any(s)})
  BY SumFirst, FS_Subset
<1>3. s # {} => SumOver(F, s \ {Any(s)}) = 0 /\ F[Any(s)] = 0
  BY <1>1, AnyIsIn
<1>4. QED BY <1>2, <1>3

\* The elements that M puts in class c.
Class(X, M, c) == {x \in X : M[x] = c}

\* A sum may be taken class by class.
LEMMA SumByClass ==
    ASSUME NEW X, IsFiniteSet(X), NEW C, IsFiniteSet(C), NEW M \in [X -> C],
           NEW F, \A x \in X : F[x] \in Int,
           NEW G, \A c \in C : G[c] = SumOver(F, Class(X, M, c))
    PROVE  SumOver(F, X) = SumOver(G, C)
<1> DEFINE Part(s, c) == {x \in s : M[x] = c}
           Parts(s) == [c \in C |-> SumOver(F, Part(s, c))]
           B == {s \in SUBSET X : SumOver(F, s) # SumOver(Parts(s), C)}
<1>1. ASSUME B # {} PROVE FALSE
  <2>1. PICK s \in B : \A t \in SUBSET s : t # s => t \notin B
    <3>1. B \in SUBSET SUBSET X
      OBVIOUS
    <3> HIDE DEF B
    <3>2. QED BY <1>1, <3>1, SmallestSubset
  <2>2. s \in SUBSET X /\ SumOver(F, s) # SumOver(Parts(s), C)
    OBVIOUS
  <2>3. CASE s = {}
    <3>1. SumOver(F, {}) = 0
      BY SumFirst, FS_EmptySet
    <3>2. \A c \in C : Parts({})[c] = 0
      BY <3>1
    <3> HIDE DEF Parts
    <3>3. SumOver(Parts({}), C) = 0
      BY <3>2, SumZero
    <3>4. QED BY <2>2, <2>3, <3>1, <3>3
  <2>4. CASE s # {}
    <3>1. PICK a \in s : TRUE
      BY <2>4
    <3> DEFINE u == s \ {a}
               k == M[a]
    <3>2. k \in C /\ a \in X
      BY <2>2
    <3>3. \A t \in SUBSET X : \A c \in C : IsFiniteSet(Part(t, c)) /\ Part(t, c) \subseteq X
      <4>1. \A t \in SUBSET X : \A c \in C : Part(t, c) \subseteq X
        OBVIOUS
      <4> HIDE DEF Part
      <4>2. QED BY <4>1, FS_Subset
    <3>4. \A t \in SUBSET X : \A c \in C : Parts(t)[c] = SumOver(F, Part(t, c)) /\ Parts(t)[c] \in Int
      <4> HIDE DEF Part
      <4>1. QED BY <3>3, SumInt
    <3>5. SumOver(F, s) = F[a] + SumOver(F, u) /\ SumOver(F, u) \in Int /\ F[a] \in Int
      BY <2>2, <3>2, SumTake, SumInt, FS_Subset
    <3>6. SumOver(F, u) = SumOver(Parts(u), C)
      <4>1. u \in SUBSET s /\ u # s
        BY <3>1
      <4>2. u \notin B /\ u \in SUBSET X
        BY <2>1, <2>2, <4>1
      <4>3. QED BY <4>2
    <3>7. Parts(s)[k] = F[a] + Parts(u)[k]
      <4>1. a \in Part(s, k) /\ Part(s, k) \ {a} = Part(u, k)
        BY <3>1
      <4>2. s \in SUBSET X /\ u \in SUBSET X
        BY <2>2
      <4> HIDE DEF Part, Parts, u, k
      <4>3. IsFiniteSet(Part(s, k)) /\ \A x \in Part(s, k) : F[x] \in Int
        BY <3>2, <3>3, <4>2
      <4>4. SumOver(F, Part(s, k)) = F[a] + SumOver(F, Part(u, k))
        BY <4>1, <4>3, SumTake
      <4>5. QED BY <3>2, <3>4, <4>2, <4>4
    <3>8. \A c \in C \ {k} : Parts(s)[c] = Parts(u)[c]
      <4>1. \A c \in C \ {k} : Part(s, c) = Part(u, c)
        OBVIOUS
      <4> HIDE DEF Part
      <4>2. QED BY <4>1
    <3>9. s \in SUBSET X /\ u \in SUBSET X
      BY <2>2
    <3> HIDE DEF Part, Parts, u, k, B
    <3>10. /\ SumOver(Parts(s), C) = Parts(s)[k] + SumOver(Parts(s), C \ {k})
           /\ SumOver(Parts(u), C) = Parts(u)[k] + SumOver(Parts(u), C \ {k})
      BY <3>2, <3>4, <3>9, SumTake
    <3>11. SumOver(Parts(s), C \ {k}) = SumOver(Parts(u), C \ {k})
      BY <3>8, SumSame, FS_Subset
    <3>12. SumOver(Parts(u), C \ {k}) \in Int /\ Parts(u)[k] \in Int
      <4>1. IsFiniteSet(C \ {k})
        BY FS_Subset
      <4>2. \A c \in C \ {k} : Parts(u)[c] \in Int
        BY <3>4, <3>9
      <4>3. QED BY <3>2, <3>4, <3>9, <4>1, <4>2, SumInt
    <3>13. QED BY <2>2, <3>5, <3>6, <3>7, <3>10, <3>11, <3>12
  <2>5. QED BY <2>3, <2>4
<1>2. SumOver(F, X) = SumOver(Parts(X), C)
  BY <1>1
<1>3. \A c \in C : Parts(X)[c] = G[c]
  BY DEF Class
<1> HIDE DEF Parts
<1>4. QED BY <1>2, <1>3, SumSame

-----------------------------------------------------------------------------
(* The pickups.                                                            *)

LEMMA RoomsIsSum ==
    ASSUME NEW S, IsFiniteSet(S)
    PROVE  Rooms(S) = SumOver([t \in S |-> t.rooms], S)
<1> DEFINE F == [t \in S |-> t.rooms]
           Fold(k) == k = [s \in SUBSET S |->
                              IF s = {} THEN 0 ELSE Any(s).rooms + k[s \ {Any(s)}]]
<1>1. Rooms(S) = (CHOOSE g : Fold(g))[S]
  BY DEF Rooms, MapThenSumSet, MapThenFoldSet, Any
<1>2. \A g : Fold(g) <=> Summing(F, g, S)
  <2>1. \A s \in SUBSET S : s # {} => F[Any(s)] = Any(s).rooms
    BY AnyIsIn
  <2>2. QED BY <2>1 DEF Summing
<1> DEFINE fold == CHOOSE k : Fold(k)
           sum == CHOOSE k : Summing(F, k, S)
<1> HIDE DEF Fold, F
<1>3. Summing(F, fold, S) /\ Summing(F, sum, S)
  BY <1>2, SummingExists
<1> HIDE DEF fold, sum
<1>4. fold[S] = sum[S]
  BY <1>3, SummingUnique
<1>5. QED BY <1>1, <1>4 DEF fold, sum, F, SumOver

LEMMA TodayRoomsIsSum ==
    ASSUME NEW S, IsFiniteSet(S)
    PROVE  TodayRooms(S) = SumOver([p \in S |-> p[1].rooms], S)
<1> DEFINE F == [p \in S |-> p[1].rooms]
           Fold(k) == k = [s \in SUBSET S |->
                              IF s = {} THEN 0 ELSE Any(s)[1].rooms + k[s \ {Any(s)}]]
<1>1. TodayRooms(S) = (CHOOSE g : Fold(g))[S]
  BY DEF TodayRooms, MapThenSumSet, MapThenFoldSet, Any
<1>2. \A g : Fold(g) <=> Summing(F, g, S)
  <2>1. \A s \in SUBSET S : s # {} => F[Any(s)] = Any(s)[1].rooms
    BY AnyIsIn
  <2>2. QED BY <2>1 DEF Summing
<1> DEFINE fold == CHOOSE k : Fold(k)
           sum == CHOOSE k : Summing(F, k, S)
<1> HIDE DEF Fold, F
<1>3. Summing(F, fold, S) /\ Summing(F, sum, S)
  BY <1>2, SummingExists
<1> HIDE DEF fold, sum
<1>4. fold[S] = sum[S]
  BY <1>3, SummingUnique
<1>5. QED BY <1>1, <1>4 DEF fold, sum, F, SumOver

\* What a function makes of a finite set is finite.
LEMMA FiniteImage ==
    ASSUME NEW S, IsFiniteSet(S), NEW f
    PROVE  IsFiniteSet({f[x] : x \in S})
<1> DEFINE T == {f[x] : x \in S}
           g == [x \in S |-> f[x]]
<1>1. g \in Surjection(S, T)
  BY DEF Surjection
<1> HIDE DEF g, T
<1>2. IsFiniteSet(T)
  BY <1>1, FS_Surjection
<1>3. QED BY <1>2 DEF T

\* A snapshot has finitely many nights, with rooms that can be added, and each
\* night of a reservation once.
LEMMA RowsAreCountable ==
    ASSUME NEW src, KnownPicture(src), NEW d \in Int
    PROVE  /\ IsFiniteSet(Rows(src, d))
           /\ \A t \in Rows(src, d) : t.rooms \in Int
           /\ \A t, o \in Rows(src, d) :
                 t.reservation = o.reservation /\ t.stay = o.stay => t = o
<1>1. \A r \in Selected(src, d) :
          /\ r \in Reservations /\ src.core[r] \in Bookings
          /\ src.raw[r] = NoBooking \/ src.raw[r] \in Bookings
  BY DEF Selected, KnownPicture, Known
<1> DEFINE nights == [r \in Selected(src, d) |->
                          {Night(src, r, n) : n \in Nights(src.core[r], d)}]
<1>2. ASSUME NEW r \in Selected(src, d) PROVE IsFiniteSet(nights[r])
  <2> DEFINE b == src.core[r]
             f == [n \in Nights(b, d) |-> Night(src, r, n)]
  <2>1. b.arrival \in Int /\ b.departure - 1 \in Int
    BY <1>1, AnalyticsAssumption
  <2>2. IsFiniteSet(Nights(b, d))
    <3>1. IsFiniteSet(b.arrival .. b.departure - 1)
      BY <2>1, FS_Interval
    <3>2. QED BY <3>1, FS_Subset DEF Nights
  <2>3. nights[r] = {f[n] : n \in Nights(b, d)}
    OBVIOUS
  <2> HIDE DEF f, b, nights
  <2>4. QED BY <2>2, <2>3, FiniteImage
<1>3. Rows(src, d) = UNION {nights[r] : r \in Selected(src, d)}
  BY DEF Rows
<1> HIDE DEF nights
<1>4. IsFiniteSet({nights[r] : r \in Selected(src, d)})
  <2>1. IsFiniteSet(Selected(src, d))
    BY AnalyticsAssumption, FS_Subset DEF Selected
  <2>2. QED BY <2>1, FiniteImage
<1>5. IsFiniteSet(Rows(src, d))
  BY <1>2, <1>3, <1>4, FS_UNION
<1>6. \A t \in Rows(src, d) : \E r \in Selected(src, d) : \E n :
          t = Night(src, r, n)
  BY DEF Rows
<1>7. \A r, n : /\ Night(src, r, n).reservation = r /\ Night(src, r, n).stay = n
                /\ Night(src, r, n).rooms
                      = IF src.raw[r] = NoBooking THEN 1 ELSE src.raw[r].rooms
  BY DEF Night
<1>8. \A t \in Rows(src, d) : t.rooms \in Int
  BY <1>1, <1>6, <1>7, AnalyticsAssumption
<1>9. \A t, o \in Rows(src, d) : t.reservation = o.reservation /\ t.stay = o.stay => t = o
  BY <1>6, <1>7
<1>10. QED BY <1>5, <1>8, <1>9

\* The left join pairs each night on the books with the one night that it is
\* compared with or with none, and grouping divides the pairs among the lines: so
\* that a period counts the rooms of each night once.
LEMMA PickupCountsNights ==
    ASSUME NEW rows, IsFiniteSet(rows), \A t \in rows : t.rooms \in Int,
           NEW old, \A o, u \in old : o.reservation = u.reservation /\ o.stay = u.stay => o = u,
           NEW days
    PROVE  Rooms(Pickups(rows, old, days)) = Rooms(OnBooks(rows))
<1> DEFINE T == OnBooks(rows)
           match(t) == {o \in OnBooks(old) : SameNight(t, o)}
           pair == [t \in T |-> <<t, IF match(t) = {} THEN NoRow ELSE Any(match(t))>>]
           J == Joined(rows, old)
           group(t) == {p \in J : p[1].stay = t.stay /\ p[1].market = t.market}
           line == [t \in T |-> [days |-> days, stay |-> t.stay, market |-> t.market,
                                 rooms |-> TodayRooms(group(t)), previous |-> OldRooms(group(t))]]
           L == Pickups(rows, old, days)
           F == [p \in J |-> p[1].rooms]
<1>1. IsFiniteSet(T) /\ T \subseteq rows
  BY FS_Subset DEF OnBooks
<1>2. J = {pair[t] : t \in T}
  <2>1. \A t \in T : match(t) # {} => match(t) = {Any(match(t))}
    <3> SUFFICES ASSUME NEW t \in T, match(t) # {} PROVE match(t) = {Any(match(t))}
      OBVIOUS
    <3>1. Any(match(t)) \in match(t)
      BY AnyIsIn
    <3>2. \A o, u \in match(t) : o = u
      BY DEF OnBooks, SameNight
    <3>3. QED BY <3>1, <3>2
  <2>2. \A t \in T : {<<t, o>> : o \in IF match(t) = {} THEN {NoRow} ELSE match(t)} = {pair[t]}
    <3> HIDE DEF match, T
    <3>1. QED BY <2>1
  <2>3. J = UNION {{<<t, o>> : o \in IF match(t) = {} THEN {NoRow} ELSE match(t)} : t \in T}
    BY DEF Joined
  <2> DEFINE cell == [t \in T |-> {<<t, o>> : o \in IF match(t) = {} THEN {NoRow} ELSE match(t)}]
  <2>4. J = UNION {cell[t] : t \in T}
    <3> HIDE DEF match, T, J
    <3>1. QED BY <2>3
  <2>5. \A t \in T : cell[t] = {pair[t]}
    <3> HIDE DEF match, T, pair
    <3>1. QED BY <2>2
  <2> HIDE DEF match, T, J, pair, cell
  <2>6. QED BY <2>4, <2>5
<1>3. \A t \in T : pair[t][1] = t
  OBVIOUS
<1>4. L = {line[t] : t \in T}
  BY DEF Pickups
<1>5. \A t \in T : line[t].stay = t.stay /\ line[t].market = t.market
                   /\ line[t].rooms = TodayRooms(group(t))
  OBVIOUS
<1>6. \A t, u \in T : t.stay = u.stay /\ t.market = u.market => line[t] = line[u]
  OBVIOUS
<1>7. \A t : group(t) \subseteq J
  OBVIOUS
<1>8. \A p \in J : p[1] \in T /\ F[p] = p[1].rooms /\ F[p] \in Int
  BY <1>1, <1>2, <1>3
<1>9. \A t : \A p \in J : p \in group(t) <=> p[1].stay = t.stay /\ p[1].market = t.market
  OBVIOUS
<1> HIDE DEF pair, J, line, L, F, T, group
<1>10. IsFiniteSet(J) /\ IsFiniteSet(L)
  BY <1>1, <1>2, <1>4, FiniteImage
<1>11. SumOver(F, J) = SumOver([l \in L |-> l.rooms], L)
  <2> DEFINE M == [p \in J |-> line[p[1]]]
             G == [l \in L |-> l.rooms]
  <2>1. M \in [J -> L]
    BY <1>4, <1>8
  <2>2. ASSUME NEW l \in L PROVE G[l] = SumOver(F, {p \in J : M[p] = l})
    <3>1. PICK t \in T : l = line[t]
      BY <1>4
    <3>2. {p \in J : M[p] = l} = group(t)
      BY <1>5, <1>6, <1>7, <1>8, <1>9, <3>1
    <3>3. IsFiniteSet(group(t))
      BY <1>7, <1>10, FS_Subset
    <3>4. G[l] = SumOver([p \in group(t) |-> p[1].rooms], group(t))
      BY <1>5, <3>1, <3>3, TodayRoomsIsSum
    <3>5. \A p \in group(t) : [q \in group(t) |-> q[1].rooms][p] = F[p]
      BY <1>7, <1>8
    <3>6. SumOver([p \in group(t) |-> p[1].rooms], group(t)) = SumOver(F, group(t))
      BY <3>3, <3>5, SumSame
    <3>7. QED BY <3>2, <3>4, <3>6
  <2> HIDE DEF M, G
  <2>3. \A l \in L : G[l] = SumOver(F, Class(J, M, l))
    BY <2>2 DEF Class
  <2>4. \A p \in J : F[p] \in Int
    BY <1>8
  <2>5. SumOver(F, J) = SumOver(G, L)
    BY <1>10, <2>1, <2>3, <2>4, SumByClass
  <2>6. QED BY <2>5 DEF G
<1>12. SumOver(F, J) = SumOver([t \in T |-> t.rooms], T)
  <2> DEFINE M == [p \in J |-> p[1]]
             G == [t \in T |-> t.rooms]
  <2>1. M \in [J -> T]
    BY <1>8
  <2>2. ASSUME NEW t \in T PROVE G[t] = SumOver(F, {p \in J : M[p] = t})
    <3>1. {p \in J : M[p] = t} = {pair[t]} /\ pair[t] \in J
      BY <1>2, <1>3
    <3>2. SumOver(F, {pair[t]}) = F[pair[t]] + SumOver(F, {pair[t]} \ {pair[t]})
      <4>1. IsFiniteSet({pair[t]}) /\ pair[t] \in {pair[t]}
        BY FS_Singleton
      <4>2. \A x \in {pair[t]} : F[x] \in Int
        BY <1>8, <3>1
      <4>3. QED BY <4>1, <4>2, SumTake
    <3>3. SumOver(F, {pair[t]} \ {pair[t]}) = 0
      BY FS_EmptySet, SumFirst
    <3>4. F[pair[t]] = G[t] /\ F[pair[t]] \in Int
      BY <1>3, <1>8, <3>1
    <3>5. SumOver(F, {pair[t]}) = G[t]
      <4> HIDE DEF M, G
      <4>1. QED BY <3>2, <3>3, <3>4
    <3>6. QED BY <3>1, <3>5
  <2> HIDE DEF M, G
  <2>3. \A t \in T : G[t] = SumOver(F, Class(J, M, t))
    BY <2>2 DEF Class
  <2>4. \A p \in J : F[p] \in Int
    BY <1>8
  <2>5. SumOver(F, J) = SumOver(G, T)
    BY <1>1, <1>10, <2>1, <2>3, <2>4, SumByClass
  <2>6. QED BY <2>5 DEF G
<1>13. Rooms(L) = Rooms(T)
  BY <1>1, <1>10, <1>11, <1>12, RoomsIsSum
<1>14. QED BY <1>13 DEF L, T

\* The lines of one period, and that they count the rooms on the books.
Lines(t, days)   == {p \in t.pickup : p.days = days}
Counted(t, days) == Rooms(Lines(t, days)) = Rooms(OnBooks(t.daily))

LEMMA LinesOfPeriod ==
    ASSUME NEW rows, NEW old, NEW days, NEW p \in Pickups(rows, old, days)
    PROVE  p.days = days
<1> DEFINE group(t) == {q \in Joined(rows, old) : q[1].stay = t.stay /\ q[1].market = t.market}
           line(t) == [days |-> days, stay |-> t.stay, market |-> t.market,
                       rooms |-> TodayRooms(group(t)), previous |-> OldRooms(group(t))]
<1>1. Pickups(rows, old, days) = {line(t) : t \in OnBooks(rows)}
  BY DEF Pickups
<1>2. \A t : line(t).days = days
  OBVIOUS
<1> HIDE DEF group, line
<1>3. QED BY <1>1, <1>2

\* A running job has no line yet of the periods to come, and has counted the others.
PickupInv ==
    \A d \in Dates, days \in PickupDays :
        /\ Counted(tables[d], days)
        /\ stage[d] = "refreshed" =>
              IF days \in pending[d] THEN Lines(work[d], days) = {} ELSE Counted(work[d], days)

LEMMA PickupKept ==
    TypeOK /\ SnapshotInv /\ PictureInv /\ PickupInv /\ [Next]_vars => PickupInv'
<1> SUFFICES ASSUME TypeOK, SnapshotInv, PictureInv, PickupInv, [Next]_vars PROVE PickupInv'
  OBVIOUS
<1>1. ASSUME NEW d \in Dates, Build(d) PROVE PickupInv'
  <2>1. /\ UNCHANGED <<tables, pending>>
        /\ \A e \in Dates : stage'[e] = IF e = d THEN "built" ELSE stage[e]
        /\ \A e \in Dates : e # d => work'[e] = work[e]
    BY <1>1 DEF Build, SnapshotInv
  <2>2. QED BY <2>1 DEF PickupInv
<1>2. ASSUME NEW d \in Dates, RefreshLastStatus(d) PROVE PickupInv'
  <2>1. /\ work' = [work EXCEPT ![d].last = LastStatus(work[d].daily), ![d].pickup = {}]
        /\ UNCHANGED tables
        /\ \A e \in Dates : pending'[e] = IF e = d THEN PickupDays ELSE pending[e]
        /\ \A e \in Dates : e # d => stage'[e] = stage[e]
    BY <1>2 DEF RefreshLastStatus, SnapshotInv, TypeOK
  <2>2. work'[d].pickup = {} /\ \A e \in Dates : e # d => work'[e] = work[e]
    <3> DEFINE t == [work[d] EXCEPT !.last = LastStatus(work[d].daily), !.pickup = {}]
    <3>1. t.pickup = {}
      <4>1. IsTables(work[d])
        BY DEF SnapshotInv
      <4>2. t = [daily |-> work[d].daily, last |-> LastStatus(work[d].daily),
                 pickup |-> {}, picture |-> work[d].picture]
        BY <4>1, TwoFields
      <4>3. QED BY <4>2
    <3>2. work' = [work EXCEPT ![d] = t]
      BY <2>1 DEF SnapshotInv
    <3> HIDE DEF t
    <3>3. QED BY <3>1, <3>2 DEF SnapshotInv
  <2>3. \A days \in PickupDays : Lines(work'[d], days) = {}
    BY <2>2 DEF Lines
  <2>4. QED BY <2>1, <2>2, <2>3 DEF PickupInv
<1>3. ASSUME NEW d \in Dates, NEW now \in PickupDays, RefreshPickup(d, now) PROVE PickupInv'
  <2> DEFINE rows == work[d].daily
             old == IF d - now \in Dates THEN tables[d - now].daily ELSE {}
             new == Pickups(rows, old, now)
  <2>1. /\ stage[d] = "refreshed" /\ now \in pending[d]
        /\ work' = [work EXCEPT ![d].pickup = work[d].pickup \cup new]
        /\ \A e \in Dates : pending'[e] = IF e = d THEN pending[d] \ {now} ELSE pending[e]
        /\ UNCHANGED <<stage, tables>>
    <3>1. /\ stage[d] = "refreshed" /\ now \in pending[d]
          /\ work' = [work EXCEPT ![d].pickup = work[d].pickup \cup new]
          /\ pending' = [pending EXCEPT ![d] = pending[d] \ {now}]
          /\ UNCHANGED <<stage, tables>>
      BY <1>3 DEF RefreshPickup
    <3> HIDE DEF new
    <3>2. QED BY <3>1 DEF TypeOK
  <2>2. \A p \in new : p.days = now
    BY LinesOfPeriod
  <2>3. Rooms(new) = Rooms(OnBooks(rows))
    <3>1. d \in Int /\ (d - now \in Dates => d - now \in Int)
      BY AnalyticsAssumption
    <3>2. IsFiniteSet(rows) /\ \A t \in rows : t.rooms \in Int
      BY <3>1, RowsAreCountable DEF SnapshotInv, Pictured, PictureInv
    <3>3. \A o, u \in old : o.reservation = u.reservation /\ o.stay = u.stay => o = u
      <4>1. CASE d - now \in Dates
        <5>1. old = Rows(tables[d - now].picture, d - now)
          BY <4>1 DEF SnapshotInv, Pictured
        <5>2. KnownPicture(tables[d - now].picture)
          BY <4>1 DEF PictureInv
        <5> HIDE DEF old
        <5>3. QED BY <3>1, <4>1, <5>1, <5>2, RowsAreCountable
      <4>2. QED BY <4>1
    <3> HIDE DEF rows, old
    <3>4. QED BY <3>2, <3>3, PickupCountsNights
  <2> HIDE DEF new
  <2>4. /\ work'[d].daily = rows /\ work'[d].pickup = work[d].pickup \cup new
        /\ \A e \in Dates : e # d => work'[e] = work[e]
    BY <2>1 DEF SnapshotInv, IsTables
  <2>5. Lines(work[d], now) = {}
    BY <2>1 DEF PickupInv
  <2>6. Lines(work'[d], now) = new
    BY <2>2, <2>4, <2>5 DEF Lines
  <2>7. \A days \in PickupDays : days # now => Lines(work'[d], days) = Lines(work[d], days)
    BY <2>2, <2>4 DEF Lines
  <2>8. Counted(work'[d], now)
    BY <2>3, <2>4, <2>6 DEF Counted
  <2>9. ASSUME NEW days \in PickupDays
        PROVE  IF days \in pending'[d] THEN Lines(work'[d], days) = {}
                                       ELSE Counted(work'[d], days)
    BY <2>1, <2>4, <2>7, <2>8 DEF PickupInv, Counted
  <2>10. QED BY <2>1, <2>4, <2>9 DEF PickupInv
<1>4. ASSUME NEW d \in Dates, Commit(d) PROVE PickupInv'
  <2>1. /\ stage[d] = "refreshed" /\ pending[d] = {}
        /\ \A e \in Dates : /\ tables'[e] = IF e = d THEN work[d] ELSE tables[e]
                            /\ e # d => work'[e] = work[e] /\ pending'[e] = pending[e]
                            /\ stage'[e] = IF e = d THEN "idle" ELSE stage[e]
    BY <1>4 DEF Commit, End, SnapshotInv, TypeOK
  <2>2. QED BY <2>1 DEF PickupInv
<1>5. ASSUME NEW d \in Dates, Rollback(d) PROVE PickupInv'
  <2>1. /\ UNCHANGED tables
        /\ \A e \in Dates : /\ e # d => work'[e] = work[e] /\ pending'[e] = pending[e]
                            /\ stage'[e] = IF e = d THEN "idle" ELSE stage[e]
    BY <1>5 DEF Rollback, End, SnapshotInv, TypeOK
  <2>2. QED BY <2>1 DEF PickupInv
<1>6. ASSUME UNCHANGED <<tables, work, stage, pending>> PROVE PickupInv'
  BY <1>6 DEF PickupInv
<1>7. ASSUME NEW r \in Reservations, Delete(r) \/ \E b \in Bookings : Enrich(r, b) PROVE PickupInv'
  BY <1>6, <1>7 DEF Delete, Enrich
<1>8. CASE Idle \/ UNCHANGED vars
  BY <1>6, <1>8 DEF Idle, vars
<1>9. QED BY <1>1, <1>2, <1>3, <1>4, <1>5, <1>7, <1>8 DEF Next, Job

\* The lines of every period add up to the rooms on the books of the same nights,
\* for every set of reservations, bookings and periods, whatever jobs of other
\* dates commit meanwhile (_refresh_pickups).
THEOREM PickupsAlwaysAddUp == Spec => []PickupsAddUp
<1>1. Init => PickupInv
  <2>1. \A days : Counted(Empty, days)
    <3>1. \A days : Lines(Empty, days) = {}
      BY DEF Lines, Empty
    <3>2. OnBooks(Empty.daily) = {}
      BY DEF OnBooks, Empty
    <3>3. QED BY <3>1, <3>2 DEF Counted
  <2>2. QED BY <2>1 DEF Init, PickupInv
<1>2. PickupInv => PickupsAddUp
  BY DEF PickupInv, PickupsAddUp, Counted, Lines
<1>3. QED BY <1>1, <1>2, PickupKept, PictureHolds, PTL DEF Spec
=============================================================================
