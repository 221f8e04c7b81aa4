---------------------------- MODULE Ledger_proofs ----------------------------
(***************************************************************************)
(* Proofs about Ledger, for any number of workers, events and resources.    *)
(***************************************************************************)
EXTENDS Ledger, TLAPS

\* Every variable keeps its type; in particular no event row is ever committed
\* as RECEIVED, the status register_event inserts (register_event, mark_failed).
THEOREM TypeCorrect == Spec => []TypeOK
<1>1. Init => TypeOK
  BY LedgerAssumption DEF Init, TypeOK, Committed
<1>2. TypeOK /\ [Next]_vars => TypeOK'
  <2> SUFFICES ASSUME TypeOK, [Next]_vars PROVE TypeOK'
    OBVIOUS
  <2> USE LedgerAssumption DEF TypeOK, api, db, workers
  <2>0. ASSUME NEW w \in Workers, Release(w)
        PROVE  /\ pc' \in [Workers -> {"idle", "fetch", "persist", "delete", "fail"}]
               /\ event' \in [Workers -> Events \cup {NoEvent}]
               /\ \A u \in Workers : pc'[u] # "idle" => event'[u] \in Events
               /\ fetched' \in [Workers -> Nat]
               /\ seen' \in [Workers -> Committed \cup {"RECEIVED"}]
    BY <2>0 DEF Release, Committed
  <2>1. ASSUME NEW e \in Events, Emit(e) PROVE TypeOK'
    <3>1. PICK readable \in BOOLEAN : live' = [live EXCEPT ![ResourceOf[e]] = readable]
      BY <2>1 DEF Emit
    <3>2. live' \in [Resources -> BOOLEAN]
      BY <3>1
    <3>3. QED BY <2>1, <3>2 DEF Emit
  <2>2. ASSUME NEW w \in Workers, NEW e \in Events, Deliver(w, e) PROVE TypeOK'
    BY <2>2 DEF Deliver
  <2>3. ASSUME NEW w \in Workers, Unresolvable(w) PROVE TypeOK'
    BY <2>3 DEF Unresolvable
  <2>4. ASSUME NEW w \in Workers, Fetch(w) PROVE TypeOK'
    <3>1. PICK code \in Answers(ResourceOf[event[w]]) :
              IF Decision(code, event[w]) = "retry"
                 THEN Release(w)
                 ELSE /\ pc' = [pc EXCEPT ![w] = Decision(code, event[w])]
                      /\ fetched' = [fetched EXCEPT ![w] = version[ResourceOf[event[w]]]]
                      /\ UNCHANGED <<event, seen>>
      BY <2>4 DEF Fetch
    <3>2. Decision(code, event[w]) \in {"persist", "delete", "retry", "fail"}
      BY DEF Decision
    <3>3. event[w] \in Events /\ UNCHANGED <<api, db>>
      BY <2>4 DEF Fetch
    <3>4. CASE Decision(code, event[w]) = "retry"
      BY <2>0, <3>1, <3>3, <3>4
    <3>5. CASE Decision(code, event[w]) # "retry"
      <4>1. /\ pc' = [pc EXCEPT ![w] = Decision(code, event[w])]
            /\ fetched' = [fetched EXCEPT ![w] = version[ResourceOf[event[w]]]]
            /\ UNCHANGED <<event, seen>>
        BY <3>1, <3>5
      <4>2. version[ResourceOf[event[w]]] \in Nat
        BY <3>3
      <4>3. pc' \in [Workers -> {"idle", "fetch", "persist", "delete", "fail"}]
        BY <3>2, <3>5, <4>1
      <4>4. \A u \in Workers : pc'[u] # "idle" => event'[u] \in Events
        BY <3>3, <4>1
      <4>5. QED BY <3>3, <4>1, <4>2, <4>3, <4>4
    <3>6. QED BY <3>4, <3>5
  <2>5. ASSUME NEW w \in Workers, Register(w) PROVE TypeOK'
    <3>1. RegisteredStatus(event[w]) \subseteq Committed \cup {"RECEIVED"}
      BY <2>5 DEF RegisteredStatus, Register
    <3>2. QED BY <2>5, <3>1 DEF Register
  <2>6. ASSUME NEW w \in Workers, Deduplicate(w) \/ Abort(w) PROVE TypeOK'
    <3>1. Release(w) /\ UNCHANGED <<api, db>>
      BY <2>6 DEF Deduplicate, Abort
    <3>2. QED BY <2>0, <3>1
  <2>7. ASSUME NEW w \in Workers, Persist(w) PROVE TypeOK'
    <3>1. event[w] \in Events /\ Release(w) /\ UNCHANGED api
      BY <2>7 DEF Persist
    <3>2. raw' \in [Events -> [kind : {"none", "payload", "marker"}, version : Nat]]
      BY <2>7, <3>1 DEF Persist
    <3>3. core' \in [Resources -> [version : Nat, writer : Events \cup {NoEvent},
                                  deleted : BOOLEAN]]
      <4>1. core[ResourceOf[event[w]]] \in [version : Nat, writer : Events \cup {NoEvent},
                                            deleted : BOOLEAN]
        BY <3>1
      <4>2. \/ core' = core
            \/ core' = [core EXCEPT ![ResourceOf[event[w]]] =
                           Upserted(core[ResourceOf[event[w]]], event[w], fetched[w])]
        BY <2>7 DEF Persist
      <4>3. QED BY <3>1, <4>1, <4>2 DEF Upserted
    <3>4. status' \in [Events -> Committed]
      BY <2>7, <3>1 DEF Persist, Committed
    <3>5. QED BY <2>0, <3>1, <3>2, <3>3, <3>4
  <2>8. ASSUME NEW w \in Workers, MarkDeleted(w) PROVE TypeOK'
    <3>1. event[w] \in Events /\ Release(w) /\ UNCHANGED api
      BY <2>8 DEF MarkDeleted
    <3>2. raw' \in [Events -> [kind : {"none", "payload", "marker"}, version : Nat]]
      BY <2>8, <3>1 DEF MarkDeleted
    <3>3. core' \in [Resources -> [version : Nat, writer : Events \cup {NoEvent},
                                  deleted : BOOLEAN]]
      <4>1. core[ResourceOf[event[w]]] \in [version : Nat, writer : Events \cup {NoEvent},
                                            deleted : BOOLEAN]
        BY <3>1
      <4>2. QED BY <2>8, <3>1, <4>1 DEF MarkDeleted, Tombstone
    <3>4. status' \in [Events -> Committed]
      BY <2>8, <3>1 DEF MarkDeleted, Committed
    <3>5. QED BY <2>0, <3>1, <3>2, <3>3, <3>4
  <2>9. ASSUME NEW w \in Workers, MarkFailed(w) PROVE TypeOK'
    <3>1. event[w] \in Events /\ Release(w) /\ UNCHANGED <<api, raw, core>>
      BY <2>9 DEF MarkFailed
    <3>2. status' \in [Events -> Committed]
      BY <2>9, <3>1 DEF MarkFailed, Committed
    <3>3. QED BY <2>0, <3>1, <3>2
  <2>10. CASE UNCHANGED vars
    BY <2>10 DEF vars
  <2>11. QED
    BY <2>1, <2>2, <2>3, <2>4, <2>5, <2>6, <2>7, <2>8, <2>9, <2>10 DEF Next, Work
<1>3. QED BY <1>1, <1>2, PTL DEF Spec

-----------------------------------------------------------------------------
(* The inductive invariant, in four parts.                                 *)

\* OHIP announces the changes of a resource in the order of their timestamps.
WorldInv ==
    /\ \A e \in Events : rank[e] <= version[ResourceOf[e]]
    /\ \A e, f \in Events :
          ResourceOf[e] = ResourceOf[f] /\ OccurredAt[e] < OccurredAt[f] /\ Emitted(f)
             => Emitted(e) /\ rank[e] < rank[f]

\* A worker has an event that has happened, and a response at least as recent.
WorkerInv ==
    \A w \in Workers :
        /\ pc[w] # "idle" => Emitted(event[w])
        /\ pc[w] \in {"persist", "delete"} => rank[event[w]] <= fetched[w]
        /\ seen[w] # "NONE" => pc[w] # "idle"

\* The core row of an event was last written for that event or for one that did
\* not occur before it.
Reflected(e) ==
    LET writer == core[ResourceOf[e]].writer IN
    writer # NoEvent /\ OccurredAt[e] <= OccurredAt[writer]

\* SchemasAgree, with what makes it useful: snapshots are recent, rows name
\* events of their own resource, and finished events are reflected.
RowInv ==
    /\ SchemasAgree
    /\ \A e \in Events : status[e] # "NONE" => Emitted(e)
    /\ \A e \in Events : raw[e].kind = "payload" => rank[e] <= raw[e].version
    /\ \A r \in Resources :
          core[r].writer # NoEvent => ResourceOf[core[r].writer] = r
    /\ \A e \in Events :
          status[e] \in {"COMPLETED", "DELETED"} /\ ResourceOf[e] \notin Folios
             => Reflected(e)

\* Whoever inserts an event row is alone with its identifier and its offset.
OffsetInv ==
    /\ \A w \in Workers :
          Inserting(w) => \A f \in Events : Collides(event[w], f) => status[f] = "NONE"
    /\ \A u, w \in Workers :
          u # w /\ Inserting(u) /\ Inserting(w) => ~Collides(event[u], event[w])
    /\ OneEventPerOffset

\* The steps that write to the database, and those that do not.
Writes(w) == Persist(w) \/ MarkDeleted(w) \/ MarkFailed(w)

LEMMA StepKinds ==
    ASSUME [Next]_vars
    PROVE  \/ \E e \in Events : Emit(e)
           \/ \E w \in Workers, e \in Events : Deliver(w, e)
           \/ \E w \in Workers :
                 \/ Unresolvable(w) \/ Fetch(w) \/ Register(w)
                 \/ Deduplicate(w) \/ Abort(w) \/ Writes(w)
           \/ UNCHANGED vars
  BY DEF Next, Work, Writes

LEMMA WorldKept == TypeOK /\ WorldInv /\ [Next]_vars => WorldInv'
<1> SUFFICES ASSUME TypeOK, WorldInv, [Next]_vars PROVE WorldInv'
  OBVIOUS
<1> USE LedgerAssumption
<1>1. ASSUME NEW e \in Events, Emit(e) PROVE WorldInv'
  <2>1. /\ version' = [version EXCEPT ![ResourceOf[e]] = version[ResourceOf[e]] + 1]
        /\ rank' = [rank EXCEPT ![e] = version[ResourceOf[e]] + 1]
    BY <1>1 DEF Emit
  <2>2. \A f \in Events :
            ResourceOf[f] = ResourceOf[e] /\ OccurredAt[f] < OccurredAt[e] => Emitted(f)
    BY <1>1 DEF Emit
  <2>3. ~Emitted(e)
    BY <1>1 DEF Emit
  <2>4. \A f \in Events : rank'[f] <= version'[ResourceOf[f]]
    BY <2>1 DEF TypeOK, WorldInv
  <2>5. ASSUME NEW f \in Events, NEW g \in Events, ResourceOf[f] = ResourceOf[g],
               OccurredAt[f] < OccurredAt[g], Emitted(g)'
        PROVE  Emitted(f)' /\ rank'[f] < rank'[g]
    <3>1. CASE g = e
      BY <2>1, <2>2, <2>5, <3>1 DEF TypeOK, WorldInv, Emitted
    <3>2. CASE g # e
      <4>1. Emitted(g) /\ rank'[g] = rank[g]
        BY <2>1, <2>5, <3>2 DEF Emitted, TypeOK
      <4>2. f # e /\ Emitted(f) /\ rank[f] < rank[g]
        BY <2>3, <2>5, <4>1 DEF WorldInv
      <4>3. QED BY <2>1, <4>1, <4>2 DEF Emitted, TypeOK
    <3>3. QED BY <3>1, <3>2
  <2>6. QED BY <2>4, <2>5 DEF WorldInv
<1>2. ASSUME UNCHANGED <<rank, version>> PROVE WorldInv'
  BY <1>2 DEF WorldInv, Emitted
<1>3. QED
  BY <1>1, <1>2, StepKinds DEF Deliver, Unresolvable, Fetch, Register, Deduplicate, Abort,
     Writes, Persist, MarkDeleted, MarkFailed, api, vars

\* Releasing a worker leaves the others as they are.
LEMMA ReleaseKeepsWorkers ==
    ASSUME TypeOK, WorkerInv, UNCHANGED rank, NEW w \in Workers, Release(w)
    PROVE  WorkerInv'
  BY DEF TypeOK, WorkerInv, Release, Emitted

LEMMA WorkerKept == TypeOK /\ WorldInv /\ WorkerInv /\ [Next]_vars => WorkerInv'
<1> SUFFICES ASSUME TypeOK, WorldInv, WorkerInv, [Next]_vars PROVE WorkerInv'
  OBVIOUS
<1> USE LedgerAssumption
<1>1. ASSUME NEW e \in Events, Emit(e) PROVE WorkerInv'
  <2>1. \A f \in Events : Emitted(f) => rank'[f] = rank[f]
    BY <1>1 DEF Emit, Emitted, TypeOK
  <2>2. UNCHANGED <<pc, event, fetched, seen>>
    BY <1>1 DEF Emit, workers
  <2>3. QED BY <2>1, <2>2 DEF WorkerInv, TypeOK, Emitted
<1>2. ASSUME NEW w \in Workers, NEW e \in Events, Deliver(w, e) PROVE WorkerInv'
  BY <1>2 DEF Deliver, WorkerInv, TypeOK, Emitted, api
<1>3. ASSUME NEW w \in Workers, Unresolvable(w) PROVE WorkerInv'
  BY <1>3 DEF Unresolvable, WorkerInv, TypeOK, Emitted, api
<1>4. ASSUME NEW w \in Workers, Fetch(w) PROVE WorkerInv'
  <2>1. PICK code \in Answers(ResourceOf[event[w]]) :
            IF Decision(code, event[w]) = "retry"
               THEN Release(w)
               ELSE /\ pc' = [pc EXCEPT ![w] = Decision(code, event[w])]
                    /\ fetched' = [fetched EXCEPT ![w] = version[ResourceOf[event[w]]]]
                    /\ UNCHANGED <<event, seen>>
    BY <1>4 DEF Fetch
  <2>2. pc[w] = "fetch" /\ UNCHANGED rank
    BY <1>4 DEF Fetch, api
  <2>3. CASE Decision(code, event[w]) = "retry"
    BY <2>1, <2>2, <2>3, ReleaseKeepsWorkers
  <2>4. CASE Decision(code, event[w]) # "retry"
    <3>1. /\ UNCHANGED <<rank, event, seen>>
          /\ fetched' = [fetched EXCEPT ![w] = version[ResourceOf[event[w]]]]
          /\ \A u \in Workers \ {w} : pc'[u] = pc[u]
      BY <2>1, <2>2, <2>4 DEF TypeOK
    <3>2. Emitted(event[w]) /\ rank[event[w]] <= version[ResourceOf[event[w]]]
      BY <2>2 DEF WorkerInv, WorldInv, TypeOK
    <3>3. pc'[w] # "idle"
      BY <2>1, <2>4 DEF Decision, TypeOK
    <3>4. QED BY <3>1, <3>2, <3>3 DEF WorkerInv, TypeOK, Emitted
  <2>5. QED BY <2>3, <2>4
<1>5. ASSUME NEW w \in Workers, Register(w) PROVE WorkerInv'
  BY <1>5 DEF Register, WorkerInv, TypeOK, Emitted, api
<1>6. ASSUME NEW w \in Workers, Deduplicate(w) \/ Abort(w) \/ Writes(w) PROVE WorkerInv'
  <2>1. Release(w) /\ UNCHANGED rank
    BY <1>6 DEF Deduplicate, Abort, Writes, Persist, MarkDeleted, MarkFailed, api
  <2>2. QED BY <2>1, ReleaseKeepsWorkers
<1>7. CASE UNCHANGED vars
  BY <1>7 DEF vars, WorkerInv, Emitted
<1>8. QED
  BY <1>1, <1>2, <1>3, <1>4, <1>5, <1>6, <1>7, StepKinds

LEMMA RowKept == TypeOK /\ WorkerInv /\ RowInv /\ [Next]_vars => RowInv'
<1> SUFFICES ASSUME TypeOK, WorkerInv, RowInv, [Next]_vars PROVE RowInv'
  OBVIOUS
<1> USE LedgerAssumption
<1>1. ASSUME NEW e \in Events, Emit(e) PROVE RowInv'
  <2>1. UNCHANGED <<status, raw, core>> /\ \A f \in Events : Emitted(f) => rank'[f] = rank[f]
    BY <1>1 DEF Emit, Emitted, TypeOK, db
  <2>2. QED BY <2>1 DEF RowInv, SchemasAgree, Reflected, Emitted, TypeOK
<1>2. ASSUME NEW w \in Workers, Persist(w) PROVE RowInv'
  <2>0. PICK e \in Events : e = event[w]
    BY <1>2 DEF Persist, TypeOK
  <2> DEFINE r == ResourceOf[e]
  <2>1. r \in Resources /\ Emitted(e) /\ rank[e] <= fetched[w]
    BY <1>2, <2>0 DEF Persist, WorkerInv, TypeOK
  <2>2. /\ UNCHANGED rank
        /\ raw' = [raw EXCEPT ![e] = [kind |-> "payload", version |-> fetched[w]]]
        /\ status' = [status EXCEPT ![e] = "COMPLETED"]
        /\ \/ NotOlder(r, e) /\ core' = [core EXCEPT ![r] = Upserted(core[r], e, fetched[w])]
           \/ (r \in Folios \/ ~NotOlder(r, e)) /\ UNCHANGED core
    BY <1>2, <2>0 DEF Persist, Listed, api
  <2>3. /\ \A f \in Events : status'[f] = IF f = e THEN "COMPLETED" ELSE status[f]
        /\ \A f \in Events : f # e => raw'[f] = raw[f]
        /\ raw'[e].kind = "payload" /\ raw'[e].version = fetched[w]
    BY <2>1, <2>2 DEF TypeOK
  <2>4. \A s \in Resources \ {r} : core[s].writer # NoEvent => core[s].writer \in Events \ {e}
    BY DEF RowInv, TypeOK
  <2>5. CASE NotOlder(r, e) /\ core' = [core EXCEPT ![r] = Upserted(core[r], e, fetched[w])]
    <3>1. /\ \A s \in Resources : s # r => core'[s] = core[s]
          /\ core'[r].writer = e /\ core'[r].version = fetched[w]
      BY <2>1, <2>2, <2>5 DEF TypeOK, Upserted
    <3>2. SchemasAgree'
      <4>1. ASSUME NEW f \in Events, raw'[f].kind # "none" PROVE status'[f] # "NONE"
        BY <2>3, <4>1 DEF RowInv, SchemasAgree
      <4>2. ASSUME NEW s \in Resources, NEW f, f = core'[s].writer, f # NoEvent
            PROVE  /\ raw'[f].kind # "none"
                   /\ s \in Folios \/ IF raw'[f].kind = "payload"
                                        THEN core'[s].version = raw'[f].version
                                        ELSE core'[s].deleted
        <5>1. CASE s = r
          BY <2>3, <3>1, <4>2, <5>1
        <5>2. CASE s # r
          BY <2>3, <2>4, <3>1, <4>2, <5>2 DEF RowInv, SchemasAgree
        <5>3. QED BY <5>1, <5>2
      <4>3. QED BY <4>1, <4>2 DEF SchemasAgree
    <3>3. \A f \in Events : Reflected(f) => Reflected(f)'
      BY <2>1, <2>5, <3>1 DEF Reflected, NotOlder, TypeOK
    <3>4. Reflected(e)'
      BY <2>1, <3>1 DEF Reflected
    <3>5. QED BY <2>1, <2>2, <2>3, <3>1, <3>2, <3>3, <3>4 DEF RowInv, Emitted
  <2>6. CASE (r \in Folios \/ ~NotOlder(r, e)) /\ UNCHANGED core
    <3>1. UNCHANGED core
      BY <2>6
    <3>2. SchemasAgree'
      <4>1. ASSUME NEW f \in Events, raw'[f].kind # "none" PROVE status'[f] # "NONE"
        BY <2>3, <4>1 DEF RowInv, SchemasAgree
      <4>2. ASSUME NEW s \in Resources, NEW f, f = core'[s].writer, f # NoEvent
            PROVE  /\ raw'[f].kind # "none"
                   /\ s \in Folios \/ IF raw'[f].kind = "payload"
                                        THEN core'[s].version = raw'[f].version
                                        ELSE core'[s].deleted
        <5>1. f # e \/ (s \in Folios /\ raw'[f].kind = "payload")
          BY <2>3, <2>4, <2>6, <3>1, <4>2 DEF NotOlder
        <5>2. f \in Events
          BY <3>1, <4>2 DEF TypeOK
        <5>3. QED BY <2>3, <3>1, <4>2, <5>1, <5>2 DEF RowInv, SchemasAgree
      <4>3. QED BY <4>1, <4>2 DEF SchemasAgree
    <3>3. r \notin Folios => Reflected(e)'
      BY <2>1, <2>6, <3>1 DEF Reflected, NotOlder, TypeOK
    <3>4. QED BY <2>1, <2>2, <2>3, <3>1, <3>2, <3>3 DEF RowInv, Emitted, Reflected
  <2>7. QED BY <2>2, <2>5, <2>6
<1>3. ASSUME NEW w \in Workers, MarkDeleted(w) PROVE RowInv'
  <2>0. PICK e \in Events : e = event[w]
    BY <1>3 DEF MarkDeleted, TypeOK
  <2> DEFINE r == ResourceOf[e]
  <2>1. r \in Resources /\ Emitted(e)
    BY <1>3, <2>0 DEF MarkDeleted, WorkerInv, TypeOK
  <2>2. /\ UNCHANGED rank
        /\ raw' = [raw EXCEPT ![e] = [kind |-> "marker", version |-> fetched[w]]]
        /\ status' = [status EXCEPT ![e] = "DELETED"]
        /\ core' = IF r \notin Folios /\ NotOlder(r, e)
                      THEN [core EXCEPT ![r] = Tombstone(core[r], e)]
                      ELSE core
    BY <1>3, <2>0 DEF MarkDeleted, api
  <2>3. /\ \A f \in Events : status'[f] = IF f = e THEN "DELETED" ELSE status[f]
        /\ \A f \in Events : f # e => raw'[f] = raw[f]
        /\ raw'[e].kind = "marker"
    BY <2>1, <2>2 DEF TypeOK
  <2>4. \A s \in Resources \ {r} : core[s].writer # NoEvent => core[s].writer \in Events \ {e}
    BY DEF RowInv, TypeOK
  <2>5. CASE r \notin Folios /\ NotOlder(r, e)
    <3>1. /\ \A s \in Resources : s # r => core'[s] = core[s]
          /\ core'[r].writer = e /\ core'[r].deleted
      BY <2>1, <2>2, <2>5 DEF TypeOK, Tombstone
    <3>2. SchemasAgree'
      <4>1. ASSUME NEW f \in Events, raw'[f].kind # "none" PROVE status'[f] # "NONE"
        BY <2>3, <4>1 DEF RowInv, SchemasAgree
      <4>2. ASSUME NEW s \in Resources, NEW f, f = core'[s].writer, f # NoEvent
            PROVE  /\ raw'[f].kind # "none"
                   /\ s \in Folios \/ IF raw'[f].kind = "payload"
                                        THEN core'[s].version = raw'[f].version
                                        ELSE core'[s].deleted
        <5>1. CASE s = r
          BY <2>3, <3>1, <4>2, <5>1
        <5>2. CASE s # r
          BY <2>3, <2>4, <3>1, <4>2, <5>2 DEF RowInv, SchemasAgree
        <5>3. QED BY <5>1, <5>2
      <4>3. QED BY <4>1, <4>2 DEF SchemasAgree
    <3>3. \A f \in Events : Reflected(f) => Reflected(f)'
      BY <2>1, <2>5, <3>1 DEF Reflected, NotOlder, TypeOK
    <3>4. Reflected(e)'
      BY <2>1, <3>1 DEF Reflected
    <3>5. QED BY <2>1, <2>2, <2>3, <3>1, <3>2, <3>3, <3>4 DEF RowInv, Emitted
  <2>6. CASE ~(r \notin Folios /\ NotOlder(r, e))
    <3>1. UNCHANGED core
      BY <2>2, <2>6
    <3>2. SchemasAgree'
      <4>1. ASSUME NEW f \in Events, raw'[f].kind # "none" PROVE status'[f] # "NONE"
        BY <2>3, <4>1 DEF RowInv, SchemasAgree
      <4>2. ASSUME NEW s \in Resources, NEW f, f = core'[s].writer, f # NoEvent
            PROVE  /\ raw'[f].kind # "none"
                   /\ s \in Folios \/ IF raw'[f].kind = "payload"
                                        THEN core'[s].version = raw'[f].version
                                        ELSE core'[s].deleted
        <5>1. f # e \/ (s \in Folios /\ raw'[f].kind = "marker")
          BY <2>3, <2>4, <2>6, <3>1, <4>2 DEF NotOlder
        <5>2. f \in Events
          BY <3>1, <4>2 DEF TypeOK
        <5>3. QED BY <2>3, <3>1, <4>2, <5>1, <5>2 DEF RowInv, SchemasAgree
      <4>3. QED BY <4>1, <4>2 DEF SchemasAgree
    <3>3. r \notin Folios => Reflected(e)'
      BY <2>1, <2>6, <3>1 DEF Reflected, NotOlder, TypeOK
    <3>4. QED BY <2>1, <2>2, <2>3, <3>1, <3>2, <3>3 DEF RowInv, Emitted, Reflected
  <2>7. QED BY <2>5, <2>6
<1>4. ASSUME NEW w \in Workers, MarkFailed(w) PROVE RowInv'
  <2>1. /\ UNCHANGED <<rank, raw, core>>
        /\ event[w] \in Events /\ Emitted(event[w])
        /\ \/ status' = [status EXCEPT ![event[w]] = "FAILED"]
           \/ status' = status
    BY <1>4 DEF MarkFailed, WorkerInv, TypeOK, api
  <2>2. QED BY <2>1 DEF RowInv, SchemasAgree, Reflected, Emitted, TypeOK
<1>5. ASSUME UNCHANGED <<rank, status, raw, core>> PROVE RowInv'
  BY <1>5 DEF RowInv, SchemasAgree, Reflected, Emitted
<1>6. QED
  BY <1>1, <1>2, <1>3, <1>4, <1>5, StepKinds
     DEF Deliver, Unresolvable, Fetch, Register, Deduplicate, Abort, Writes, api, db, vars

\* A step that gives no worker an insertion keeps OffsetInv, if it changes the
\* status of an event only when that event had one.
LEMMA OffsetsStay ==
    ASSUME TypeOK, OffsetInv,
           \A u \in Workers : Inserting(u)' => Inserting(u) /\ event'[u] = event[u],
           \A f \in Events : status[f] = "NONE" => status'[f] = "NONE"
    PROVE  OffsetInv'
  BY DEF OffsetInv, OneEventPerOffset, Inserting

\* A transaction commits a row for event e: either there was one, or its worker
\* was inserting it.
LEMMA RowCommitted ==
    ASSUME TypeOK, WorkerInv, OffsetInv, NEW w \in Workers, pc[w] # "idle", HasRow(w),
           Release(w),
           NEW s, s # "NONE", status' = [status EXCEPT ![event[w]] = s]
    PROVE  OffsetInv'
<1>1. event[w] \in Events
  BY DEF TypeOK
<1>2. /\ ~Inserting(w)'
      /\ \A u \in Workers \ {w} : seen'[u] = seen[u] /\ event'[u] = event[u]
  BY DEF Release, Inserting, TypeOK
<1>3. \A u \in Workers : Inserting(u) => event[u] \in Events
  BY DEF Inserting, WorkerInv, TypeOK
<1>4. CASE status[event[w]] # "NONE"
  BY <1>1, <1>2, <1>4, OffsetsStay DEF TypeOK, Inserting
<1>5. CASE Inserting(w)
  <2>1. \A f \in Events : Collides(event[w], f) => status[f] = "NONE"
    BY <1>5 DEF OffsetInv
  <2>2. \A u \in Workers : Inserting(u)' => Inserting(u) /\ ~Collides(event[u], event[w])
    BY <1>2, <1>5 DEF OffsetInv, Inserting
  <2>3. \A u \in Workers : Inserting(u)' =>
            \A f \in Events : Collides(event'[u], f) => status'[f] = "NONE"
    BY <1>1, <1>2, <2>2 DEF OffsetInv, TypeOK, Inserting
  <2>4. \A f \in Events : Twins(event[w], f) /\ status'[f] # "NONE" => f = event[w]
    BY <1>1, <2>1 DEF Collides, TypeOK
  <2>5. OneEventPerOffset'
    BY <1>1, <2>4 DEF OffsetInv, OneEventPerOffset, Twins, TypeOK
  <2>6. QED BY <1>2, <2>3, <2>5 DEF OffsetInv, Inserting
<1>6. QED BY <1>4, <1>5 DEF HasRow

LEMMA OffsetKept == TypeOK /\ WorkerInv /\ OffsetInv /\ [Next]_vars => OffsetInv'
<1> SUFFICES ASSUME TypeOK, WorkerInv, OffsetInv, [Next]_vars PROVE OffsetInv'
  OBVIOUS
<1> USE LedgerAssumption
<1>1. ASSUME NEW e \in Events, Emit(e) PROVE OffsetInv'
  BY <1>1, OffsetsStay DEF Emit, db, workers, Inserting
<1>2. ASSUME NEW w \in Workers, NEW e \in Events, Deliver(w, e) PROVE OffsetInv'
  BY <1>2, OffsetsStay DEF Deliver, WorkerInv, Inserting, TypeOK, db
<1>3. ASSUME NEW w \in Workers, Unresolvable(w) PROVE OffsetInv'
  BY <1>3, OffsetsStay DEF Unresolvable, Inserting, db
<1>4. ASSUME NEW w \in Workers, Release(w), UNCHANGED status PROVE OffsetInv'
  BY <1>4, OffsetsStay DEF Release, Inserting, TypeOK
<1>5. ASSUME NEW w \in Workers, Fetch(w) PROVE OffsetInv'
  <2>1. UNCHANGED status
    BY <1>5 DEF Fetch, db
  <2>2. Release(w) \/ UNCHANGED <<event, seen>>
    BY <1>5 DEF Fetch
  <2>3. CASE UNCHANGED <<event, seen>>
    BY <2>1, <2>3, OffsetsStay DEF Inserting
  <2>4. QED BY <1>4, <2>1, <2>2, <2>3
<1>6. ASSUME NEW w \in Workers, Register(w) PROVE OffsetInv'
  <2>1. PICK s \in RegisteredStatus(event[w]) : seen' = [seen EXCEPT ![w] = s]
    BY <1>6 DEF Register
  <2>2. /\ UNCHANGED <<status, event>> /\ event[w] \in Events /\ seen[w] = "NONE"
        /\ \A u \in Workers \ {w} : Inserting(u) => ~Collides(event[w], event[u])
    BY <1>6 DEF Register, TypeOK, db
  <2>3. CASE s # "RECEIVED"
    BY <2>1, <2>2, <2>3, OffsetsStay DEF Inserting, TypeOK
  <2>4. CASE s = "RECEIVED"
    <3>1. \A f \in Events : Collides(event[w], f) => status[f] = "NONE"
      BY <2>1, <2>2, <2>4 DEF RegisteredStatus, Collides, TypeOK, Committed
    <3>2. \A u \in Workers \ {w} : Inserting(u) => ~Collides(event[u], event[w])
      BY <2>2 DEF Collides, Twins
    <3>3. \A u \in Workers \ {w} : seen'[u] = seen[u]
      BY <2>1 DEF TypeOK
    <3>4. QED BY <2>2, <3>1, <3>2, <3>3 DEF OffsetInv, OneEventPerOffset, Inserting
  <2>5. QED BY <2>3, <2>4
<1>7. ASSUME NEW w \in Workers, Deduplicate(w) \/ Abort(w) PROVE OffsetInv'
  BY <1>4, <1>7 DEF Deduplicate, Abort, db
<1>8. ASSUME NEW w \in Workers, Persist(w) PROVE OffsetInv'
  BY <1>8, RowCommitted DEF Persist
<1>9. ASSUME NEW w \in Workers, MarkDeleted(w) PROVE OffsetInv'
  BY <1>9, RowCommitted DEF MarkDeleted
<1>10. ASSUME NEW w \in Workers, MarkFailed(w) PROVE OffsetInv'
  <2>1. CASE HasRow(w)
    BY <1>10, <2>1, RowCommitted DEF MarkFailed
  <2>2. CASE ~HasRow(w)
    BY <1>4, <1>10, <2>2 DEF MarkFailed
  <2>3. QED BY <2>1, <2>2
<1>11. CASE UNCHANGED vars
  BY <1>11, OffsetsStay DEF vars, Inserting
<1>12. QED
  BY <1>1, <1>2, <1>3, <1>5, <1>6, <1>7, <1>8, <1>9, <1>10, <1>11, StepKinds DEF Writes

-----------------------------------------------------------------------------
(* The theorems.                                                           *)

LedgerInv == TypeOK /\ WorldInv /\ WorkerInv /\ RowInv /\ OffsetInv

LEMMA LedgerInvariant == Spec => []LedgerInv
<1>1. Init => WorldInv /\ WorkerInv /\ RowInv /\ OffsetInv
  BY LedgerAssumption DEF Init, WorldInv, WorkerInv, RowInv, OffsetInv, SchemasAgree,
     OneEventPerOffset, Inserting, Emitted
<1>2. QED
  BY <1>1, TypeCorrect, WorldKept, WorkerKept, RowKept, OffsetKept, PTL DEF Spec, LedgerInv

\* The three schemas never disagree, whatever interleaving of deliveries,
\* aborted transactions and repeated deliveries of an event produced them
\* (_persist, _mark_deleted: one transaction over the three).
THEOREM SchemasAlwaysAgree == Spec => []SchemasAgree
<1>1. LedgerInv => SchemasAgree
  BY DEF LedgerInv, RowInv
<1>2. QED BY <1>1, LedgerInvariant, PTL

\* Two events never share a stream offset in the ledger (register_event).
THEOREM OffsetsAreUnique == Spec => []OneEventPerOffset
<1>1. LedgerInv => OneEventPerOffset
  BY DEF LedgerInv, OffsetInv
<1>2. QED BY <1>1, LedgerInvariant, PTL

\* Of two events of a resource, the one that occurred later is the one that was
\* announced later.
LEMMA LaterIsNewer ==
    ASSUME DistinctTimes, LedgerInv, NEW e \in Events, NEW f \in Events,
           ResourceOf[e] = ResourceOf[f], OccurredAt[e] <= OccurredAt[f], Emitted(f)
    PROVE  rank[e] <= rank[f]
<1>1. CASE OccurredAt[e] = OccurredAt[f]
  BY <1>1 DEF DistinctTimes, LedgerInv, TypeOK
<1>2. CASE OccurredAt[e] < OccurredAt[f]
  BY <1>2 DEF LedgerInv, WorldInv, TypeOK
<1>3. QED BY <1>1, <1>2, LedgerAssumption

\* When timestamps tell the events of a resource apart, a COMPLETED event is
\* reflected in opera_core for good: no redelivery, no slow worker and no
\* repeated transaction brings an older row back (the WHERE clause of the
\* upserts).
THEOREM CompletedStaysReflected ==
    ASSUME DistinctTimes PROVE Spec => []CompletedIsReflected
<1>1. LedgerInv => CompletedIsReflected
  <2> SUFFICES ASSUME LedgerInv, NEW e \in Events, status[e] = "COMPLETED",
                      ResourceOf[e] \notin Folios
               PROVE  /\ core[ResourceOf[e]].writer # NoEvent
                      /\ rank[core[ResourceOf[e]].writer] >= rank[e]
                      /\ \/ core[ResourceOf[e]].version >= rank[e]
                         \/ raw[core[ResourceOf[e]].writer].kind = "marker"
    BY DEF CompletedIsReflected
  <2> DEFINE r == ResourceOf[e]
             writer == core[r].writer
  <2>1. r \in Resources /\ writer # NoEvent /\ OccurredAt[e] <= OccurredAt[writer]
    BY LedgerAssumption DEF LedgerInv, RowInv, Reflected
  <2>2. writer \in Events /\ ResourceOf[writer] = r
    BY <2>1 DEF LedgerInv, RowInv, TypeOK
  <2>3. raw[writer].kind # "none" /\ Emitted(writer)
    BY <2>1, <2>2 DEF LedgerInv, RowInv, SchemasAgree
  <2>4. rank[e] <= rank[writer]
    BY <2>1, <2>2, <2>3, LaterIsNewer
  <2>5. raw[writer].kind = "payload" => rank[writer] <= core[r].version
    BY <2>1, <2>2 DEF LedgerInv, RowInv, SchemasAgree
  <2>6. rank[e] \in Nat /\ rank[writer] \in Nat /\ core[r].version \in Nat
        /\ raw[writer].kind \in {"none", "payload", "marker"}
    BY <2>1, <2>2 DEF LedgerInv, TypeOK
  <2>7. QED BY <2>1, <2>3, <2>4, <2>5, <2>6
<1>2. QED BY <1>1, LedgerInvariant, PTL

\* The same for a DELETED event, a folio's excepted (mark_resource_deleted).
THEOREM DeletedStaysReflected ==
    ASSUME DistinctTimes PROVE Spec => []DeletedIsReflected
<1>1. LedgerInv => DeletedIsReflected
  <2> SUFFICES ASSUME LedgerInv, NEW e \in Events, status[e] = "DELETED",
                      ResourceOf[e] \notin Folios
               PROVE  /\ core[ResourceOf[e]].writer # NoEvent
                      /\ rank[core[ResourceOf[e]].writer] >= rank[e]
    BY DEF DeletedIsReflected
  <2> DEFINE r == ResourceOf[e]
             writer == core[r].writer
  <2>1. r \in Resources /\ writer # NoEvent /\ OccurredAt[e] <= OccurredAt[writer]
    BY LedgerAssumption DEF LedgerInv, RowInv, Reflected
  <2>2. writer \in Events /\ ResourceOf[writer] = r
    BY <2>1 DEF LedgerInv, RowInv, TypeOK
  <2>3. Emitted(writer)
    BY <2>1, <2>2 DEF LedgerInv, RowInv, SchemasAgree
  <2>4. rank[e] <= rank[writer]
    BY <2>1, <2>2, <2>3, LaterIsNewer
  <2>5. rank[e] \in Nat /\ rank[writer] \in Nat
    BY <2>2 DEF LedgerInv, TypeOK
  <2>6. QED BY <2>1, <2>4, <2>5
<1>2. QED BY <1>1, LedgerInvariant, PTL

\* When timestamps tell the events of a resource apart, no transaction replaces
\* what an event wrote by what an earlier event writes (the WHERE clause of the
\* upserts and of mark_resource_deleted).
THEOREM RowsOnlyGoForward ==
    ASSUME DistinctTimes PROVE Spec => OlderEventNeverOverwrites
<1> DEFINE Forward(r) ==
               core[r].writer # NoEvent /\ core'[r] # core[r]
                  => rank[core'[r].writer] >= rank[core[r].writer]
<1>1. ASSUME LedgerInv, [Next]_vars, NEW r \in Resources PROVE Forward(r)
  <2>1. SUFFICES ASSUME NEW w \in Workers, Persist(w) \/ MarkDeleted(w),
                        core[r].writer # NoEvent, core'[r] # core[r]
                 PROVE  rank[core'[r].writer] >= rank[core[r].writer]
    BY <1>1, StepKinds
       DEF LedgerInv, Emit, Deliver, Unresolvable, Fetch, Register, Deduplicate, MarkFailed,
           Abort, Writes, api, db, vars
  <2> DEFINE e == event[w]
             old == core[r].writer
  <2>2. e \in Events /\ Emitted(e) /\ ResourceOf[e] \in Resources
    BY <1>1, <2>1, LedgerAssumption DEF Persist, MarkDeleted, LedgerInv, WorkerInv, TypeOK
  <2>3. r = ResourceOf[e] /\ NotOlder(r, e) /\ core'[r].writer = e
    BY <1>1, <2>1, <2>2 DEF Persist, MarkDeleted, Upserted, Tombstone, LedgerInv, TypeOK
  <2>4. old \in Events /\ ResourceOf[old] = r /\ OccurredAt[old] <= OccurredAt[e]
    BY <1>1, <2>1, <2>3 DEF NotOlder, LedgerInv, RowInv, TypeOK
  <2>5. rank[old] <= rank[e]
    BY <1>1, <2>2, <2>3, <2>4, LaterIsNewer
  <2>6. rank[old] \in Nat /\ rank[e] \in Nat
    BY <1>1, <2>2, <2>4 DEF LedgerInv, TypeOK
  <2>7. QED BY <2>3, <2>5, <2>6
<1>2. LedgerInv /\ [Next]_vars => [\A r \in Resources : Forward(r)]_vars
  BY <1>1
<1>3. QED BY <1>2, LedgerInvariant, PTL DEF Spec, OlderEventNeverOverwrites

-----------------------------------------------------------------------------
(* The refinement.                                                         *)

\* A response is not from the future, and only a destructive event is deleted.
AnswerInv ==
    \A w \in Workers :
        /\ pc[w] \in {"persist", "delete"} => fetched[w] <= version[ResourceOf[event[w]]]
        /\ pc[w] = "delete" => event[w] \in Destructive

LEMMA AnswerKept == TypeOK /\ AnswerInv /\ [Next]_vars => AnswerInv'
<1> SUFFICES ASSUME TypeOK, AnswerInv, [Next]_vars PROVE AnswerInv'
  OBVIOUS
<1> USE LedgerAssumption
<1>1. ASSUME NEW e \in Events, Emit(e) PROVE AnswerInv'
  <2>1. /\ \A r \in Resources : version[r] <= version'[r]
        /\ UNCHANGED <<pc, event, fetched>>
    BY <1>1 DEF Emit, workers, TypeOK
  <2>2. \A r \in Resources : version[r] \in Nat /\ version'[r] \in Nat
    BY <1>1 DEF Emit, TypeOK
  <2>3. \A w \in Workers : pc[w] # "idle" => ResourceOf[event[w]] \in Resources
    BY DEF TypeOK
  <2>4. QED BY <2>1, <2>2, <2>3 DEF AnswerInv, TypeOK
<1>2. ASSUME NEW w \in Workers, Fetch(w) PROVE AnswerInv'
  <2>1. PICK code \in Answers(ResourceOf[event[w]]) :
            IF Decision(code, event[w]) = "retry"
               THEN Release(w)
               ELSE /\ pc' = [pc EXCEPT ![w] = Decision(code, event[w])]
                    /\ fetched' = [fetched EXCEPT ![w] = version[ResourceOf[event[w]]]]
                    /\ UNCHANGED <<event, seen>>
    BY <1>2 DEF Fetch
  <2>2. UNCHANGED version /\ pc[w] = "fetch"
    BY <1>2 DEF Fetch, api
  <2>3. CASE Decision(code, event[w]) = "retry"
    BY <2>1, <2>2, <2>3 DEF Release, AnswerInv, TypeOK
  <2>4. CASE Decision(code, event[w]) # "retry"
    <3>1. Decision(code, event[w]) = "delete" => event[w] \in Destructive
      BY DEF Decision
    <3>2. version[ResourceOf[event[w]]] \in Nat
      BY <2>2 DEF TypeOK
    <3>3. QED BY <2>1, <2>2, <2>4, <3>1, <3>2 DEF AnswerInv, TypeOK
  <2>5. QED BY <2>3, <2>4
<1>3. ASSUME NEW w \in Workers, Deduplicate(w) \/ Abort(w) \/ Writes(w) PROVE AnswerInv'
  <2>1. Release(w) /\ UNCHANGED version
    BY <1>3 DEF Deduplicate, Abort, Writes, Persist, MarkDeleted, MarkFailed, api
  <2>2. QED BY <2>1 DEF Release, AnswerInv, TypeOK
<1>4. ASSUME NEW w \in Workers, NEW e \in Events, Deliver(w, e) PROVE AnswerInv'
  BY <1>4 DEF Deliver, AnswerInv, TypeOK, api
<1>5. ASSUME NEW w \in Workers, Unresolvable(w) \/ Register(w) PROVE AnswerInv'
  BY <1>5 DEF Unresolvable, Register, AnswerInv, TypeOK, api
<1>6. CASE UNCHANGED vars
  BY <1>6 DEF vars, AnswerInv
<1>7. QED
  BY <1>1, <1>2, <1>3, <1>4, <1>5, <1>6, StepKinds

\* The mapped state of the rows, seen from a reader.
Latest   == [r \in Resources |-> core[r].writer]
Shown    == [r \in Resources |-> core[r].version]
Gone     == {r \in Resources : core[r].deleted}
Finished == {e \in Events : status[e] \in {"COMPLETED", "DELETED"}}

\* A row is older than an event exactly when a reader sees it superseded by none.
LEMMA OldRowsMap ==
    ASSUME TypeOK, NEW e \in Events
    PROVE  NotOlder(ResourceOf[e], e) <=> ~Reader!Superseded(e)
<1>1. ResourceOf[e] \in Resources /\ core[ResourceOf[e]].writer \in Events \cup {NoEvent}
  BY LedgerAssumption DEF TypeOK
<1>2. \A f \in Events : OccurredAt[f] \in Nat
  BY LedgerAssumption
<1>3. QED BY <1>1, <1>2 DEF NotOlder, Reader!Superseded

\* A step of the database that leaves rows and finished events alone.
LEMMA NothingToSee ==
    ASSUME UNCHANGED <<rank, version, core>>,
           \A e \in Events : status'[e] \in {"COMPLETED", "DELETED"}
                                <=> status[e] \in {"COMPLETED", "DELETED"}
    PROVE  UNCHANGED Reader!vars
  BY DEF Reader!vars, Reader!world, Reader!rows

\* The ledger implements Projection: every transaction, seen by a reader of
\* opera_core, is one step in which the row and the status of the event change
\* together, the row does not go back, and what it shows was true at or after
\* the announcement (_persist, _mark_deleted, mark_failed).
THEOREM LedgerImplementsProjection == Spec => ImplementsProjection
<1>1. Init => Reader!Init
  BY LedgerAssumption DEF Init, Reader!Init
<1>2. Init => AnswerInv
  BY DEF Init, AnswerInv
<1>3. LedgerInv /\ AnswerInv /\ [Next]_vars => [Reader!Next]_(Reader!vars)
  <2> SUFFICES ASSUME LedgerInv, AnswerInv, [Next]_vars
               PROVE  [Reader!Next]_(Reader!vars)
    OBVIOUS
  <2> USE LedgerAssumption
  <2>0. TypeOK
    BY DEF LedgerInv
  <2>1. ASSUME NEW e \in Events, Emit(e) PROVE Reader!Announce(e)
    <3>1. /\ rank[e] = 0
          /\ version' = [version EXCEPT ![ResourceOf[e]] = version[ResourceOf[e]] + 1]
          /\ rank' = [rank EXCEPT ![e] = version[ResourceOf[e]] + 1]
          /\ UNCHANGED <<status, core>>
      BY <2>0, <2>1 DEF Emit, Emitted, TypeOK, db
    <3>2. version'[ResourceOf[e]] = version[ResourceOf[e]] + 1
      BY <2>0, <3>1 DEF TypeOK
    <3>3. QED BY <3>1, <3>2 DEF Reader!Announce, Reader!rows
  <2>2. ASSUME NEW w \in Workers, NEW e \in Events, e = event[w], Persist(w)
        PROVE  Reader!Show(e) \/ Reader!Pass(e)
    <3> DEFINE r == ResourceOf[e]
    <3>1. e \in Events /\ r \in Resources /\ rank[e] > 0 /\ UNCHANGED <<rank, version>>
      BY <2>0, <2>2 DEF Persist, LedgerInv, WorkerInv, Emitted, TypeOK, api
    <3>2. fetched[w] \in rank[e]..version[r]
      BY <2>0, <2>2, <3>1 DEF Persist, LedgerInv, WorkerInv, AnswerInv, TypeOK
    <3>3. Finished' = Finished \cup {e}
      BY <2>0, <2>2, <3>1 DEF Persist, Finished, TypeOK
    <3>4. Reader!Finish(e)
      BY <3>1, <3>3 DEF Reader!Finish, Reader!world, Finished
    <3>5. \/ NotOlder(r, e) /\ core' = [core EXCEPT ![r] = Upserted(core[r], e, fetched[w])]
          \/ (r \in Folios \/ ~NotOlder(r, e)) /\ UNCHANGED core
      BY <2>2 DEF Persist, Listed
    <3>6. CASE NotOlder(r, e) /\ core' = [core EXCEPT ![r] = Upserted(core[r], e, fetched[w])]
      <4>1. \A s \in Resources : core'[s] = IF s = r THEN Upserted(core[r], e, fetched[w])
                                                     ELSE core[s]
        BY <2>0, <3>1, <3>6 DEF TypeOK
      <4>2. Latest' = [Latest EXCEPT ![r] = e]
        <5>1. \A s \in Resources : core'[s].writer = IF s = r THEN e ELSE core[s].writer
          BY <4>1 DEF Upserted
        <5>2. QED BY <3>1, <5>1 DEF Latest
      <4>3. Shown' = [Shown EXCEPT ![r] = fetched[w]]
        <5>1. \A s \in Resources : core'[s].version = IF s = r THEN fetched[w] ELSE core[s].version
          BY <4>1 DEF Upserted
        <5>2. QED BY <3>1, <5>1 DEF Shown
      <4>4. Gone' = Gone
        BY <3>1, <4>1 DEF Gone, Upserted
      <4>5. ~Reader!Superseded(e)
        BY <2>0, <3>1, <3>6, OldRowsMap
      <4>6. QED BY <3>2, <3>4, <4>2, <4>3, <4>4, <4>5 DEF Reader!Show, Latest, Shown, Gone
    <3>7. CASE (r \in Folios \/ ~NotOlder(r, e)) /\ UNCHANGED core
      <4>1. r \in Folios \/ Reader!Superseded(e)
        BY <2>0, <3>1, <3>7, OldRowsMap
      <4>2. QED BY <3>4, <3>7, <4>1 DEF Reader!Pass, Reader!rows
    <3>8. QED BY <3>5, <3>6, <3>7
  <2>3. ASSUME NEW w \in Workers, NEW e \in Events, e = event[w], MarkDeleted(w)
        PROVE  Reader!Bury(e) \/ Reader!Pass(e)
    <3> DEFINE r == ResourceOf[e]
    <3>1. e \in Events /\ r \in Resources /\ rank[e] > 0 /\ UNCHANGED <<rank, version>>
      BY <2>0, <2>3 DEF MarkDeleted, LedgerInv, WorkerInv, Emitted, TypeOK, api
    <3>2. e \in Destructive
      BY <2>3 DEF MarkDeleted, AnswerInv
    <3>3. Finished' = Finished \cup {e}
      BY <2>0, <2>3, <3>1 DEF MarkDeleted, Finished, TypeOK
    <3>4. Reader!Finish(e)
      BY <3>1, <3>3 DEF Reader!Finish, Reader!world, Finished
    <3>5. CASE r \notin Folios /\ NotOlder(r, e)
      <4>1. \A s \in Resources : core'[s] = IF s = r THEN Tombstone(core[r], e) ELSE core[s]
        BY <2>0, <2>3, <3>1, <3>5 DEF MarkDeleted, TypeOK
      <4>2. Latest' = [Latest EXCEPT ![r] = e]
        <5>1. \A s \in Resources : core'[s].writer = IF s = r THEN e ELSE core[s].writer
          BY <4>1 DEF Tombstone
        <5>2. QED BY <3>1, <5>1 DEF Latest
      <4>3. Shown' = Shown
        BY <3>1, <4>1 DEF Shown, Tombstone
      <4>4. Gone' = Gone \cup {r}
        BY <3>1, <4>1 DEF Gone, Tombstone
      <4>5. ~Reader!Superseded(e)
        BY <2>0, <3>1, <3>5, OldRowsMap
      <4>6. QED BY <3>2, <3>4, <3>5, <4>2, <4>3, <4>4, <4>5
                DEF Reader!Bury, Latest, Shown, Gone
    <3>6. CASE ~(r \notin Folios /\ NotOlder(r, e))
      <4>1. UNCHANGED core
        BY <2>3, <3>6 DEF MarkDeleted
      <4>2. r \in Folios \/ Reader!Superseded(e)
        BY <2>0, <3>1, <3>6, OldRowsMap
      <4>3. QED BY <3>4, <4>1, <4>2 DEF Reader!Pass, Reader!rows
    <3>7. QED BY <3>5, <3>6
  <2>4. ASSUME NEW w \in Workers, NEW e \in Events, e = event[w], MarkFailed(w)
        PROVE  Reader!Withdraw(e) \/ UNCHANGED Reader!vars
    <3>1. e \in Events /\ UNCHANGED <<rank, version, core>>
      BY <2>0, <2>4 DEF MarkFailed, TypeOK, api
    <3>2. CASE status' = [status EXCEPT ![e] = "FAILED"]
      <4>1. Finished' = Finished \ {e}
        BY <2>0, <3>1, <3>2 DEF Finished, TypeOK
      <4>2. QED BY <3>1, <4>1 DEF Reader!Withdraw, Reader!world, Reader!rows, Finished
    <3>3. CASE UNCHANGED status
      BY <3>1, <3>3, NothingToSee
    <3>4. QED BY <2>4, <3>2, <3>3 DEF MarkFailed
  <2>5. ASSUME UNCHANGED <<rank, version, core, status>> PROVE UNCHANGED Reader!vars
    BY <2>5, NothingToSee
  <2>6. ASSUME NEW w \in Workers, NEW e \in Events, Deliver(w, e)
        PROVE  UNCHANGED <<rank, version, core, status>>
    BY <2>6 DEF Deliver, api, db
  <2>7. ASSUME NEW w \in Workers,
               \/ Unresolvable(w) \/ Fetch(w) \/ Register(w) \/ Deduplicate(w) \/ Abort(w)
        PROVE  UNCHANGED <<rank, version, core, status>>
    BY <2>7 DEF Unresolvable, Fetch, Register, Deduplicate, Abort, api, db
  <2>8. ASSUME UNCHANGED vars PROVE UNCHANGED <<rank, version, core, status>>
    BY <2>8 DEF vars
  <2>9. \A w \in Workers : pc[w] # "idle" => event[w] \in Events
    BY <2>0 DEF TypeOK
  <2>10. ASSUME NEW w \in Workers, Writes(w) PROVE pc[w] # "idle"
    BY <2>10 DEF Writes, Persist, MarkDeleted, MarkFailed
  <2>11. ASSUME NEW w \in Workers, Writes(w) PROVE [Reader!Next]_(Reader!vars)
    <3>1. PICK e \in Events : e = event[w]
      BY <2>9, <2>10, <2>11
    <3>2. \/ Reader!Show(e) \/ Reader!Pass(e) \/ Reader!Bury(e) \/ Reader!Withdraw(e)
          \/ UNCHANGED Reader!vars
      BY <2>2, <2>3, <2>4, <2>11, <3>1 DEF Writes
    <3>3. QED BY <3>2 DEF Reader!Next
  <2>12. QED
    BY <2>1, <2>5, <2>6, <2>7, <2>8, <2>11, StepKinds DEF Reader!Next
<1>4. QED
  BY <1>1, <1>2, <1>3, AnswerKept, LedgerInvariant, PTL
     DEF Spec, ImplementsProjection, Reader!Spec, LedgerInv
=============================================================================
