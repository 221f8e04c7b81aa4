---------------------------- MODULE LoadTest_proofs ----------------------------
(***************************************************************************)
(* The load test, for any number of tasks, events, partitions and sizes: its *)
(* types, that no event is lost before a failed run deletes its queues, and  *)
(* that the report of a run that returns is true.  What holds them together  *)
(* is what a task knows of its batch once its transaction is committed, and  *)
(* that the count never runs ahead of the events seen.                       *)
(***************************************************************************)
EXTENDS LoadTest, FiniteSetTheorems, TLAPS

\* The types, with a count that nothing bounds yet.
Types ==
    /\ handed \in 0..Total
    /\ published \subseteq Events
    /\ queue \subseteq published /\ inflight \subseteq queue /\ dlq \subseteq published
    /\ receives \in [Events -> 0..MaxReceive]
    /\ left \subseteq Queues
    /\ stored \subseteq Events
    /\ pc \in [Tasks -> Stages]
    /\ records \in [Tasks -> SUBSET (Events \X (1..MaxReceive))]
    /\ final \subseteq Tasks
    /\ seen \subseteq Events
    /\ count \in Nat
    /\ late \in BOOLEAN
    /\ run \in {"running", "returned", "failed"}

\* A batch that is about to be deleted or counted has been stored.
BatchStored == \A t \in Tasks : pc[t] \in {"delete", "count"} => EventsOf(records[t]) \subseteq stored

\* What is counted has been seen, and what has been seen is stored.
CountBehind == seen \subseteq stored /\ count <= Cardinality(seen)

\* The run returns only with all of it counted.
ReturnsComplete == run = "returned" => count = Total

Inv == Types /\ BatchStored /\ CountBehind /\ ReturnsComplete /\ NothingLost

\* The events of a set of receipts are events.
LEMMA EventsOfType ==
    ASSUME NEW batch \in SUBSET (Events \X (1..MaxReceive))
    PROVE  EventsOf(batch) \subseteq Events
  BY DEF EventsOf

LEMMA Sizes == Total \in Nat \ {0} /\ MaxReceive \in Nat \ {0}
  BY LoadTestAssumption

LEMMA EventsFinite == IsFiniteSet(Events) /\ Cardinality(Events) = Total
  BY FS_Interval, LoadTestAssumption DEF Events

\* A chunk does not go beyond the last event.
LEMMA ChunkFits ==
    ASSUME handed \in 0..Total
    PROVE  Chunk \subseteq Events /\ handed + Cardinality(Chunk) \in 0..Total
<1>1. Chunk \subseteq (handed + 1)..Total
  BY LoadTestAssumption DEF Chunk, Events
<1>2. IsFiniteSet((handed + 1)..Total) /\ Cardinality((handed + 1)..Total) = Total - handed
  <2>1. handed + 1 \in Int /\ Total \in Int
    BY Sizes
  <2>2. Cardinality((handed + 1)..Total)
          = IF handed + 1 > Total THEN 0 ELSE Total - (handed + 1) + 1
    BY <2>1, FS_Interval
  <2>3. QED BY <2>1, <2>2, FS_Interval, Sizes
<1>3. Cardinality(Chunk) <= Total - handed /\ Cardinality(Chunk) \in Nat
  BY <1>1, <1>2, FS_Subset, FS_CardinalityType
<1>4. QED BY <1>3, LoadTestAssumption DEF Chunk

\* The count grows by no more than the events seen for the first time.
LEMMA CountedIsNew ==
    ASSUME NEW batch \in SUBSET (Events \X (1..MaxReceive)), seen \subseteq Events
    PROVE  /\ Counted(batch) \in Nat
           /\ Cardinality(seen) + Counted(batch) <= Cardinality(seen \cup EventsOf(batch))
<1> DEFINE new == EventsOf(batch) \ seen
           all == seen \cup EventsOf(batch)
<1>1. new \subseteq Events /\ all \subseteq Events
  BY EventsOfType
<1>2. IsFiniteSet(new) /\ IsFiniteSet(all) /\ IsFiniteSet(seen)
  BY <1>1, EventsFinite, FS_Subset
<1>3. IsFiniteSet(batch)
  <2>1. IsFiniteSet(1..MaxReceive)
    BY FS_Interval, Sizes
  <2>2. IsFiniteSet(Events \X (1..MaxReceive))
    BY <2>1, EventsFinite, FS_Product
  <2>3. QED BY <2>2, FS_Subset
<1>4. /\ Cardinality(new) \in Nat /\ Cardinality(seen) \in Nat /\ Cardinality(batch) \in Nat
      /\ Cardinality(all) \in Nat
  BY <1>2, <1>3, FS_CardinalityType
<1>5. Cardinality(all) = Cardinality(seen) + Cardinality(new)
  <2>1. all = seen \cup new /\ seen \cap new = {}
    OBVIOUS
  <2>2. Cardinality(seen \cup new)
          = Cardinality(seen) + Cardinality(new) - Cardinality(seen \cap new)
    BY <1>2, FS_Union
  <2>3. Cardinality(seen \cap new) = 0
    BY <2>1, FS_EmptySet
  <2>4. QED BY <2>1, <2>2, <2>3, <1>4
<1>6. Counted(batch) = IF Cardinality(new) <= Cardinality(batch) THEN Cardinality(new)
                                                                 ELSE Cardinality(batch)
  BY DEF Counted
<1>7. QED BY <1>4, <1>5, <1>6

LEMMA InitInv == Init => Inv
<1> SUFFICES ASSUME Init PROVE Inv
  OBVIOUS
<1>1. Types
  <2>1. receives \in [Events -> 0..MaxReceive] /\ handed \in 0..Total
    BY Sizes DEF Init
  <2>2. pc \in [Tasks -> Stages] /\ records \in [Tasks -> SUBSET (Events \X (1..MaxReceive))]
    BY DEF Init, Stages
  <2>3. QED BY <2>1, <2>2 DEF Init, Types
<1>2. BatchStored /\ ReturnsComplete /\ NothingLost
  BY DEF Init, BatchStored, ReturnsComplete, NothingLost
<1>3. CountBehind
  BY FS_EmptySet DEF Init, CountBehind
<1>4. QED BY <1>1, <1>2, <1>3 DEF Inv

\* What is seen is no more than there is.
LEMMA SeenBounded ==
    ASSUME Inv
    PROVE  /\ Cardinality(seen) \in Nat /\ Cardinality(seen) <= Total
           /\ Cardinality(seen) = Total => seen = Events
<1>1. seen \subseteq Events
  BY DEF Inv, Types
<1>2. QED BY <1>1, EventsFinite, FS_Subset, FS_CardinalityType

\* A run that has returned has stored all there is.
LEMMA ReturnedStored ==
    ASSUME Inv, run = "returned"
    PROVE  stored = Events
<1>1. Cardinality(seen) = Total
  BY SeenBounded, LoadTestAssumption DEF Inv, CountBehind, ReturnsComplete, Types
<1>2. QED BY <1>1, SeenBounded DEF Inv, CountBehind, Types

\* What the clean-up drops of a run that has returned is stored.
LEMMA CleanUpKeeps == Inv /\ CleanUp => Inv'
<1> SUFFICES ASSUME Inv, CleanUp PROVE Inv'
  OBVIOUS
<1>1. Types' /\ BatchStored' /\ CountBehind' /\ ReturnsComplete'
  BY DEF CleanUp, Inv, Types, BatchStored, CountBehind, ReturnsComplete, tally
<1>2. NothingLost'
  <2>1. run = "returned" => published \subseteq stored
    BY ReturnedStored DEF Inv, Types
  <2>2. CASE left' = Queues
    <3>1. UNCHANGED <<published, queue, stored, dlq, run, left>>
      BY <2>2 DEF CleanUp, Queues
    <3>2. QED BY <3>1 DEF Inv, NothingLost
  <2>3. CASE left' # Queues
    <3>1. run \in {"returned", "failed"} /\ UNCHANGED <<published, stored, run>>
      BY DEF CleanUp, Inv, Types
    <3>2. QED BY <2>1, <2>3, <3>1 DEF NothingLost
  <2>4. QED BY <2>2, <2>3
<1>3. QED BY <1>1, <1>2 DEF Inv

\* Every step keeps the invariant.
LEMMA StepInv == Inv /\ [Next]_vars => Inv'
<1> SUFFICES ASSUME Inv, [Next]_vars PROVE Inv'
  OBVIOUS
<1> USE DEF Inv, Types, BatchStored, CountBehind, ReturnsComplete, NothingLost
<1>1. CASE Publish
  BY <1>1, ChunkFits DEF Publish, Send, sqs, tally
<1>2. CASE PublishFails
  BY <1>2, ChunkFits DEF PublishFails, Send, sqs, tally
<1>3. ASSUME NEW e \in Events, Redrive(e) PROVE Inv'
  BY <1>3 DEF Redrive, tally
<1>4. ASSUME NEW e \in Events, Expire(e) PROVE Inv'
  BY <1>4 DEF Expire, tally
<1>5. ASSUME NEW t \in Tasks, Check(t) PROVE Inv'
  BY <1>5 DEF Check, Goto, Stages, sqs, tally
<1>6. ASSUME NEW t \in Tasks, NEW batch \in SUBSET Events, Receive(t, batch) PROVE Inv'
  <2> USE <1>6 DEF Receive, Goto, Stages, tally
  <2>1. Types'
    <3>1. \A e \in batch : receives[e] + 1 \in 1..MaxReceive
      BY LoadTestAssumption DEF Deliverable
    <3>2. records' \in [Tasks -> SUBSET (Events \X (1..MaxReceive))]
      BY <3>1
    <3>3. receives' \in [Events -> 0..MaxReceive]
      BY <3>1, LoadTestAssumption
    <3>4. QED BY <3>2, <3>3 DEF Deliverable
  <2>2. BatchStored' /\ CountBehind' /\ ReturnsComplete' /\ NothingLost'
    OBVIOUS
  <2>3. QED BY <2>1, <2>2
<1>7. ASSUME NEW t \in Tasks, Flush(t) \/ Gather(t) PROVE Inv'
  BY <1>7 DEF Flush, Gather, Goto, Stages, sqs, tally
<1>8. ASSUME NEW t \in Tasks, Store(t) PROVE Inv'
  BY <1>8, EventsOfType DEF Store, Goto, Stages, sqs, tally
<1>9. ASSUME NEW t \in Tasks, Delete(t) PROVE Inv'
  <2>1. Valid(t) \subseteq stored
    BY <1>9 DEF Delete, Valid, EventsOf
  <2>2. QED BY <1>9, <2>1 DEF Delete, Goto, Stages, tally
<1>10. ASSUME NEW t \in Tasks, Raise(t) PROVE Inv'
  <2>1. pc[t] = "delete" => Valid(t) \subseteq stored
    BY DEF Valid, EventsOf
  <2>2. QED BY <1>10, <2>1 DEF Raise, Goto, Stages, tally
<1>11. ASSUME NEW t \in Tasks, Count(t) PROVE Inv'
  <2> USE <1>11 DEF Count, Goto, Stages, sqs
  <2>1. /\ Counted(records[t]) \in Nat
        /\ Cardinality(seen) + Counted(records[t])
             <= Cardinality(seen \cup EventsOf(records[t]))
    BY CountedIsNew
  <2>2. EventsOf(records[t]) \subseteq Events
    BY EventsOfType
  <2>3. Types' /\ BatchStored' /\ NothingLost' /\ ReturnsComplete'
    BY <2>1, <2>2
  <2>4. Cardinality(seen) \in Nat /\ Cardinality(seen \cup EventsOf(records[t])) \in Nat
    BY <2>2, EventsFinite, FS_Subset, FS_CardinalityType
  <2>5. CountBehind'
    BY <2>1, <2>4
  <2>6. QED BY <2>3, <2>5
<1>12. CASE Deadline
  BY <1>12 DEF Deadline, sqs, tally
<1>13. CASE Finish
  BY <1>13 DEF Finish, sqs, tally
<1>14. CASE CleanUp
  BY <1>14, CleanUpKeeps
<1>15. CASE Idle \/ UNCHANGED vars
  BY <1>15 DEF Idle, vars, sqs, tally
<1>16. QED
  BY <1>1, <1>2, <1>3, <1>4, <1>5, <1>6, <1>7, <1>8, <1>9, <1>10, <1>11, <1>12, <1>13, <1>14,
     <1>15
     DEF Next, Task

LEMMA Invariant == Spec => []Inv
  BY InitInv, StepInv, PTL DEF Spec

\* The variables of the load test keep their types, and it never counts more
\* events than there are (count_new_event_ids).
THEOREM TypeCorrect == Spec => []TypeOK
<1>1. Inv => TypeOK
  BY SeenBounded, LoadTestAssumption DEF Inv, Types, CountBehind, TypeOK
<1>2. QED BY <1>1, Invariant, PTL

\* A run that returns has stored every event, however many tasks gather, whatever
\* is delivered again and whichever receipts are ignored (_consume_optimized).
THEOREM ReportHolds == Spec => []ReportIsTrue
<1>1. Inv => ReportIsTrue
  BY ReturnedStored DEF ReportIsTrue
<1>2. QED BY <1>1, Invariant, PTL

\* No event that SQS accepted is lost while a run lasts, nor when it returns and
\* deletes its queues, since a batch is stored before any of it is deleted; what a
\* failed run has not stored goes with its queues (_flush_records, _delete_local_queues).
THEOREM NothingIsLost == Spec => []NothingLost
  BY Invariant, PTL DEF Inv
=============================================================================
