---------------------------- MODULE Delivery_proofs ----------------------------
(***************************************************************************)
(* What the queue and the enricher processes of Delivery guarantee, for any *)
(* number of messages, hotels and processes: the types, that no message is  *)
(* lost when the dead-letter queue is configured, and the order within a    *)
(* hotel.  Each invariant is carried through the steps by what it says of   *)
(* the batches: a working message has an outcome, and a batch holds all that *)
(* the queue still has before any of its messages.                          *)
(***************************************************************************)
EXTENDS Delivery, TLAPS

-----------------------------------------------------------------------------
(* Types.                                                                  *)

\* The batch of a process after a task has gone on with its next message
\* (_process_group, after process_message returned True).
LEMMA ProceedType ==
    ASSUME TypeOK, NEW p \in Procs, NEW m \in Messages, Proceed(p, m)
    PROVE  /\ phase' \in [Procs -> [Messages -> Phases]]
           /\ count' \in [Procs -> [Messages -> 0..MaxReceive]]
  BY DeliveryAssumption DEF TypeOK, Proceed, Rest, Phases

\* The batch of a process after a task has ended (_process_group, break).
LEMMA BreakType ==
    ASSUME TypeOK, NEW p \in Procs, NEW m \in Messages, Break(p, m)
    PROVE  /\ phase' \in [Procs -> [Messages -> Phases]]
           /\ count' \in [Procs -> [Messages -> 0..MaxReceive]]
  BY DeliveryAssumption DEF TypeOK, Break, Rest, Phases

\* The variables always have their types: no delivery is ever counted beyond the
\* redrive policy, in the queue or in a process (SqsConsumer.receive).
THEOREM TypeCorrect == Spec => []TypeOK
<1>1. Init => TypeOK
  BY DeliveryAssumption DEF Init, TypeOK, Phases
<1>2. TypeOK /\ [Next]_vars => TypeOK'
  <2> SUFFICES ASSUME TypeOK, [Next]_vars PROVE TypeOK'
    OBVIOUS
  <2> USE DEF TypeOK
  <2>1. ASSUME NEW p \in Procs, NEW batch \in SUBSET Messages, Receive(p, batch)
        PROVE  TypeOK'
    BY <2>1, DeliveryAssumption DEF Receive, Receivable, Deliver, Deliverable, Phases
  <2>2. ASSUME NEW m \in Messages, Redrive(m) \/ Expire(m)
        PROVE  TypeOK'
    BY <2>2 DEF Redrive, Expire
  <2>3. ASSUME NEW p \in Procs, NEW m \in Messages, Start(p, m)
        PROVE  TypeOK'
    BY <2>3 DEF Start, Advance, queue, Phases
  <2>4. ASSUME NEW p \in Procs, NEW m \in Messages, Enriched(p, m)
        PROVE  TypeOK'
    BY <2>4 DEF Enriched, Advance, queue, Phases
  <2>5. ASSUME NEW p \in Procs, NEW m \in Messages, NotEnriched(p, m)
        PROVE  TypeOK'
    BY <2>5, BreakType DEF NotEnriched, queue
  <2>6. ASSUME NEW p \in Procs, NEW m \in Messages, Poisoned(p, m)
        PROVE  TypeOK'
    <3>1. CASE LastAttempt(p, m)
      BY <2>6, <3>1 DEF Poisoned, Advance, queue, Phases
    <3>2. CASE ~LastAttempt(p, m)
      BY <2>6, <3>2, BreakType DEF Poisoned, queue
    <3>3. QED BY <3>1, <3>2
  <2>7. ASSUME NEW p \in Procs, NEW m \in Messages, SendToDlq(p, m)
        PROVE  TypeOK'
    BY <2>7 DEF SendToDlq, Advance, Phases
  <2>8. ASSUME NEW p \in Procs, NEW m \in Messages, Delete(p, m)
        PROVE  TypeOK'
    BY <2>8, ProceedType DEF Delete
  <2>9. ASSUME NEW p \in Procs, NEW m \in Messages, CallFails(p, m)
        PROVE  TypeOK'
    BY <2>9, BreakType DEF CallFails, queue
  <2>10. ASSUME NEW p \in Procs, Crash(p)
         PROVE  TypeOK'
    BY <2>10, DeliveryAssumption DEF Crash, Rest, queue, Phases
  <2>11. CASE Idle \/ UNCHANGED vars
    BY <2>11 DEF Idle, vars
  <2>12. QED
    BY <2>1, <2>2, <2>3, <2>4, <2>5, <2>6, <2>7, <2>8, <2>9, <2>10, <2>11 DEF Next, Process
<1>3. QED BY <1>1, <1>2, PTL DEF Spec

-----------------------------------------------------------------------------
(* Nothing is lost.                                                        *)

\* A message about to be deleted has its outcome.
Outcomes ==
    \A p \in Procs, m \in Messages :
        /\ phase[p][m] = "commit" => m \in done
        /\ phase[p][m] = "drop" => m \in dlq

\* Break and Crash end phases, Proceed also starts "enriching": none of them
\* begins a phase that promises an outcome.
LEMMA NoNewPromise ==
    ASSUME TypeOK, NEW p \in Procs, NEW m \in Messages,
           Proceed(p, m) \/ Break(p, m) \/ Rest(p, [n \in Messages |-> "none"]),
           NEW q \in Procs, NEW n \in Messages, phase'[q][n] \in {"commit", "drop"}
    PROVE  phase'[q][n] = phase[q][n]
<1>1. CASE Proceed(p, m)
  BY <1>1 DEF TypeOK, Proceed, Rest
<1>2. CASE Break(p, m)
  BY <1>2 DEF TypeOK, Break, Rest
<1>3. CASE Rest(p, [k \in Messages |-> "none"])
  BY <1>3 DEF TypeOK, Rest
<1>4. QED BY <1>1, <1>2, <1>3

LEMMA OutcomesKept ==
    ASSUME DlqConfigured
    PROVE  Spec => [](NothingLost /\ Outcomes)
<1> DEFINE Inv == NothingLost /\ Outcomes
<1>1. Init => Inv
  BY DEF Init, NothingLost, Outcomes
<1>2. TypeOK /\ Inv /\ [Next]_vars => Inv'
  <2> SUFFICES ASSUME TypeOK, Inv, [Next]_vars PROVE Inv'
    OBVIOUS
  <2> USE DEF NothingLost, Outcomes
  <2>1. ASSUME NEW p \in Procs, NEW batch \in SUBSET Messages, Receive(p, batch)
        PROVE  Inv'
    BY <2>1 DEF Receive, Receivable, Deliver, TypeOK
  <2>2. ASSUME NEW m \in Messages, Redrive(m) \/ Expire(m)
        PROVE  Inv'
    BY <2>2 DEF Redrive, Expire
  <2>3. ASSUME NEW p \in Procs, NEW m \in Messages, Start(p, m)
        PROVE  Inv'
    BY <2>3 DEF Start, Advance, queue, TypeOK
  <2>4. ASSUME NEW p \in Procs, NEW m \in Messages, Enriched(p, m)
        PROVE  Inv'
    BY <2>4 DEF Enriched, Advance, queue, TypeOK
  <2>5. ASSUME NEW p \in Procs, NEW m \in Messages,
               NotEnriched(p, m) \/ CallFails(p, m)
        PROVE  Inv'
    BY <2>5, NoNewPromise DEF NotEnriched, CallFails, queue
  <2>6. ASSUME NEW p \in Procs, NEW m \in Messages, Poisoned(p, m)
        PROVE  Inv'
    <3>1. CASE LastAttempt(p, m)
      BY <2>6, <3>1 DEF Poisoned, Advance, queue, TypeOK
    <3>2. CASE ~LastAttempt(p, m)
      BY <2>6, <3>2, NoNewPromise DEF Poisoned, queue
    <3>3. QED BY <3>1, <3>2
  <2>7. ASSUME NEW p \in Procs, NEW m \in Messages, SendToDlq(p, m)
        PROVE  Inv'
    BY <2>7, DlqConfigured DEF SendToDlq, Advance, TypeOK
  <2>8. ASSUME NEW p \in Procs, NEW m \in Messages, Delete(p, m)
        PROVE  Inv'
    <3>1. m \in done \cup dlq
      BY <2>8 DEF Delete, Deletable
    <3>2. queued' = queued \ {m} /\ done' = done /\ dlq' = dlq
      BY <2>8 DEF Delete
    <3>3. NothingLost'
      BY <3>1, <3>2
    <3>4. Outcomes'
      BY <2>8, <3>2, NoNewPromise DEF Delete
    <3>5. QED BY <3>3, <3>4
  <2>9. ASSUME NEW p \in Procs, Crash(p)
        PROVE  Inv'
    BY <2>9, NoNewPromise DEF Crash, Batch, queue
  <2>10. CASE Idle \/ UNCHANGED vars
    BY <2>10 DEF Idle, vars
  <2>11. QED
    BY <2>1, <2>2, <2>3, <2>4, <2>5, <2>6, <2>7, <2>8, <2>9, <2>10 DEF Next, Process
<1>3. QED BY <1>1, <1>2, TypeCorrect, PTL DEF Spec

\* With a dead-letter queue, a message leaves the queue only enriched or copied
\* to it, whatever crashes, fails or expires (process_message, _send_to_dlq).
THEOREM NoMessageIsLost ==
    ASSUME DlqConfigured
    PROVE  Spec => []NothingLost
  BY OutcomesKept, PTL

-----------------------------------------------------------------------------
(* The order within a hotel.                                               *)

\* A batch holds whatever the queue has before a message of it, even after its
\* deliveries have expired.
BatchIsPrefix ==
    \A p \in Procs, m \in Messages :
        phase[p][m] # "none" => \A n \in Before(m) \cap queued : phase[p][n] # "none"

\* A task works on a message only when the queue has nothing before it.
InTurn ==
    \A p \in Procs, m \in Messages :
        phase[p][m] \in Working => Before(m) \cap queued = {}

\* The part of a step that is about one batch: the queue may shrink, the batch
\* stays a prefix of it and new work is in turn.
Shrinks(p) ==
    /\ queued' \subseteq queued
    /\ \A q \in Procs \ {p} : phase'[q] = phase[q]
    /\ \A m \in Messages : phase'[p][m] # "none" =>
          \A n \in Before(m) \cap queued' : phase'[p][n] # "none"
    /\ \A m \in Messages : phase'[p][m] \in Working =>
          phase[p][m] \in Working \/ Before(m) \cap queued' = {}

LEMMA ShrinksKeepsOrder ==
    ASSUME BatchIsPrefix, InTurn, NEW p \in Procs, Shrinks(p)
    PROVE  BatchIsPrefix' /\ InTurn'
  BY DEF BatchIsPrefix, InTurn, Shrinks, Before

\* A task that starts or goes on to another phase with a message in turn.
LEMMA AdvanceShrinks ==
    ASSUME TypeOK, BatchIsPrefix, NEW p \in Procs, NEW m \in Messages,
           NEW to \in Working, Advance(p, m, to), UNCHANGED queued,
           phase[p][m] \in Working \/ First(p, m)
    PROVE  Shrinks(p)
<1>1. \A q \in Procs \ {p} : phase'[q] = phase[q]
  BY DEF TypeOK, Advance
<1>2. \A n \in Messages : phase'[p][n] = IF n = m THEN to ELSE phase[p][n]
  BY DEF TypeOK, Advance
<1>3. phase[p][m] # "none" /\ to # "none"
  BY DEF First, Working
<1>4. First(p, m) => Before(m) \cap queued = {}
  BY DEF BatchIsPrefix, First, Batch, Before
<1>5. QED BY <1>1, <1>2, <1>3, <1>4 DEF Shrinks, BatchIsPrefix, Before

\* A task that ends: the whole group leaves the batch.
LEMMA BreakShrinks ==
    ASSUME TypeOK, BatchIsPrefix, NEW p \in Procs, NEW m \in Messages,
           Break(p, m), UNCHANGED queued
    PROVE  Shrinks(p)
<1>1. \A q \in Procs \ {p} : phase'[q] = phase[q]
  BY DEF TypeOK, Break, Rest
<1>2. \A n \in Messages :
          phase'[p][n] = IF GroupOf[n] = GroupOf[m] THEN "none" ELSE phase[p][n]
  BY DEF TypeOK, Break, Rest
<1>3. QED BY <1>1, <1>2 DEF Shrinks, BatchIsPrefix, Before, Working

\* A task that has deleted its message: the next one of the group had only the
\* deleted one before it.
LEMMA ProceedShrinks ==
    ASSUME TypeOK, BatchIsPrefix, NEW p \in Procs, NEW m \in Messages,
           Proceed(p, m), queued' = queued \ {m}
    PROVE  Shrinks(p)
<1> DEFINE Next1(n) == phase[p][n] = "waiting" /\ Before(n) \cap Batch(p) = {m}
<1>1. \A q \in Procs \ {p} : phase'[q] = phase[q]
  BY DEF TypeOK, Proceed, Rest
<1>2. \A n \in Messages :
          phase'[p][n] = IF n = m THEN "none"
                         ELSE IF Next1(n) THEN "enriching" ELSE phase[p][n]
  BY DEF TypeOK, Proceed, Rest
<1>3. \A n \in Messages : n # m => (phase'[p][n] # "none" <=> phase[p][n] # "none")
  BY <1>2
<1>4. \A n \in Messages : Next1(n) => Before(n) \cap queued' = {}
  BY DEF BatchIsPrefix, Batch, Before
<1>5. \A n \in Messages : phase'[p][n] # "none" =>
          \A k \in Before(n) \cap queued' : phase'[p][k] # "none"
  BY <1>2, <1>3 DEF BatchIsPrefix, Before
<1>6. \A n \in Messages : phase'[p][n] \in Working =>
          phase[p][n] \in Working \/ Before(n) \cap queued' = {}
  BY <1>2, <1>4 DEF Working
<1>7. QED BY <1>1, <1>5, <1>6 DEF Shrinks

LEMMA OrderKept == Spec => [](GroupOrder /\ BatchIsPrefix /\ InTurn)
<1> DEFINE Inv == GroupOrder /\ BatchIsPrefix /\ InTurn
<1>1. Init => Inv
  BY DEF Init, GroupOrder, BatchIsPrefix, InTurn, Working
<1>2. TypeOK /\ Inv /\ [Next]_vars => Inv'
  <2> SUFFICES ASSUME TypeOK, Inv, [Next]_vars PROVE Inv'
    OBVIOUS
  <2>1. ASSUME NEW p \in Procs, NEW batch \in SUBSET Messages, Receive(p, batch)
        PROVE  Inv'
    <3>1. Shrinks(p)
      BY <2>1 DEF Receive, Receivable, Deliver, Shrinks, TypeOK, Working
    <3>2. GroupOrder'
      BY <2>1 DEF Receive, Receivable, Deliver, GroupOrder, Before
    <3>3. QED BY <3>1, <3>2, ShrinksKeepsOrder
  <2>2. ASSUME NEW m \in Messages, Redrive(m) \/ Expire(m)
        PROVE  Inv'
    BY <2>2 DEF Redrive, Expire, GroupOrder, BatchIsPrefix, InTurn, Before
  <2>3. ASSUME NEW p \in Procs, NEW m \in Messages, Start(p, m)
        PROVE  Inv'
    <3>1. Shrinks(p)
      BY <2>3, AdvanceShrinks DEF Start, queue, Working
    <3>2. GroupOrder'
      BY <2>3 DEF Start, queue, GroupOrder, Before
    <3>3. QED BY <3>1, <3>2, ShrinksKeepsOrder
  <2>4. ASSUME NEW p \in Procs, NEW m \in Messages, Enriched(p, m)
        PROVE  Inv'
    <3>1. phase[p][m] \in Working
      BY <2>4 DEF Enriched, Working
    <3>2. Shrinks(p)
      BY <2>4, <3>1, AdvanceShrinks DEF Enriched, queue, Working
    <3>3. GroupOrder'
      BY <2>4, <3>1 DEF Enriched, queue, GroupOrder, InTurn, Before
    <3>4. QED BY <3>2, <3>3, ShrinksKeepsOrder
  <2>5. ASSUME NEW p \in Procs, NEW m \in Messages,
               NotEnriched(p, m) \/ CallFails(p, m)
        PROVE  Inv'
    <3>1. Shrinks(p)
      BY <2>5, BreakShrinks DEF NotEnriched, CallFails, queue
    <3>2. GroupOrder'
      BY <2>5 DEF NotEnriched, CallFails, queue, GroupOrder, Before
    <3>3. QED BY <3>1, <3>2, ShrinksKeepsOrder
  <2>6. ASSUME NEW p \in Procs, NEW m \in Messages, Poisoned(p, m)
        PROVE  Inv'
    <3>1. phase[p][m] \in Working
      BY <2>6 DEF Poisoned, Working
    <3>2. Shrinks(p)
      <4>1. CASE LastAttempt(p, m)
        BY <2>6, <3>1, <4>1, AdvanceShrinks DEF Poisoned, queue, Working
      <4>2. CASE ~LastAttempt(p, m)
        BY <2>6, <4>2, BreakShrinks DEF Poisoned, queue
      <4>3. QED BY <4>1, <4>2
    <3>3. GroupOrder'
      BY <2>6, <3>1 DEF Poisoned, queue, GroupOrder, InTurn, Before, TypeOK
    <3>4. QED BY <3>2, <3>3, ShrinksKeepsOrder
  <2>7. ASSUME NEW p \in Procs, NEW m \in Messages, SendToDlq(p, m)
        PROVE  Inv'
    <3>1. Shrinks(p)
      BY <2>7, AdvanceShrinks DEF SendToDlq, Working
    <3>2. GroupOrder'
      BY <2>7 DEF SendToDlq, GroupOrder, Before
    <3>3. QED BY <3>1, <3>2, ShrinksKeepsOrder
  <2>8. ASSUME NEW p \in Procs, NEW m \in Messages, Delete(p, m)
        PROVE  Inv'
    <3>1. phase[p][m] \in Working
      BY <2>8 DEF Delete, Deletable, Working
    <3>2. Shrinks(p)
      BY <2>8, ProceedShrinks DEF Delete
    <3>3. GroupOrder'
      BY <2>8, <3>1 DEF Delete, GroupOrder, InTurn, Before
    <3>4. QED BY <3>2, <3>3, ShrinksKeepsOrder
  <2>9. ASSUME NEW p \in Procs, Crash(p)
        PROVE  Inv'
    <3>1. Shrinks(p)
      BY <2>9 DEF Crash, Rest, queue, Shrinks, TypeOK, Working
    <3>2. GroupOrder'
      BY <2>9 DEF Crash, queue, GroupOrder, Before
    <3>3. QED BY <3>1, <3>2, ShrinksKeepsOrder
  <2>10. CASE Idle \/ UNCHANGED vars
    BY <2>10 DEF Idle, vars, GroupOrder, BatchIsPrefix, InTurn, Before
  <2>11. QED
    BY <2>1, <2>2, <2>3, <2>4, <2>5, <2>6, <2>7, <2>8, <2>9, <2>10 DEF Next, Process
<1>3. QED BY <1>1, <1>2, TypeCorrect, PTL DEF Spec

\* An event is enriched, fails for good or leaves the queue only after all the
\* earlier ones of its hotel have left it, however many processes hold expired
\* deliveries of them (_process_batch, _process_group, MessageGroupId).
THEOREM GroupsStayInOrder == Spec => []GroupOrder
  BY OrderKept, PTL

-----------------------------------------------------------------------------
(* The refinement.                                                         *)

\* A message in turn for the queue is in turn for the channel.
LEMMA InTurnMaps ==
    ASSUME TypeOK, NEW m \in Messages, Before(m) \cap queued = {}
    PROVE  Promise!InTurn(m)
<1>1. SUFFICES ASSUME NEW n \in queued, GroupOf[n] = GroupOf[m], n < m PROVE FALSE
  BY DeliveryAssumption DEF Promise!InTurn, TypeOK
<1>2. n \in Messages
  BY <1>1 DEF TypeOK
<1>3. QED BY <1>1, <1>2 DEF Before

\* With a dead-letter queue, the queue and its enrichers are a channel: each
\* message is handled or put aside before it leaves, in the order of its hotel,
\* whatever batches, expired deliveries, failing calls and crashes come between
\* (_process_group, process_message, the redrive policy).
THEOREM DeliveryImplementsChannel ==
    ASSUME DlqConfigured
    PROVE  Spec => ImplementsChannel
<1> DEFINE Inv == TypeOK /\ Outcomes /\ InTurn
<1>1. Init => Promise!Init
  BY DEF Init, Promise!Init
<1>2. Inv /\ [Next]_vars => [Promise!Next]_(Promise!vars)
  <2> SUFFICES ASSUME Inv, [Next]_vars PROVE [Promise!Next]_(Promise!vars)
    OBVIOUS
  <2>1. ASSUME UNCHANGED <<queued, done, dlq>> PROVE UNCHANGED Promise!vars
    BY <2>1 DEF Promise!vars
  <2>2. ASSUME NEW p \in Procs, NEW m \in Messages, phase[p][m] \in Working
        PROVE  Promise!InTurn(m)
    BY <2>2, InTurnMaps DEF InTurn
  <2>3. ASSUME NEW p \in Procs, NEW m \in Messages, Enriched(p, m) PROVE Promise!Handle(m)
    BY <2>2, <2>3 DEF Enriched, queue, Working, Promise!Handle
  <2>4. ASSUME NEW p \in Procs, NEW m \in Messages, SendToDlq(p, m) PROVE Promise!PutAside(m)
    BY <2>2, <2>4, DlqConfigured DEF SendToDlq, Working, Promise!PutAside
  <2>5. ASSUME NEW m \in Messages, Redrive(m) PROVE Promise!PutAside(m)
    BY <2>5, InTurnMaps DEF Redrive, Promise!PutAside
  <2>6. ASSUME NEW p \in Procs, NEW m \in Messages, Delete(p, m) PROVE Promise!Leave(m)
    BY <2>2, <2>6 DEF Delete, Deletable, Outcomes, Working, Promise!Leave
  <2>7. ASSUME NEW p \in Procs, NEW m \in Messages,
               Start(p, m) \/ NotEnriched(p, m) \/ Poisoned(p, m) \/ CallFails(p, m)
        PROVE  UNCHANGED <<queued, done, dlq>>
    BY <2>7 DEF Start, NotEnriched, Poisoned, CallFails, queue
  <2>8. ASSUME NEW p \in Procs, NEW batch \in SUBSET Messages, Receive(p, batch)
        PROVE  UNCHANGED <<queued, done, dlq>>
    BY <2>8 DEF Receive, Deliver
  <2>9. ASSUME NEW m \in Messages, Expire(m) PROVE UNCHANGED <<queued, done, dlq>>
    BY <2>9 DEF Expire
  <2>10. ASSUME NEW p \in Procs, Crash(p) PROVE UNCHANGED <<queued, done, dlq>>
    BY <2>10 DEF Crash, queue
  <2>11. ASSUME Idle \/ UNCHANGED vars PROVE UNCHANGED <<queued, done, dlq>>
    BY <2>11 DEF Idle, vars
  <2>12. QED
    BY <2>1, <2>3, <2>4, <2>5, <2>6, <2>7, <2>8, <2>9, <2>10, <2>11
       DEF Next, Process, Promise!Next
<1>3. QED
  BY <1>1, <1>2, TypeCorrect, OutcomesKept, OrderKept, PTL
     DEF Spec, ImplementsChannel, Promise!Spec
=============================================================================
