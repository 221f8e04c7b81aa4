---------------------------- MODULE Consumer_proofs ----------------------------
(***************************************************************************)
(* The first consumer and the enrichers on one queue, for any number of     *)
(* both: the types, that every archived row has its object, and that what   *)
(* left the queue left for a reason.  The invariant says what each delivery *)
(* has to show before it may delete its message; nothing else of the         *)
(* services matters to the other, which is why they may share the queue.    *)
(***************************************************************************)
EXTENDS Consumer, TLAPS

\* The steps of the queue and the enrichers, by what they do to the deliveries.
LEMMA DeliverySteps ==
    ASSUME Next
    PROVE  \/ \E p \in Procs, batch \in SUBSET Messages : Receive(p, batch)
           \/ \E m \in Messages : Redrive(m) \/ Expire(m)
           \/ \E p \in Procs, m \in Messages :
                 \/ Start(p, m) \/ Enriched(p, m) \/ NotEnriched(p, m) \/ Poisoned(p, m)
                 \/ SendToDlq(p, m) \/ Delete(p, m) \/ CallFails(p, m)
           \/ \E p \in Procs : Crash(p)
           \/ UNCHANGED vars
  BY DEF Next, Process, Idle

\* The batch of an enricher goes on, or ends with its group, within its types.
LEMMA BatchType ==
    ASSUME phase \in [Procs -> [Messages -> Phases]],
           count \in [Procs -> [Messages -> 0..MaxReceive]],
           NEW p \in Procs, NEW m \in Messages, Proceed(p, m) \/ Break(p, m)
    PROVE  /\ phase' \in [Procs -> [Messages -> Phases]]
           /\ count' \in [Procs -> [Messages -> 0..MaxReceive]]
<1>1. CASE Proceed(p, m)
  BY <1>1, DeliveryAssumption DEF Proceed, Rest, Phases
<1>2. CASE Break(p, m)
  BY <1>2, DeliveryAssumption DEF Break, Rest, Phases
<1>3. QED BY <1>1, <1>2

\* One message of a batch goes to another of the steps or phases there are.
LEMMA AdvanceType ==
    ASSUME phase \in [Procs -> [Messages -> Phases]],
           NEW p \in Procs, NEW m \in Messages, NEW to \in Phases, Advance(p, m, to)
    PROVE  phase' \in [Procs -> [Messages -> Phases]] /\ UNCHANGED count
  BY DEF Advance

LEMMA ProceedsType ==
    ASSUME step \in [Consumers -> [Messages -> Steps]],
           NEW c \in Consumers, NEW m \in Messages, NEW next \in Steps, Proceeds(c, m, next)
    PROVE  step' \in [Consumers -> [Messages -> Steps]]
  BY DEF Proceeds

\* The variables of the queue and of both services keep their types: a message is
\* held by an enricher, a consumer or nobody, neither service is given it more
\* often than the redrive policy allows, and what an enricher knows of its batch
\* stays within its phases and counts (SqsConsumer.receive, in both services).
THEOREM ConsumerTypeCorrect == ConsumerSpec => []ConsumerTypeOK
<1>1. ConsumerInit => ConsumerTypeOK
  BY DeliveryAssumption DEF ConsumerInit, Init, ConsumerTypeOK, Steps, Phases
<1>2. ConsumerTypeOK /\ [ConsumerNext]_allVars => ConsumerTypeOK'
  <2> SUFFICES ASSUME ConsumerTypeOK, [ConsumerNext]_allVars PROVE ConsumerTypeOK'
    OBVIOUS
  <2> USE DEF ConsumerTypeOK
  <2>1. CASE Next /\ UNCHANGED consumer
    <3>1. ASSUME NEW p \in Procs, NEW batch \in SUBSET Messages, Receive(p, batch)
          PROVE  ConsumerTypeOK'
      BY <2>1, <3>1, DeliveryAssumption
         DEF Receive, Receivable, Deliver, Deliverable, Phases, consumer
    <3>2. ASSUME NEW m \in Messages, Redrive(m) \/ Expire(m) PROVE ConsumerTypeOK'
      BY <2>1, <3>2 DEF Redrive, Expire, consumer
    <3>3. ASSUME NEW p \in Procs, NEW m \in Messages, Start(p, m) \/ Enriched(p, m)
          PROVE  ConsumerTypeOK'
      <4>1. /\ phase' \in [Procs -> [Messages -> Phases]]
            /\ UNCHANGED <<queued, holder, receives, dlq, retries, count>>
            /\ done' \subseteq Messages
        <5>1. CASE Start(p, m)
          BY <5>1, AdvanceType DEF Start, Phases, queue
        <5>2. CASE Enriched(p, m)
          BY <5>2, AdvanceType DEF Enriched, Phases, queue
        <5>3. QED BY <3>3, <5>1, <5>2
      <4>2. QED BY <2>1, <4>1 DEF consumer
    <3>4. ASSUME NEW p \in Procs, NEW m \in Messages, NotEnriched(p, m) \/ CallFails(p, m)
          PROVE  ConsumerTypeOK'
      BY <2>1, <3>4, BatchType DEF NotEnriched, CallFails, queue, consumer
    <3>5. ASSUME NEW p \in Procs, NEW m \in Messages, Poisoned(p, m) PROVE ConsumerTypeOK'
      <4>1. /\ retries' \in [Messages -> Nat]
            /\ UNCHANGED <<queued, holder, receives, dlq, done>>
        BY <3>5 DEF Poisoned, queue
      <4>2. /\ phase' \in [Procs -> [Messages -> Phases]]
            /\ count' \in [Procs -> [Messages -> 0..MaxReceive]]
        <5>1. CASE LastAttempt(p, m)
          BY <3>5, <5>1, AdvanceType DEF Poisoned, Phases
        <5>2. CASE ~LastAttempt(p, m)
          BY <3>5, <5>2, BatchType DEF Poisoned
        <5>3. QED BY <5>1, <5>2
      <4>3. QED BY <2>1, <4>1, <4>2 DEF consumer
    <3>6. ASSUME NEW p \in Procs, NEW m \in Messages, SendToDlq(p, m) PROVE ConsumerTypeOK'
      BY <2>1, <3>6 DEF SendToDlq, Advance, Phases, consumer
    <3>7. ASSUME NEW p \in Procs, NEW m \in Messages, Delete(p, m) PROVE ConsumerTypeOK'
      BY <2>1, <3>7, BatchType DEF Delete, consumer
    <3>8. ASSUME NEW p \in Procs, Crash(p) PROVE ConsumerTypeOK'
      BY <2>1, <3>8, DeliveryAssumption DEF Crash, Rest, Phases, queue, consumer
    <3>9. CASE UNCHANGED vars
      BY <2>1, <3>9 DEF vars, consumer
    <3>10. QED
      BY <2>1, <3>1, <3>2, <3>3, <3>4, <3>5, <3>6, <3>7, <3>8, <3>9, DeliverySteps
  <2>2. ASSUME NEW c \in Consumers, NEW batch \in SUBSET Messages, Poll(c, batch)
        PROVE  ConsumerTypeOK'
    BY <2>2, DeliveryAssumption
       DEF Poll, Receivable, Deliver, Deliverable, Steps, enricher
  <2>3. ASSUME NEW c \in Consumers, NEW m \in Messages, Handle(c, m)
        PROVE  ConsumerTypeOK'
    <3>1. step' \in [Consumers -> [Messages -> Steps]]
      <4>1. PICK next \in Steps : Proceeds(c, m, next)
        BY <2>3 DEF Handle, Write, Persist, Remove, Skip, Steps
      <4>2. QED BY <4>1, ProceedsType
    <3>2. /\ UNCHANGED <<receives, dlq, done, retries, phase, count>>
          /\ queued' \subseteq Messages /\ objects' \subseteq Messages
          /\ archived' \subseteq Messages
          /\ holder' \in [Messages -> Procs \cup Consumers \cup {NoProc}]
      BY <2>3 DEF Handle, Write, Persist, Remove, Skip, vars, enricher
    <3>3. QED BY <3>1, <3>2
  <2>4. ASSUME NEW c \in Consumers, Die(c) PROVE ConsumerTypeOK'
    BY <2>4 DEF Die, Steps, vars
  <2>5. CASE UNCHANGED allVars
    BY <2>5 DEF allVars, vars, consumer
  <2>6. QED BY <2>1, <2>2, <2>3, <2>4, <2>5 DEF ConsumerNext
<1>3. QED BY <1>1, <1>2, PTL DEF ConsumerSpec

-----------------------------------------------------------------------------
(* What a delivery has to show.                                            *)

\* What a consumer has done before each step of a message.
StepInv ==
    /\ archived \subseteq objects
    /\ \A c \in Consumers, m \in Messages :
          /\ step[c][m] \in {"persist", "delete"} => m \in objects
          /\ step[c][m] = "delete" => m \in archived

LEMMA StepKept == ConsumerTypeOK /\ StepInv /\ [ConsumerNext]_allVars => StepInv'
<1> SUFFICES ASSUME ConsumerTypeOK, StepInv, [ConsumerNext]_allVars PROVE StepInv'
  OBVIOUS
<1> USE DEF StepInv
<1>1. ASSUME UNCHANGED consumer PROVE StepInv'
  BY <1>1 DEF consumer
<1>2. ASSUME NEW c \in Consumers, NEW batch \in SUBSET Messages, Poll(c, batch)
      PROVE  StepInv'
  BY <1>2 DEF Poll, ConsumerTypeOK
<1>3. ASSUME NEW c \in Consumers, NEW m \in Messages, Handle(c, m) PROVE StepInv'
  BY <1>3 DEF Handle, Write, Persist, Remove, Skip, Proceeds, ConsumerTypeOK
<1>4. ASSUME NEW c \in Consumers, Die(c) PROVE StepInv'
  BY <1>4 DEF Die, ConsumerTypeOK
<1>5. QED BY <1>1, <1>2, <1>3, <1>4 DEF ConsumerNext, allVars

LEMMA StepsHold == ConsumerSpec => []StepInv
<1>1. ConsumerInit => StepInv
  BY DEF ConsumerInit, StepInv
<1>2. QED BY <1>1, StepKept, ConsumerTypeCorrect, PTL DEF ConsumerSpec

\* A row of ohip_events always names an object that was written, whatever fails
\* between the two and however often the message comes again (run).
THEOREM RowsHaveObjects == ConsumerSpec => []RowHasObject
<1>1. StepInv => RowHasObject
  BY DEF StepInv, RowHasObject
<1>2. QED BY <1>1, StepsHold, PTL

\* What an enricher has done before it deletes a message, and why each message
\* that is not in the queue left it.
LeaveInv ==
    /\ LeftForAReason
    /\ \A p \in Procs, m \in Messages :
          phase[p][m] \in {"commit", "drop"} => m \in done \cup dlq

\* The batch of an enricher goes on without a new claim to an outcome.
LEMMA NoNewClaim ==
    ASSUME phase \in [Procs -> [Messages -> Phases]],
           NEW p \in Procs, NEW m \in Messages, Proceed(p, m) \/ Break(p, m)
    PROVE  \A q \in Procs, n \in Messages :
               phase'[q][n] \in {"commit", "drop"} => phase'[q][n] = phase[q][n]
<1>1. CASE Proceed(p, m)
  BY <1>1 DEF Proceed, Rest
<1>2. CASE Break(p, m)
  BY <1>2 DEF Break, Rest
<1>3. QED BY <1>1, <1>2

LEMMA LeaveKept ==
    ASSUME DlqConfigured
    PROVE  ConsumerTypeOK /\ StepInv /\ LeaveInv /\ [ConsumerNext]_allVars => LeaveInv'
<1> SUFFICES ASSUME ConsumerTypeOK, StepInv, LeaveInv, [ConsumerNext]_allVars
             PROVE  LeaveInv'
  OBVIOUS
<1> phase \in [Procs -> [Messages -> Phases]]
  BY DEF ConsumerTypeOK
<1> USE DEF LeaveInv, LeftForAReason
<1>1. CASE Next /\ UNCHANGED consumer
  <2> archived' = archived
    BY <1>1 DEF consumer
  <2>1. ASSUME NEW p \in Procs, NEW batch \in SUBSET Messages, Receive(p, batch)
        PROVE  LeaveInv'
    BY <2>1 DEF Receive
  <2>2. ASSUME NEW m \in Messages, Redrive(m) \/ Expire(m) PROVE LeaveInv'
    BY <2>2 DEF Redrive, Expire
  <2>3. ASSUME NEW p \in Procs, NEW m \in Messages, Start(p, m) \/ Enriched(p, m)
        PROVE  LeaveInv'
    BY <2>3 DEF Start, Enriched, Advance, queue
  <2>4. ASSUME NEW p \in Procs, NEW m \in Messages, NotEnriched(p, m) \/ CallFails(p, m)
        PROVE  LeaveInv'
    BY <2>4, NoNewClaim DEF NotEnriched, CallFails, queue
  <2>5. ASSUME NEW p \in Procs, NEW m \in Messages, Poisoned(p, m) PROVE LeaveInv'
    <3>1. CASE LastAttempt(p, m)
      BY <2>5, <3>1 DEF Poisoned, Advance, queue
    <3>2. CASE ~LastAttempt(p, m)
      BY <2>5, <3>2, NoNewClaim DEF Poisoned, queue
    <3>3. QED BY <3>1, <3>2
  <2>6. ASSUME NEW p \in Procs, NEW m \in Messages, SendToDlq(p, m) PROVE LeaveInv'
    BY <2>6, DlqConfigured DEF SendToDlq, Advance
  <2>7. ASSUME NEW p \in Procs, NEW m \in Messages, Delete(p, m) PROVE LeaveInv'
    BY <2>7, NoNewClaim DEF Delete, Deletable
  <2>8. ASSUME NEW p \in Procs, Crash(p) PROVE LeaveInv'
    BY <2>8 DEF Crash, Rest, queue
  <2>9. CASE UNCHANGED vars
    BY <2>9 DEF vars
  <2>10. QED
    BY <1>1, <2>1, <2>2, <2>3, <2>4, <2>5, <2>6, <2>7, <2>8, <2>9, DeliverySteps
<1>2. ASSUME NEW c \in Consumers, NEW m \in Messages, Remove(c, m) PROVE LeaveInv'
  BY <1>2 DEF Remove, StepInv, enricher
<1>3. ASSUME UNCHANGED <<queued, dlq, enricher>>, archived \subseteq archived'
      PROVE  LeaveInv'
  BY <1>3 DEF enricher
<1>4. ASSUME NEW c \in Consumers, NEW m \in Messages, Handle(c, m) PROVE LeaveInv'
  BY <1>2, <1>3, <1>4 DEF Handle, Write, Persist, Skip, vars, enricher
<1>5. ASSUME NEW c \in Consumers, NEW batch \in SUBSET Messages,
             Poll(c, batch) \/ Die(c) \/ UNCHANGED allVars
      PROVE  LeaveInv'
  BY <1>3, <1>5 DEF Poll, Die, allVars, vars, consumer, enricher
<1>6. QED BY <1>1, <1>3, <1>4, <1>5 DEF ConsumerNext, allVars, vars, consumer, enricher

\* With a dead-letter queue, a message leaves the shared queue only archived,
\* enriched or put aside, whichever of the two services deleted it and whatever
\* failed or died before (consumer.py run, process_message).
THEOREM LeftForAReasonHolds ==
    ASSUME DlqConfigured
    PROVE  ConsumerSpec => []LeftForAReason
<1>1. ConsumerInit => LeaveInv
  BY DEF ConsumerInit, Init, LeaveInv, LeftForAReason
<1>2. LeaveInv => LeftForAReason
  BY DEF LeaveInv
<1>3. QED BY <1>1, <1>2, LeaveKept, StepsHold, ConsumerTypeCorrect, PTL DEF ConsumerSpec
=============================================================================
