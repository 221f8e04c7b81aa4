--------------------------- MODULE Listener_proofs ---------------------------
(***************************************************************************)
(* Proofs about Listener, for any number of listeners, events and failures. *)
(***************************************************************************)
EXTENDS Listener, TLAPS

\* The variables of Listener keep their types: in particular no delay ever
\* leaves MinDelay..MaxDelay, and no listener runs ahead of the stream.
THEOREM TypeCorrect == Spec => []TypeOK
<1>1. Init => TypeOK
  BY ListenerAssumption DEF Init, TypeOK, Phases, Positions
<1>2. TypeOK /\ [Next]_vars => TypeOK'
  <2> SUFFICES ASSUME TypeOK, [Next]_vars PROVE TypeOK'
    OBVIOUS
  <2> USE ListenerAssumption DEF TypeOK, Phases, Positions, Go, conn
  <2>1. CASE Emit
    BY <2>1 DEF Emit
  <2>2. ASSUME NEW l \in Listeners, Send(l) PROVE TypeOK'
    BY <2>2 DEF Send
  <2>3. ASSUME NEW l \in Listeners, Close(l) PROVE TypeOK'
    BY <2>3 DEF Close
  <2>4. ASSUME NEW l \in Listeners, Load(l) PROVE TypeOK'
    BY <2>4 DEF Load
  <2>5. ASSUME NEW l \in Listeners, Subscribe(l) PROVE TypeOK'
    <3>1. FirstSent(l) \subseteq Positions
      BY DEF FirstSent, SendsOffset
    <3>2. QED BY <2>5, <3>1 DEF Subscribe
  <2>6. ASSUME NEW l \in Listeners, Receive(l) PROVE TypeOK'
    BY <2>6 DEF Receive
  <2>7. ASSUME NEW l \in Listeners, Publish(l) PROVE TypeOK'
    BY <2>7 DEF Publish
  <2>8. ASSUME NEW l \in Listeners, Save(l) PROVE TypeOK'
    BY <2>8 DEF Save, Saved
  <2>9. ASSUME NEW l \in Listeners, Disconnected(l) PROVE TypeOK'
    BY <2>9 DEF Disconnected
  <2>10. ASSUME NEW l \in Listeners, Refused(l) \/ Raise(l) \/ Reject(l) PROVE TypeOK'
    <3>1. Fail(l) /\ faults' \in 0..MaxFaults
      BY <2>10 DEF Refused, Raise, Reject
    <3>2. QED BY <3>1 DEF Fail
  <2>11. ASSUME NEW l \in Listeners, WakeUp(l) PROVE TypeOK'
    BY <2>11 DEF WakeUp, Doubled
  <2>12. ASSUME NEW l \in Listeners, Restart(l) PROVE TypeOK'
    BY <2>12 DEF Restart
  <2>13. CASE UNCHANGED vars
    BY <2>13 DEF vars
  <2>14. QED
    BY <2>1, <2>2, <2>3, <2>4, <2>5, <2>6, <2>7, <2>8, <2>9, <2>10, <2>11, <2>12,
       <2>13 DEF Next, Step, Quiet
<1>3. QED BY <1>1, <1>2, PTL DEF Spec

-----------------------------------------------------------------------------
(* The offset is a promise.  The invariant adds to NoGap and InOrder what a *)
(* listener knows between loading an offset and subscribing from it, where  *)
(* neither of them says anything.                                          *)

\* Every event after position a, up to position b, has been published.
Covered(a, b) == \A n \in 1..b : n > a => n \in published

\* A listener about to subscribe from an offset holds a covered one, and what a
\* connected listener has taken is covered, but for the event in its hands.
Resumable(l) ==
    /\ phase[l] = "loaded" /\ loaded[l] > 0 => Covered(start[l], loaded[l])
    /\ phase[l] = "waiting" => Covered(start[l], cursor[l])
    /\ phase[l] = "publishing" => Covered(start[l], cursor[l] - 1)
    /\ phase[l] = "saving" => Covered(start[l], cursor[l])

PromiseInv ==
    /\ NoGap
    /\ \A l \in Listeners : Resumable(l)

\* Nothing is ever taken back from SQS.
LEMMA PublishedGrows == [Next]_vars => published \subseteq published'
  BY DEF Next, vars, Emit, Send, Close, Step, Load, Subscribe, Receive, Publish, Save,
         Disconnected, Refused, Reject, Raise, Fail, WakeUp, Restart, Quiet

\* The step of one listener keeps PromiseInv when the others stay where they
\* are, the saved offset stays covered, and the listener is Resumable after it.
LEMMA OneListenerMoves ==
    ASSUME TypeOK, PromiseInv, [Next]_vars, NEW l \in Listeners,
           \A k \in Listeners \ {l} :
               /\ phase'[k] = phase[k] /\ loaded'[k] = loaded[k]
               /\ start'[k] = start[k] /\ cursor'[k] = cursor[k],
           NoGap', Resumable(l)'
    PROVE  PromiseInv'
<1>1. \A k \in Listeners \ {l} : Resumable(k)'
  BY PublishedGrows DEF PromiseInv, Resumable, Covered
<1>2. QED
  BY <1>1 DEF PromiseInv

\* The saved offset stays covered while it is not replaced.
LEMMA NoGapStays ==
    ASSUME NoGap, [Next]_vars, UNCHANGED <<stored, origin>>
    PROVE  NoGap'
  BY PublishedGrows DEF NoGap

LEMMA PromiseKept == TypeOK /\ PromiseInv /\ [Next]_vars => PromiseInv'
<1> SUFFICES ASSUME TypeOK, PromiseInv, [Next]_vars PROVE PromiseInv'
  OBVIOUS
<1> USE ListenerAssumption
<1>1. CASE Emit \/ Quiet \/ UNCHANGED vars
  <2>1. UNCHANGED <<stored, origin, published, phase, loaded, start, cursor>>
    BY <1>1 DEF Emit, Quiet, vars, conn
  <2>2. QED BY <2>1 DEF PromiseInv, NoGap, Resumable, Covered
<1>2. ASSUME NEW l \in Listeners, Send(l) \/ Close(l) PROVE PromiseInv'
  <2>1. UNCHANGED <<stored, origin, published, phase, loaded, start, cursor>>
    BY <1>2 DEF Send, Close
  <2>2. QED BY <2>1 DEF PromiseInv, NoGap, Resumable, Covered
<1>3. ASSUME NEW l \in Listeners, Load(l) PROVE PromiseInv'
  <2>1. Resumable(l)'
    BY <1>3 DEF Load, Go, TypeOK, PromiseInv, NoGap, Resumable, Covered
  <2>2. NoGap'
    BY <1>3, NoGapStays DEF Load, PromiseInv
  <2>3. QED BY <1>3, <2>1, <2>2, OneListenerMoves DEF Load, Go, TypeOK
<1>4. ASSUME NEW l \in Listeners, Subscribe(l) PROVE PromiseInv'
  <2>1. NoGap'
    BY <1>4, NoGapStays DEF Subscribe, PromiseInv
  <2>2. PICK from \in FirstSent(l) :
            /\ cursor' = [cursor EXCEPT ![l] = from]
            /\ start' = [start EXCEPT ![l] = IF SendsOffset(l) THEN @ ELSE from]
    BY <1>4 DEF Subscribe
  <2>3. phase'[l] = "waiting" /\ cursor'[l] = from /\ UNCHANGED <<loaded, published>>
    BY <1>4, <2>2 DEF Subscribe, Go, TypeOK
  <2>4. CASE SendsOffset(l)
    <3>1. Covered(start[l], loaded[l]) /\ from <= loaded[l] /\ from \in Int
      BY <1>4, <2>4 DEF Subscribe, PromiseInv, Resumable, SendsOffset, FirstSent, TypeOK,
                        Positions
    <3>2. start'[l] = start[l]
      BY <2>2, <2>4 DEF TypeOK
    <3>3. Resumable(l)'
      BY <2>3, <3>1, <3>2 DEF Resumable, Covered, TypeOK, Positions
    <3>4. QED BY <1>4, <2>1, <2>2, <3>3, OneListenerMoves DEF Subscribe, Go, TypeOK
  <2>5. CASE ~SendsOffset(l)
    <3>1. start'[l] = from /\ from \in Int
      BY <2>2, <2>5 DEF TypeOK, FirstSent, Positions
    <3>2. Resumable(l)'
      BY <2>3, <3>1 DEF Resumable, Covered
    <3>3. QED BY <1>4, <2>1, <2>2, <3>2, OneListenerMoves DEF Subscribe, Go, TypeOK
  <2>6. QED BY <2>4, <2>5
<1>5. ASSUME NEW l \in Listeners, Receive(l) PROVE PromiseInv'
  <2>1. NoGap'
    BY <1>5, NoGapStays DEF Receive, PromiseInv
  <2>2. Resumable(l)'
    BY <1>5 DEF Receive, Go, PromiseInv, Resumable, Covered, TypeOK, Positions
  <2>3. QED BY <1>5, <2>1, <2>2, OneListenerMoves DEF Receive, Go, TypeOK
<1>6. ASSUME NEW l \in Listeners, Publish(l) PROVE PromiseInv'
  <2>1. NoGap'
    BY <1>6, NoGapStays DEF Publish, PromiseInv
  <2>2. Resumable(l)'
    BY <1>6 DEF Publish, Go, PromiseInv, Resumable, Covered, TypeOK, Positions, conn
  <2>3. QED BY <1>6, <2>1, <2>2, OneListenerMoves DEF Publish, Go, TypeOK, conn
<1>7. ASSUME NEW l \in Listeners, Save(l) PROVE PromiseInv'
  <2>1. Covered(start[l], cursor[l])
    BY <1>7 DEF Save, PromiseInv, Resumable
  <2>2. NoGap'
    BY <1>7, <2>1 DEF Save, Saved, NoGap, Covered
  <2>3. Resumable(l)'
    BY <1>7, <2>1 DEF Save, Go, Resumable, Covered, TypeOK, conn
  <2>4. QED BY <1>7, <2>2, <2>3, OneListenerMoves DEF Save, Go, TypeOK, conn
<1>8. ASSUME NEW l \in Listeners,
             \/ Disconnected(l) \/ Refused(l) \/ Raise(l) \/ Reject(l) \/ WakeUp(l)
             \/ Restart(l)
      PROVE  PromiseInv'
  <2>1. /\ UNCHANGED <<stored, origin, published, loaded, start, cursor>>
        /\ phase' = [phase EXCEPT ![l] = "sleeping"] \/ phase' = [phase EXCEPT ![l] = "starting"]
    BY <1>8 DEF Disconnected, Refused, Raise, Reject, WakeUp, Restart, Fail, Go, conn
  <2>2. Resumable(l)'
    BY <2>1 DEF Resumable, TypeOK
  <2>3. QED BY <2>1, <2>2, NoGapStays, OneListenerMoves DEF TypeOK, PromiseInv
<1>9. QED
  BY <1>1, <1>2, <1>3, <1>4, <1>5, <1>6, <1>7, <1>8 DEF Next, Step

\* NoGap holds of every execution: no failure, restart, refused event or overlap
\* of two listeners makes the saved offset pass an event that SQS has not been
\* given (run: publish, then save).
THEOREM OffsetIsAPromise == Spec => []NoGap
<1>1. Init => PromiseInv
  BY DEF Init, PromiseInv, NoGap, Resumable, Covered
<1>2. PromiseInv => NoGap
  BY DEF PromiseInv
<1>3. QED BY <1>1, <1>2, TypeCorrect, PromiseKept, PTL DEF Spec

\* InOrder holds of every execution: within a run of events nothing is skipped
\* (events, run).
THEOREM NothingSkipped == Spec => []InOrder
<1>1. Init => PromiseInv
  BY DEF Init, PromiseInv, NoGap, Resumable, Covered
<1>2. TypeOK /\ PromiseInv => InOrder
  BY DEF PromiseInv, Resumable, Covered, InOrder, TypeOK, Positions
<1>3. QED BY <1>1, <1>2, TypeCorrect, PromiseKept, PTL DEF Spec

-----------------------------------------------------------------------------
(* One subscription.                                                       *)

\* What the theorem below supposes: one listener, offsets, the built-in query.
Alone == \A k, l \in Listeners : k = l
Plain == Alone /\ Offsetless = {} /\ ~CustomQuery

\* The only listener has loaded the offset as it is saved, and what it takes from
\* the stream continues the run of events that the saved offset ends.
OneRun ==
    \A l \in Listeners :
        /\ phase[l] = "loaded" => loaded[l] = stored /\ start[l] = origin
        /\ stored > 0 /\ phase[l] \in {"waiting", "publishing", "saving"} => start[l] = origin
        /\ phase[l] \in {"publishing", "saving"} => cursor[l] > 0

LEMMA OneRunKept == Plain /\ TypeOK /\ OneRun /\ [Next]_vars => OneRun'
<1> SUFFICES ASSUME Plain, TypeOK, OneRun, [Next]_vars PROVE OneRun'
  OBVIOUS
<1> USE DEF Plain, Alone, TypeOK, OneRun, Go, conn
<1>0. /\ stored \in Nat
      /\ \A l \in Listeners : cursor[l] \in Nat /\ loaded[l] \in Nat
  BY ListenerAssumption DEF Positions
<1>1. ASSUME NEW l \in Listeners, Load(l) PROVE OneRun'
  BY <1>1 DEF Load
<1>2. ASSUME NEW l \in Listeners, Subscribe(l) PROVE OneRun'
  BY <1>0, <1>2 DEF Subscribe, SendsOffset
<1>3. ASSUME NEW l \in Listeners, Receive(l) PROVE OneRun'
  BY <1>0, <1>3 DEF Receive
<1>4. ASSUME NEW l \in Listeners, Publish(l) PROVE OneRun'
  BY <1>4 DEF Publish
<1>5. ASSUME NEW l \in Listeners, Save(l) PROVE OneRun'
  BY <1>5 DEF Save
<1>6. ASSUME NEW l \in Listeners, Disconnected(l) \/ WakeUp(l) PROVE OneRun'
  BY <1>6 DEF Disconnected, WakeUp
<1>7. ASSUME NEW l \in Listeners, Refused(l) \/ Raise(l) \/ Reject(l) \/ Restart(l) PROVE OneRun'
  BY <1>7 DEF Refused, Raise, Reject, Restart, Fail
<1>8. ASSUME NEW l \in Listeners, Send(l) \/ Close(l) PROVE OneRun'
  BY <1>8 DEF Send, Close
<1>9. CASE Emit \/ Quiet \/ UNCHANGED vars
  BY <1>9 DEF Emit, Quiet, vars
<1>10. QED
  BY <1>1, <1>2, <1>3, <1>4, <1>5, <1>6, <1>7, <1>8, <1>9 DEF Next, Step

\* A single listener with the built-in query and an offset on every event never
\* begins its subscription anew once an offset is saved, whatever fails and
\* restarts (run, S3OffsetStore, _subscription_query).
THEOREM SubscriptionGoesOn ==
    ASSUME Plain PROVE Spec => NothingForgotten
<1>1. Init => OneRun
  BY DEF Init, OneRun
<1>2. TypeOK /\ OneRun /\ [Next]_vars => (stored > 0 => stored' > 0 /\ origin' = origin)
  <2> SUFFICES ASSUME TypeOK, OneRun, [Next]_vars, stored > 0
               PROVE  stored' > 0 /\ origin' = origin
    OBVIOUS
  <2> USE DEF Go, conn
  <2>1. ASSUME NEW l \in Listeners, Save(l) PROVE stored' > 0 /\ origin' = origin
    BY <2>1, Plain DEF Save, Saved, Plain, OneRun
  <2>2. ASSUME NEW l \in Listeners,
               \/ Load(l) \/ Subscribe(l) \/ Receive(l) \/ Publish(l)
               \/ Disconnected(l) \/ Refused(l) \/ Reject(l) \/ WakeUp(l)
               \/ Send(l) \/ Close(l) \/ Raise(l) \/ Restart(l)
        PROVE  UNCHANGED <<stored, origin>>
    BY <2>2
       DEF Load, Subscribe, Receive, Publish, Disconnected, Refused, Reject, WakeUp,
           Send, Close, Raise, Restart, Fail
  <2>3. CASE Emit \/ Quiet \/ UNCHANGED vars
    BY <2>3 DEF Emit, Quiet, vars
  <2>4. QED BY <2>1, <2>2, <2>3 DEF Next, Step
<1>3. QED BY <1>1, <1>2, OneRunKept, TypeCorrect, PTL DEF Spec, NothingForgotten
=============================================================================
