------------------------------- MODULE Listener -------------------------------
(***************************************************************************)
(* The listener (listener.py, graphql.py, offsets.py, sqs.py SqsPublisher): *)
(* it loads the last offset from S3, subscribes to the OHIP stream from it,  *)
(* and for every event it receives publishes to SQS and then saves the      *)
(* offset of the event.  Any failure ends the connection; the listener      *)
(* sleeps, with a delay that doubles, and starts over.                      *)
(*                                                                         *)
(* Events are numbered by their position in the stream.  Several listeners  *)
(* share the offset when a deployment starts the new task before it stops   *)
(* the old one; OHIP serves one connection at a time, but a listener goes   *)
(* on with the events it has buffered after its connection is closed.       *)
(***************************************************************************)
EXTENDS Integers

CONSTANTS
    Listeners,    \* listener processes
    MaxEvents,    \* bound: events OHIP emits
    Unusable,     \* events that parse_ohip_event or send_message refuses
    Offsetless,   \* events that carry no offset
    CustomQuery,  \* whether ohip_subscription_query_file is set
    MinDelay,     \* ohip_reconnect_min_seconds
    MaxDelay,     \* ohip_reconnect_max_seconds
    MaxFaults     \* bound: failures of the network, S3, SQS or the process

ASSUME ListenerAssumption ==
    /\ MaxEvents \in Nat
    /\ Unusable \subseteq 1..MaxEvents
    /\ Offsetless \subseteq 1..MaxEvents
    /\ CustomQuery \in BOOLEAN
    /\ MinDelay \in Nat \ {0}
    /\ MaxDelay \in Nat
    /\ MinDelay <= MaxDelay
    /\ MaxFaults \in Nat

VARIABLES
    emitted,    \* OHIP: how many events the stream has
    stored,     \* S3: the saved offset, 0 when there is none
    origin,     \* history: where the subscription began that stored continues
    published,  \* SQS: the events that have been sent at least once
    phase,      \* what each listener is doing
    loaded,     \* the offset each listener has loaded
    start,      \* history: where the run of events of each listener began
    cursor,     \* the event each listener took last from its connection
    buffered,   \* the last event OHIP has sent on the connection
    open,       \* whether OHIP is still sending on the connection
    delay,      \* the reconnection delay of each listener
    faults      \* failures so far

conn == <<loaded, start, cursor, buffered, open>>
vars == <<emitted, stored, origin, published, phase, loaded, start, cursor,
          buffered, open, delay, faults>>

\* "starting": about to load the offset; "loaded": about to subscribe;
\* "waiting": in the async for; "publishing" and "saving": with an event;
\* "sleeping": in the except clause.
Phases == {"starting", "loaded", "waiting", "publishing", "saving", "sleeping"}

Positions == 0..MaxEvents

TypeOK ==
    /\ emitted \in Positions
    /\ stored \in Positions
    /\ origin \in Positions
    /\ published \subseteq Positions
    /\ phase \in [Listeners -> Phases]
    /\ loaded \in [Listeners -> Positions]
    /\ start \in [Listeners -> Positions]
    /\ cursor \in [Listeners -> Positions]
    /\ buffered \in [Listeners -> Positions]
    /\ open \in [Listeners -> BOOLEAN]
    /\ delay \in [Listeners -> MinDelay..MaxDelay]
    /\ faults \in 0..MaxFaults

Init ==
    /\ emitted = 0
    /\ stored = 0
    /\ origin = 0
    /\ published = {}
    /\ phase = [l \in Listeners |-> "starting"]
    /\ loaded = [l \in Listeners |-> 0]
    /\ start = [l \in Listeners |-> 0]
    /\ cursor = [l \in Listeners |-> 0]
    /\ buffered = [l \in Listeners |-> 0]
    /\ open = [l \in Listeners |-> FALSE]
    /\ delay = [l \in Listeners |-> MinDelay]
    /\ faults = 0

Go(l, to) == phase' = [phase EXCEPT ![l] = to]

-----------------------------------------------------------------------------
(* OHIP.                                                                   *)

\* A business event happens.
Emit ==
    /\ emitted < MaxEvents
    /\ emitted' = emitted + 1
    /\ UNCHANGED <<stored, origin, published, phase, conn, delay, faults>>

\* OHIP sends the next event of the stream on an open connection.
Send(l) ==
    /\ open[l]
    /\ buffered[l] < emitted
    /\ buffered' = [buffered EXCEPT ![l] = @ + 1]
    /\ UNCHANGED <<emitted, stored, origin, published, phase, loaded, start, cursor,
                   open, delay, faults>>

\* OHIP closes a connection: an error, or the complete message.
Close(l) ==
    /\ open[l]
    /\ faults < MaxFaults
    /\ open' = [open EXCEPT ![l] = FALSE]
    /\ faults' = faults + 1
    /\ UNCHANGED <<emitted, stored, origin, published, phase, loaded, start, cursor,
                   buffered, delay>>

-----------------------------------------------------------------------------
(* run().                                                                  *)

\* The offset to resume from; a saved offset of null is no offset.
Load(l) ==
    /\ phase[l] = "starting"
    /\ loaded' = [loaded EXCEPT ![l] = stored]
    /\ start' = [start EXCEPT ![l] = origin]
    /\ Go(l, "loaded")
    /\ UNCHANGED <<emitted, stored, origin, published, cursor, buffered, open, delay, faults>>

\* Variant: the subscription never names an offset.
NeverSendsOffset(l) == FALSE

\* _subscription_query: a custom query is sent as it is, without the offset.
SendsOffset(l) == loaded[l] > 0 /\ ~CustomQuery

\* Variant: the query names the event after the offset, which OHIP may leave out.
FirstSentAfter(l) ==
    IF SendsOffset(l) THEN {loaded[l], loaded[l] + 1} ELSE 0..emitted

\* Where OHIP starts to send from: from the offset on, including its event or
\* not; without an offset, with the events to come or from what it retains.
FirstSent(l) ==
    IF SendsOffset(l) THEN {loaded[l] - 1, loaded[l]} ELSE 0..emitted

\* The connection of events(): token, connection_ack, subscribe.
Subscribe(l) ==
    /\ phase[l] = "loaded"
    /\ \A k \in Listeners : ~open[k]
    /\ \E from \in FirstSent(l) :
          /\ cursor' = [cursor EXCEPT ![l] = from]
          /\ buffered' = [buffered EXCEPT ![l] = from]
          /\ start' = [start EXCEPT ![l] = IF SendsOffset(l) THEN @ ELSE from]
    /\ open' = [open EXCEPT ![l] = TRUE]
    /\ Go(l, "waiting")
    /\ UNCHANGED <<emitted, stored, origin, published, loaded, delay, faults>>

\* The async for yields the next event of the connection.
Receive(l) ==
    /\ phase[l] = "waiting"
    /\ cursor[l] < buffered[l]
    /\ cursor' = [cursor EXCEPT ![l] = @ + 1]
    /\ Go(l, "publishing")
    /\ UNCHANGED <<emitted, stored, origin, published, loaded, start, buffered, open,
                   delay, faults>>

\* parse_ohip_event and SqsPublisher.publish.
Publish(l) ==
    /\ phase[l] = "publishing"
    /\ cursor[l] \notin Unusable
    /\ published' = published \cup {cursor[l]}
    /\ Go(l, "saving")
    /\ UNCHANGED <<emitted, stored, origin, conn, delay, faults>>

\* Variant: the offset saved is the one to resume from.
SavedNext(n) == IF n \in Offsetless \/ n = MaxEvents THEN 0 ELSE n + 1

\* S3OffsetStore.save, whatever another listener has saved since: the offset of
\* the event, or null in the place of the last one when it has none.
Saved(n) == IF n \in Offsetless THEN 0 ELSE n

Save(l) ==
    /\ phase[l] = "saving"
    /\ stored' = Saved(cursor[l])
    /\ origin' = start[l]
    /\ delay' = [delay EXCEPT ![l] = MinDelay]
    /\ Go(l, "waiting")
    /\ UNCHANGED <<emitted, published, conn, faults>>

\* The connection is gone and its buffer is empty: ConnectionClosed, or, after
\* a complete message, the end of the loop and another connection at once.
Disconnected(l) ==
    /\ phase[l] = "waiting"
    /\ ~open[l]
    /\ cursor[l] = buffered[l]
    /\ Go(l, "sleeping") \/ Go(l, "starting")
    /\ UNCHANGED <<emitted, stored, origin, published, conn, delay, faults>>

\* An exception in the loop closes the connection, if there is one.
Fail(l) ==
    /\ Go(l, "sleeping")
    /\ open' = [open EXCEPT ![l] = FALSE]
    /\ UNCHANGED <<emitted, stored, origin, published, loaded, start, cursor, buffered,
                   delay>>

\* OHIP refuses a second connection of the application (close code 4409).
Refused(l) ==
    /\ phase[l] = "loaded"
    /\ \E k \in Listeners : open[k]
    /\ Fail(l)
    /\ UNCHANGED faults

\* Loading, connecting, publishing or saving raises.
Raise(l) ==
    /\ phase[l] # "sleeping"
    /\ faults < MaxFaults
    /\ faults' = faults + 1
    /\ Fail(l)

\* The event itself is the reason, and will be the next time.
Reject(l) ==
    /\ phase[l] = "publishing"
    /\ cursor[l] \in Unusable
    /\ Fail(l)
    /\ UNCHANGED faults

\* Variant: the delay is never capped.
DoubledForEver(d) == 2 * d

\* min(delay * 2, ohip_reconnect_max_seconds)
Doubled(d) == IF 2 * d < MaxDelay THEN 2 * d ELSE MaxDelay

\* The sleep is over.
WakeUp(l) ==
    /\ phase[l] = "sleeping"
    /\ delay' = [delay EXCEPT ![l] = Doubled(@)]
    /\ Go(l, "starting")
    /\ UNCHANGED <<emitted, stored, origin, published, conn, faults>>

\* The process dies, and ECS starts another.
Restart(l) ==
    /\ faults < MaxFaults
    /\ faults' = faults + 1
    /\ Go(l, "starting")
    /\ open' = [open EXCEPT ![l] = FALSE]
    /\ delay' = [delay EXCEPT ![l] = MinDelay]
    /\ UNCHANGED <<emitted, stored, origin, published, loaded, start, cursor, buffered>>

Step(l) ==
    \/ Load(l) \/ Subscribe(l) \/ Receive(l) \/ Publish(l) \/ Save(l)
    \/ Disconnected(l) \/ Refused(l) \/ Reject(l) \/ WakeUp(l)

\* The bounded stream has ended, and a listener waits for more on an open
\* connection.
Quiet ==
    /\ emitted = MaxEvents
    /\ \E l \in Listeners :
          phase[l] = "waiting" /\ open[l] /\ cursor[l] = emitted
    /\ UNCHANGED vars

Next ==
    \/ Emit
    \/ \E l \in Listeners :
          Send(l) \/ Close(l) \/ Step(l) \/ Raise(l) \/ Restart(l)
    \/ Quiet

Spec == Init /\ [][Next]_vars

\* OHIP sends what it has, and a listener that can go on goes on: its calls to
\* AWS are synchronous and it awaits nothing but the socket and the sleep.
FairSpec == Spec /\ \A l \in Listeners : WF_vars(Send(l)) /\ WF_vars(Step(l))

-----------------------------------------------------------------------------
(* Properties.                                                             *)

\* The saved offset is a promise: every event between the place where the
\* subscription began and the offset has been sent to SQS.  Publishing before
\* saving (run) must keep it through failures between the two, restarts, an
\* event that is refused, and a listener that saves after its successor did.
NoGap ==
    stored > 0 => \A n \in 1..stored : n > origin => n \in published

\* The subscription never skips an event within one connection: what a listener
\* has taken from the stream since it began is published, or is in its hands.
InOrder ==
    \A l \in Listeners :
        phase[l] \in {"waiting", "publishing", "saving"} =>
            \A n \in 1..cursor[l] :
                n > start[l] =>
                    n \in published \/ (n = cursor[l] /\ phase[l] = "publishing")

\* A subscription is never begun anew once an offset is saved: however often the
\* listener fails and restarts, what it saves continues the same run of events.
\* It supposes one listener, offsets on every event and the built-in query.
NothingForgotten ==
    [][stored > 0 => stored' > 0 /\ origin' = origin]_vars

\* Once an offset is saved, every later event is published in the end, up to the
\* first one that is refused and as long as the other failures end: the loop
\* never stops trying and never steps over an event (run).
EveryEventPublished ==
    \A n \in 1..MaxEvents :
        (\A u \in Unusable : n < u) =>
            ((stored > 0 /\ stored < n /\ n <= emitted) ~> n \in published)
=============================================================================
