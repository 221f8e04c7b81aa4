-------------------------------- MODULE Resolve --------------------------------
(***************************************************************************)
(* What the pipeline makes of one event: the listener reads it off the      *)
(* stream (events.py) and sends it as a message (sqs.py); at every delivery  *)
(* the enricher reads the message again (opera_event_parser.py), chooses the *)
(* API call (event_router.py, config/event-router.yaml) and the resource to  *)
(* ask for (identifier_resolver.py), and turns the answer into the key of a  *)
(* row (transformers.py) or a 404 into the key of a deletion mark.           *)
(*                                                                         *)
(* An event has the shape of the subscription query: any field may be null, *)
(* and detail lists what changed.  A query of one's own may name the hotel  *)
(* in a way only the listener knows, and in both ways.                      *)
(***************************************************************************)
EXTENDS Integers, Sequences, FiniteSetsExt

CONSTANTS
    None,         \* null
    Identifiers,  \* identifiers of resources
    WithDigit,    \* those with a digit in them
    Confirmations, \* those that are confirmation numbers of reservations
    ReservationOf, \* the reservationId that each of these stands for
    EventModules, EventNames,
    ElementNames, \* detail[].elementName
    Statuses,     \* values of a status element
    Dates,        \* values that are dates, from before the event
    MaxDetails,   \* bound: changes listed by an event
    Events,       \* the events considered
    MaxClock,     \* bound: clock
    MaxDeliveries \* bound: deliveries of the message

VARIABLES
    event,       \* the event on the stream
    clock,
    message,     \* the message of the event, None until it is sent
    parsed,      \* what the enricher read at the last delivery, None at first
    asked,       \* the resource it asks the API for, None when it does not
    written,     \* history: what was written, and under which key
    deliveries

vars == <<event, clock, message, parsed, asked, written, deliveries>>

\* What newValue may hold, and what the pipeline takes from it unseen.
Values == Identifiers \cup Statuses \cup Dates

Detail == [element : ElementNames, new : Values \cup {None}, old : Values \cup {None}]

\* stamp: the timestamp is null, a time, or something that does not parse.
\* hotel: "shared" is a name both parsers know (hotelId, resort), "listener" one
\* that only the listener knows (propertyCode, hotelCode), "both" the latter before
\* the former, with another value.
Event == [named : BOOLEAN, stamp : {"none", "time", "other"},
          hotel : {"none", "shared", "listener", "both"},
          module : EventModules \cup {None}, name : EventNames \cup {None},
          key : Identifiers \cup {None}, details : UNION {[1..n -> Detail] : n \in 0..MaxDetails}]

\* What the enricher asks the API for.
Request == [resource : {"reservation", "profile", "folio", "folio_transaction"}, id : Values]

ASSUME ResolveAssumption ==
    /\ Events \subseteq Event
    /\ WithDigit \subseteq Identifiers /\ Confirmations \subseteq Identifiers
    /\ ReservationOf \in [Confirmations -> Identifiers]
    /\ {MaxDetails, MaxDeliveries} \subseteq Nat /\ MaxClock \in Nat \ {0}
    /\ None \notin Request

\* The event happened at time 1, the dates its details may hold are of time 0.
EventTime == 1

-----------------------------------------------------------------------------
(* The listener.                                                           *)

\* An event without an identifier gets the digest of its payload.
EventId(e) == IF e.named THEN "uniqueEventId" ELSE "sha256"

\* The first name there is of a hotel.
ListenerHotel(e) ==
    CASE e.hotel = "none"   -> "UNKNOWN"
      [] e.hotel = "shared" -> "hotelId"
      [] OTHER              -> "propertyCode"

\* The timestamp if it is a time, or else the time of reading.
ListenerTime(e) == IF e.stamp = "time" THEN EventTime ELSE clock

\* parse_ohip_event, publish: the message has what was read and the payload.
Message(e) ==
    [unique_event_id |-> EventId(e), hotel_id |-> ListenerHotel(e),
     occurred_at |-> ListenerTime(e), payload |-> e]

-----------------------------------------------------------------------------
(* The enricher.                                                           *)

\* Variant: only newValue is read.
NewValue(d) == d.new

\* newValue or oldValue
Value(d) == IF d.new # None THEN d.new ELSE d.old

\* The details that are called like a timestamp.
Dated(e) == {i \in DOMAIN e.details : e.details[i].element = "creationDate"}

\* Variant: the details are looked at before the payload.
DetailsFirst(e) ==
    IF Dated(e) # {} /\ Value(e.details[Min(Dated(e))]) \in Dates THEN 0
    ELSE IF e.stamp = "time" THEN EventTime ELSE clock

\* _first, _parse_datetime: the timestamp, or without one what the first detail of
\* such a name holds; the time of reading when that is nothing or no time.
EnricherTime(e) ==
    CASE e.stamp = "time" -> EventTime
      [] e.stamp = "none" /\ Dated(e) # {} /\ Value(e.details[Min(Dated(e))]) \in Dates -> 0
      [] OTHER -> clock

\* Variant: only the payload of the message is read.
ParsePayload(m) ==
    [unique_event_id |-> EventId(m.payload),
     hotel_id |-> IF m.payload.hotel \in {"shared", "both"} THEN "hotelId" ELSE "UNKNOWN",
     occurred_at |-> EnricherTime(m.payload)]

\* OperaEventParser.parse: the payload, then what the listener added to it;
\* occurred_at of the message has a name that is not looked for.
Parse(m) ==
    [unique_event_id |-> IF m.payload.named THEN "uniqueEventId" ELSE m.unique_event_id,
     hotel_id |-> IF m.payload.hotel \in {"shared", "both"} THEN "hotelId" ELSE m.hotel_id,
     occurred_at |-> EnricherTime(m.payload)]

\* is_delete_or_cancel
IsDeleteOrCancel(e) ==
    \/ e.name = "CancelReservation"
    \/ e.details # <<>> /\ \A i \in DOMAIN e.details : e.details[i].new = None
    \/ \E i \in DOMAIN e.details :
          e.details[i].element = "reservationStatus" /\ e.details[i].new \in {"CANCELLED", "NO_SHOW"}

\* config/event-router.yaml
Routes ==
    {[module |-> "Reservation", name |-> "*", resource |-> "reservation", id |-> "reservationId"],
     [module |-> "Profile", name |-> "*", resource |-> "profile", id |-> "profileId"],
     [module |-> "Cashiering", name |-> "Folio", resource |-> "folio", id |-> "reservationId"],
     [module |-> "Cashiering", name |-> "Transaction", resource |-> "folio_transaction",
      id |-> "transactionNo"]}

\* _normalize
Alias(v) == CASE v = "RSV" -> "Reservation" [] v = "CSH" -> "Cashiering"
              [] v = "FolioTransaction" -> "Transaction" [] OTHER -> v

\* route_for: a route for the very event before one for all of its module.
RoutesFor(e) ==
    LET own   == {r \in Routes : r.module = Alias(e.module)}
        exact == {r \in own : r.name = Alias(e.name)}
    IN IF exact # {} THEN exact ELSE {r \in own : r.name = "*"}

\* CANDIDATES
Candidates(id) ==
    CASE id = "reservationId" -> {"reservationId", "confirmationNo"}
      [] id = "transactionNo" -> {"transactionNo"}
      [] id = "profileId"     -> {"profileId"}

\* _from_details: the first element that has one of the names, and a value.
FromDetails(e, names) ==
    LET found == {i \in DOMAIN e.details :
                     e.details[i].element \in names /\ Value(e.details[i]) # None}
    IN IF found = {} THEN None ELSE Value(e.details[Min(found)])

\* Variant: the key of an event is that of its resource.
AnyKey(e, r) == e.key

\* _matching_primary_key: never for a folio, for a transaction if it has a digit.
MatchingKey(e, r) ==
    IF r.resource = "folio" \/ (r.id = "transactionNo" /\ e.key \notin WithDigit)
    THEN None ELSE e.key

\* resolve
Resolved(e, r) ==
    IF MatchingKey(e, r) # None THEN MatchingKey(e, r) ELSE FromDetails(e, Candidates(r.id))

-----------------------------------------------------------------------------
(* The answer.                                                             *)

\* An answer: says is the identifier it gives, in a field of its own or in the
\* first element of a list, if it has them; folios are a list too.
Answers == [own : BOOLEAN, list : {"absent", "empty", "named", "unnamed"}, says : Values]

\* The identifier of what is asked for: a confirmation number stands for another.
NameOf(q) ==
    IF q.resource = "reservation" /\ q.id \in Confirmations THEN ReservationOf[q.id] ELSE q.id

\* OHIP answers about what it was asked for, and calls it by its identifier.
AnswersTo(q) == {a \in Answers : a.says = NameOf(q)}

\* ReservationTransformer finds an empty list where it looks for a name.
Raises(q, a) == q.resource = "reservation" /\ a.list = "empty" /\ ~a.own

\* The key of the row.  For a reservation, str(own or list[0].id if there is a list
\* else the one asked for), which is "None" for an element without id; for folios,
\* the reservation that their rows hang on; else own or the one asked for.
RowKeys(q, a) ==
    CASE q.resource = "folio"       -> IF a.list \in {"absent", "empty"} THEN {} ELSE {q.id}
      [] q.resource = "reservation" ->
            IF a.list = "absent" THEN {q.id}
            ELSE IF a.own \/ a.list = "named" THEN {a.says} ELSE {"None"}
      [] OTHER                      -> IF a.own THEN {a.says} ELSE {q.id}

\* What is written, and under which key.
Under(to, ids) == {[to |-> to, key |-> id] : id \in ids}

Publish ==
    /\ message = None
    /\ message' = Message(event)
    /\ UNCHANGED <<event, clock, parsed, asked, written, deliveries>>

\* What a delivery asks for: nothing without a route or an identifier.
Asks(e) ==
    {q \in {[resource |-> r.resource, id |-> Resolved(e, r)] : r \in RoutesFor(e)} : q.id # None}

\* A delivery: parse, route and resolve; a poison event asks for nothing.
Deliver ==
    /\ message # None /\ asked = None
    /\ deliveries < MaxDeliveries
    /\ deliveries' = deliveries + 1
    /\ parsed' = Parse(message)
    /\ asked' \in IF Asks(event) = {} THEN {None} ELSE Asks(event)
    /\ UNCHANGED <<event, clock, message, written>>

\* The API answers: the payload is stored under the identifier asked for, the row
\* under the key that the answer gives, or neither when it raises.
Answer(a) ==
    /\ asked # None /\ a \in AnswersTo(asked)
    /\ written' = IF Raises(asked, a) THEN written
                  ELSE written \cup Under("snapshot", {asked.id})
                               \cup Under("row", RowKeys(asked, a))
    /\ asked' = None
    /\ UNCHANGED <<event, clock, message, parsed, deliveries>>

\* Variant: the deletion mark goes to the key of the event.
MarkByKey ==
    /\ asked # None
    /\ written' = IF IsDeleteOrCancel(event)
                  THEN written \cup Under("snapshot", {asked.id}) \cup Under("mark", {event.key})
                  ELSE written
    /\ asked' = None
    /\ UNCHANGED <<event, clock, message, parsed, deliveries>>

\* The API answers 404: of a deletion, a marker is stored and the row marked, but
\* no row of a folio is known by the reservation asked for (mark_resource_deleted).
NotFound ==
    /\ asked # None
    /\ written' = IF IsDeleteOrCancel(event)
                  THEN written \cup Under("snapshot", {asked.id})
                               \cup Under("mark", IF asked.resource = "folio" THEN {}
                                                  ELSE {asked.id})
                  ELSE written
    /\ asked' = None
    /\ UNCHANGED <<event, clock, message, parsed, deliveries>>

Tick ==
    /\ clock < MaxClock
    /\ clock' = clock + 1
    /\ UNCHANGED <<event, message, parsed, asked, written, deliveries>>

\* The message is gone.
Idle ==
    /\ deliveries = MaxDeliveries /\ asked = None
    /\ UNCHANGED vars

Init ==
    /\ event \in Events
    /\ clock = 1
    /\ message = None
    /\ parsed = None
    /\ asked = None
    /\ written = {}
    /\ deliveries = 0

Next == Publish \/ Deliver \/ (\E a \in Answers : Answer(a)) \/ NotFound \/ Tick \/ Idle

Spec == Init /\ [][Next]_vars

-----------------------------------------------------------------------------
(* Properties.                                                             *)

HotelNames == {"hotelId", "propertyCode", "UNKNOWN"}

TypeOK ==
    /\ event \in Event
    /\ clock \in 1..MaxClock
    /\ message = None \/ message \in
          [unique_event_id : {"uniqueEventId", "sha256"}, hotel_id : HotelNames,
           occurred_at : 0..MaxClock, payload : {event}]
    /\ parsed = None \/ parsed \in
          [unique_event_id : {"uniqueEventId", "sha256"}, hotel_id : HotelNames,
           occurred_at : 0..MaxClock]
    /\ asked = None \/ asked \in Request
    /\ written \subseteq [to : {"snapshot", "row", "mark"}, key : Values \cup {"None"}]
    /\ deliveries \in 0..MaxDeliveries

\* The event that the enricher registers has the identifier that SQS deduplicates
\* by and the hotel whose order SQS keeps, at every delivery, whatever fields the
\* two parsers know and the event lacks; but an event that names two hotels is
\* ordered under one and registered under the other (OhipEvent, OperaEventParser.parse).
SameIdentity ==
    parsed # None =>
        /\ parsed.unique_event_id = message.unique_event_id
        /\ event.hotel # "both" => parsed.hotel_id = message.hotel_id

\* The rows of a resource are compared by the time the enricher gives the event,
\* which is not that of the message, and is read anew at every delivery: it is the
\* event's own when it has one, whatever dates are among its changes, and is never
\* before the listener read it, unless the event has no timestamp and a change
\* that is called like one (_first, _parse_datetime).
TimeKept ==
    parsed # None =>
        /\ event.stamp = "time" => parsed.occurred_at = message.occurred_at
        /\ parsed.occurred_at < message.occurred_at => event.stamp = "none" /\ Dated(event) # {}

\* "Para folios y transacciones, primaryKey no se asume siempre como reservationId"
\* (README.md): for a folio event, the API is asked for a reservation that the
\* event names in its details, and for nothing else it may hold.
FolioAsksForReservation ==
    asked # None /\ asked.resource = "folio" =>
        \E i \in DOMAIN event.details :
            /\ event.details[i].element \in {"reservationId", "confirmationNo"}
            /\ asked.id \in {event.details[i].new, event.details[i].old}

\* An event that names a resource of its route, be it only by the value that it
\* had before the change, is never given up for want of an identifier
\* (IdentifierResolver.resolve).
NamedIsAsked ==
    [][parsed' # parsed =>
         \A r \in RoutesFor(event), i \in DOMAIN event.details :
             event.details[i].element \in Candidates(r.id)
             /\ {event.details[i].new, event.details[i].old} # {None}
                => asked' # None]_vars

\* Whatever is answered at its deliveries, what an event writes meets: the payload,
\* the row and the deletion mark are under one key, wherever the answer gives its
\* identifier.  Two keys are apart from it: the confirmation number that a
\* reservation was asked for by, under which the mark and the payload stay without
\* the row, and "None" (_persist, _mark_deleted, transform).
KeysMeet ==
    \A v, w \in written :
        {v.key, w.key} \cap (Confirmations \cup {"None"}) = {} => v.key = w.key
=============================================================================
