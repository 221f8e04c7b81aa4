----------------------------- MODULE Resolve_proofs -----------------------------
(***************************************************************************)
(* One event from the stream to the key of its rows, for every event of the *)
(* shape of the subscription query, with any number of changes, and for any *)
(* number of deliveries.  All that happens to an event follows from what it *)
(* says: the route, the identifier and the request are functions of it, and *)
(* the invariant says that the variables hold nothing else.                 *)
(***************************************************************************)
EXTENDS Resolve, FiniteSetTheorems, WellFoundedInduction, TLAPS

-----------------------------------------------------------------------------
(* What the operators return.                                              *)

\* The first index of those found is one of them.
LEMMA MinIsFound ==
    ASSUME NEW I \in SUBSET Nat, I # {}
    PROVE  Min(I) \in I
<1> DEFINE Less == {ss \in Nat \X Nat : ss[1] < ss[2]}
<1>1. IsWellFoundedOn(Less, Nat)
  BY NatLessThanWellFounded, Zenon DEF OpToRel
<1>2. PICK i \in I : \A j \in I : <<j, i>> \notin Less
  BY <1>1, WFMin
<1>3. ASSUME NEW j \in I PROVE i <= j
  <2>1. i \in Nat /\ j \in Nat
    OBVIOUS
  <2>2. j < i => <<j, i>> \in Less
    BY <2>1
  <2>3. QED BY <1>2, <2>1, <2>2
<1>4. QED BY <1>3 DEF Min

\* A change says something as soon as it has one of the two values.
LEMMA ValueOfChange ==
    ASSUME NEW d
    PROVE  /\ Value(d) \in {d.new, d.old}
           /\ {d.new, d.old} # {None} => Value(d) # None
BY DEF Value

\* What comes from the details stands in one of them under one of the names, and
\* something comes from them if there is anything.
LEMMA FromDetailsNames ==
    ASSUME NEW e \in Event, NEW names
    PROVE  /\ FromDetails(e, names) # None =>
                 \E i \in DOMAIN e.details :
                     /\ e.details[i].element \in names
                     /\ FromDetails(e, names) = Value(e.details[i])
           /\ \A i \in DOMAIN e.details :
                 e.details[i].element \in names /\ Value(e.details[i]) # None
                     => FromDetails(e, names) # None
<1> DEFINE found == {i \in DOMAIN e.details :
                        e.details[i].element \in names /\ Value(e.details[i]) # None}
<1>1. found \in SUBSET Nat
  BY DEF Event
<1>2. found # {} => Min(found) \in found
  BY <1>1, MinIsFound
<1>3. FromDetails(e, names) = IF found = {} THEN None ELSE Value(e.details[Min(found)])
  BY DEF FromDetails
<1>4. QED BY <1>2, <1>3

\* What comes from the details is something an element may hold.
LEMMA FromDetailsType ==
    ASSUME NEW e \in Event, NEW names
    PROVE  FromDetails(e, names) \in Values \cup {None}
<1>1. \A i \in DOMAIN e.details : e.details[i] \in Detail
  BY DEF Event
<1>2. \A d \in Detail : Value(d) \in Values \cup {None}
  BY DEF Detail, Value, Values
<1>3. QED BY <1>1, <1>2, FromDetailsNames

\* An event has at most one route: one of its own or that of its module.
LEMMA OneRoute ==
    ASSUME NEW e, NEW r \in RoutesFor(e), NEW s \in RoutesFor(e)
    PROVE  r = s
<1> DEFINE m == Alias(e.module)
           n == Alias(e.name)
<1>1. /\ r \in Routes /\ s \in Routes
      /\ r.module = m /\ s.module = m
      /\ \/ r.name = n /\ s.name = n
         \/ r.name = "*" /\ s.name = "*"
  BY DEF RoutesFor
<1> HIDE DEF m, n
<1>2. r.module = s.module /\ r.name = s.name
  BY <1>1
<1>3. QED BY <1>1, <1>2 DEF Routes

\* A request is for the resource of a route and names something.
LEMMA AskedByRoute ==
    ASSUME NEW e \in Event, NEW q \in Asks(e)
    PROVE  /\ q \in Request
           /\ \E r \in RoutesFor(e) : q.resource = r.resource /\ q.id = Resolved(e, r)
<1>1. PICK r \in RoutesFor(e) : q = [resource |-> r.resource, id |-> Resolved(e, r)]
  BY DEF Asks
<1>2. q.id # None
  BY DEF Asks
<1>3. r \in Routes
  BY DEF RoutesFor
<1>4. r.resource \in {"reservation", "profile", "folio", "folio_transaction"}
  BY <1>3 DEF Routes
<1>5. Resolved(e, r) \in Values \cup {None}
  <2>1. e.key \in Values \cup {None}
    BY DEF Event, Values
  <2>2. QED BY <2>1, FromDetailsType DEF Resolved, MatchingKey
<1>6. QED BY <1>1, <1>2, <1>4, <1>5 DEF Request

\* The time that each parser reads has come; it is that of the event if it has one,
\* and for the enricher the present unless a change is called like a timestamp.
LEMMA TimesRead ==
    ASSUME NEW e, clock \in 1..MaxClock
    PROVE  /\ ListenerTime(e) \in 1..clock
           /\ EnricherTime(e) \in 0..clock
           /\ e.stamp = "time" => ListenerTime(e) = 1 /\ EnricherTime(e) = 1
           /\ e.stamp # "time" /\ ~(e.stamp = "none" /\ Dated(e) # {}) => EnricherTime(e) = clock
  BY ResolveAssumption DEF ListenerTime, EnricherTime, EventTime

\* A row is under what was asked for, under what that stands for, or under "None".
LEMMA RowKeysMeet ==
    ASSUME NEW q \in Request, NEW a \in AnswersTo(q)
    PROVE  RowKeys(q, a) \subseteq {q.id, NameOf(q), "None"}
  BY DEF AnswersTo, RowKeys

\* What a request stands for is an identifier as well, and itself unless it is a
\* confirmation number.
LEMMA NameOfType ==
    ASSUME NEW q \in Request
    PROVE  NameOf(q) \in Values /\ (q.id \notin Confirmations => NameOf(q) = q.id)
<1>1. q.id \in Values
  BY DEF Request
<1>2. \A c \in Confirmations : ReservationOf[c] \in Values
  BY ResolveAssumption DEF Values
<1>3. QED BY <1>1, <1>2 DEF NameOf

\* Whatever is asked for an event is the same at every delivery.
LEMMA OneRequest ==
    ASSUME NEW e, NEW p \in Asks(e), NEW q \in Asks(e)
    PROVE  p = q
<1>1. PICK r \in RoutesFor(e) : p = [resource |-> r.resource, id |-> Resolved(e, r)]
  BY DEF Asks
<1>2. PICK s \in RoutesFor(e) : q = [resource |-> s.resource, id |-> Resolved(e, s)]
  BY DEF Asks
<1>3. QED BY <1>1, <1>2, OneRoute

-----------------------------------------------------------------------------
(* The invariant.                                                          *)

\* The message says what its event says, with the event's time or one that has come.
MessageInv ==
    message # None =>
        /\ message.payload = event
        /\ message.unique_event_id = EventId(event)
        /\ message.hotel_id = ListenerHotel(event)
        /\ message.occurred_at <= clock
        /\ event.stamp = "time" => message.occurred_at = 1

\* So does what the enricher reads in it, at a time that is not before the listener's.
ParsedInv ==
    parsed # None =>
        /\ message # None
        /\ parsed.unique_event_id = EventId(event)
        /\ event.hotel # "both" => parsed.hotel_id = ListenerHotel(event)
        /\ event.stamp = "time" => parsed.occurred_at = 1
        /\ event.stamp # "time" /\ ~(event.stamp = "none" /\ Dated(event) # {})
              => message.occurred_at <= parsed.occurred_at

\* The enricher asks for what the event asks for, and writes under that, under what
\* it stands for, or under "None".
AskedInv == asked # None => asked \in Asks(event)
KeysInv  == \A w \in written : \E q \in Asks(event) : w.key \in {q.id, NameOf(q), "None"}

ResolveInv == TypeOK /\ MessageInv /\ ParsedInv /\ AskedInv /\ KeysInv

LEMMA ResolveInit == Init => ResolveInv
BY ResolveAssumption DEF Init, ResolveInv, TypeOK, MessageInv, ParsedInv, AskedInv, KeysInv

LEMMA PublishKeeps == ResolveInv /\ Publish => ResolveInv'
<1> SUFFICES ASSUME ResolveInv, Publish PROVE ResolveInv'
  OBVIOUS
<1> USE DEF ResolveInv
<1>1. /\ message = None /\ message' = Message(event)
      /\ UNCHANGED <<event, clock, parsed, asked, written, deliveries>>
  BY DEF Publish
<1>2. parsed = None
  BY <1>1 DEF ParsedInv
<1>3. /\ message'.payload = event
      /\ message'.unique_event_id = EventId(event)
      /\ message'.hotel_id = ListenerHotel(event)
      /\ message'.occurred_at = ListenerTime(event)
  BY <1>1 DEF Message
<1>4. clock \in 1..MaxClock
  BY DEF TypeOK
<1>5. message' \in [unique_event_id : {"uniqueEventId", "sha256"}, hotel_id : HotelNames,
                    occurred_at : 0..MaxClock, payload : {event}]
  <2>1. ListenerTime(event) \in 0..MaxClock
    BY <1>4, TimesRead, ResolveAssumption
  <2>2. EventId(event) \in {"uniqueEventId", "sha256"} /\ ListenerHotel(event) \in HotelNames
    BY DEF EventId, ListenerHotel, HotelNames
  <2>3. QED BY <1>1, <2>1, <2>2 DEF Message
<1>6. TypeOK'
  BY <1>1, <1>5 DEF TypeOK
<1>7. MessageInv'
  <2>1. ListenerTime(event) <= clock /\ (event.stamp = "time" => ListenerTime(event) = 1)
    BY <1>4, TimesRead
  <2>2. QED BY <1>1, <1>3, <2>1 DEF MessageInv
<1>8. ParsedInv'
  BY <1>1, <1>2 DEF ParsedInv
<1>9. AskedInv' /\ KeysInv'
  BY <1>1 DEF AskedInv, KeysInv
<1>10. QED BY <1>6, <1>7, <1>8, <1>9

LEMMA DeliverKeeps == ResolveInv /\ Deliver => ResolveInv'
<1> SUFFICES ASSUME ResolveInv, Deliver PROVE ResolveInv'
  OBVIOUS
<1> USE DEF ResolveInv
<1>1. /\ message # None /\ asked = None /\ deliveries < MaxDeliveries
      /\ deliveries' = deliveries + 1 /\ parsed' = Parse(message)
      /\ asked' \in IF Asks(event) = {} THEN {None} ELSE Asks(event)
      /\ UNCHANGED <<event, clock, message, written>>
  BY DEF Deliver
<1>2. /\ message.payload = event
      /\ message.unique_event_id = EventId(event)
      /\ message.hotel_id = ListenerHotel(event)
      /\ message.occurred_at <= clock
  BY <1>1 DEF MessageInv
<1>3. event \in Event /\ clock \in 1..MaxClock
  BY DEF TypeOK
<1>4. /\ parsed'.unique_event_id = EventId(event)
      /\ parsed'.hotel_id = IF event.hotel \in {"shared", "both"} THEN "hotelId"
                                                                ELSE ListenerHotel(event)
      /\ parsed'.occurred_at = EnricherTime(event)
  BY <1>1, <1>2, <1>3 DEF Parse, EventId, Event
<1>5. parsed' \in [unique_event_id : {"uniqueEventId", "sha256"}, hotel_id : HotelNames,
                   occurred_at : 0..MaxClock]
  <2>1. EnricherTime(event) \in 0..MaxClock
    BY <1>3, TimesRead, ResolveAssumption
  <2>2. EventId(event) \in {"uniqueEventId", "sha256"} /\ ListenerHotel(event) \in HotelNames
    BY DEF EventId, ListenerHotel, HotelNames
  <2>3. parsed' = [unique_event_id |-> parsed'.unique_event_id, hotel_id |-> parsed'.hotel_id,
                   occurred_at |-> parsed'.occurred_at]
    BY <1>1 DEF Parse
  <2>4. QED BY <1>4, <2>1, <2>2, <2>3 DEF HotelNames
<1>6. asked' # None => asked' \in Asks(event)
  BY <1>1
<1>7. TypeOK'
  <2>1. asked' = None \/ asked' \in Request
    BY <1>3, <1>6, AskedByRoute
  <2>2. deliveries' \in 0..MaxDeliveries
    BY <1>1, ResolveAssumption DEF TypeOK
  <2>3. QED BY <1>1, <1>5, <2>1, <2>2 DEF TypeOK
<1>8. MessageInv' /\ KeysInv'
  BY <1>1 DEF MessageInv, KeysInv
<1>9. ParsedInv'
  <2>1. event.hotel # "both" => parsed'.hotel_id = ListenerHotel(event)
    BY <1>4 DEF ListenerHotel
  <2>2. /\ event.stamp = "time" => EnricherTime(event) = 1
        /\ event.stamp # "time" /\ ~(event.stamp = "none" /\ Dated(event) # {})
              => EnricherTime(event) = clock
    BY <1>3, TimesRead
  <2>3. QED BY <1>1, <1>2, <1>4, <2>1, <2>2 DEF ParsedInv
<1>10. AskedInv'
  <2>1. Asks(event)' = Asks(event)
    BY <1>1
  <2>2. QED BY <1>6, <2>1 DEF AskedInv
<1>11. QED BY <1>7, <1>8, <1>9, <1>10

\* Answer and NotFound write under the identifier asked for, what it stands for, or
\* "None".
LEMMA WritingKeeps ==
    ASSUME ResolveInv, asked # None, asked' = None,
           \A w \in written' \ written :
               /\ w \in [to : {"snapshot", "row", "mark"}, key : Values \cup {"None"}]
               /\ w.key \in {asked.id, NameOf(asked), "None"},
           UNCHANGED <<event, clock, message, parsed, deliveries>>
    PROVE  ResolveInv'
<1> USE DEF ResolveInv
<1>1. asked \in Asks(event)
  BY DEF AskedInv
<1>2. TypeOK'
  BY DEF TypeOK
<1>3. MessageInv' /\ ParsedInv' /\ AskedInv'
  BY DEF MessageInv, ParsedInv, AskedInv
<1>4. Asks(event)' = Asks(event)
  OBVIOUS
<1>5. KeysInv'
  BY <1>1, <1>4 DEF KeysInv
<1>6. QED BY <1>2, <1>3, <1>5

\* A 200 adds a payload under the identifier asked for, and a row.
LEMMA AnswerKeeps ==
    ASSUME ResolveInv, NEW a \in Answers, Answer(a)
    PROVE  ResolveInv'
<1>1. asked \in Request /\ asked.id \in Values
  BY DEF Answer, ResolveInv, TypeOK, Request
<1>2. a \in AnswersTo(asked)
  BY DEF Answer
<1>3. RowKeys(asked, a) \subseteq {asked.id, NameOf(asked), "None"}
  BY <1>1, <1>2, RowKeysMeet
<1>4. NameOf(asked) \in Values
  BY <1>1, NameOfType
<1>5. \A w \in written' \ written :
          /\ w \in [to : {"snapshot", "row", "mark"}, key : Values \cup {"None"}]
          /\ w.key \in {asked.id, NameOf(asked), "None"}
  <2> SUFFICES ASSUME NEW w \in written' \ written
               PROVE  /\ w \in [to : {"snapshot", "row", "mark"}, key : Values \cup {"None"}]
                      /\ w.key \in {asked.id, NameOf(asked), "None"}
    OBVIOUS
  <2>1. PICK to \in {"snapshot", "row"}, id \in {asked.id} \cup RowKeys(asked, a) :
            w = [to |-> to, key |-> id]
    BY DEF Answer, Under
  <2>2. QED BY <1>1, <1>3, <1>4, <2>1
<1>6. QED BY <1>5, WritingKeeps DEF Answer

\* A 404 of a deletion adds a marker and a mark under the identifier asked for.
LEMMA NotFoundKeeps ==
    ASSUME ResolveInv, NotFound
    PROVE  ResolveInv'
<1>1. asked.id \in Values
  BY DEF NotFound, ResolveInv, TypeOK, Request
<1>2. \A w \in written' \ written :
          /\ w \in [to : {"snapshot", "row", "mark"}, key : Values \cup {"None"}]
          /\ w.key \in {asked.id, NameOf(asked), "None"}
  <2> SUFFICES ASSUME NEW w \in written' \ written
               PROVE  /\ w \in [to : {"snapshot", "row", "mark"}, key : Values \cup {"None"}]
                      /\ w.key \in {asked.id, NameOf(asked), "None"}
    OBVIOUS
  <2>1. PICK to \in {"snapshot", "mark"} : w = [to |-> to, key |-> asked.id]
    BY DEF NotFound, Under
  <2>2. QED BY <1>1, <2>1
<1>3. QED BY <1>2, WritingKeeps DEF NotFound

LEMMA ResolveKept == ResolveInv /\ [Next]_vars => ResolveInv'
<1> SUFFICES ASSUME ResolveInv, [Next]_vars PROVE ResolveInv'
  OBVIOUS
<1>1. CASE Publish
  BY <1>1, PublishKeeps
<1>2. CASE Deliver
  BY <1>2, DeliverKeeps
<1>3. ASSUME NEW a \in Answers, Answer(a) PROVE ResolveInv'
  BY <1>3, AnswerKeeps
<1>4. CASE NotFound
  BY <1>4, NotFoundKeeps
<1>5. CASE Tick
  <2>1. clock' \in 1..MaxClock /\ clock' = clock + 1 /\ clock \in 1..MaxClock
    BY <1>5, ResolveAssumption DEF Tick, ResolveInv, TypeOK
  <2>2. UNCHANGED <<event, message, parsed, asked, written, deliveries>>
    BY <1>5 DEF Tick
  <2>3. Asks(event)' = Asks(event)
    BY <2>2
  <2>4. QED BY <2>1, <2>2, <2>3
            DEF ResolveInv, TypeOK, MessageInv, ParsedInv, AskedInv, KeysInv
<1>6. CASE Idle \/ UNCHANGED vars
  <2>1. UNCHANGED vars
    BY <1>6 DEF Idle
  <2>2. Asks(event)' = Asks(event)
    BY <2>1 DEF vars
  <2>3. QED BY <2>1, <2>2
            DEF vars, ResolveInv, TypeOK, MessageInv, ParsedInv, AskedInv, KeysInv
<1>7. QED BY <1>1, <1>2, <1>3, <1>4, <1>5, <1>6 DEF Next

LEMMA ResolveHolds == Spec => []ResolveInv
BY ResolveInit, ResolveKept, PTL DEF Spec

-----------------------------------------------------------------------------
(* The properties.                                                         *)

\* The variables keep their types: requests are for the four resources, and what is
\* written goes to the snapshots, rows and marks there are, under a value that an
\* event may hold or under "None" (IdentifierResolver, transform).
THEOREM TypeCorrect == Spec => []TypeOK
<1>1. ResolveInv => TypeOK
  BY DEF ResolveInv
<1>2. QED BY <1>1, ResolveHolds, PTL

\* At every delivery the enricher registers the identifier by which SQS has
\* deduplicated the event, and the hotel whose order it keeps unless the event
\* names two (OhipEvent, OperaEventParser.parse).
THEOREM IdentityIsKept == Spec => []SameIdentity
<1>1. ResolveInv => SameIdentity
  BY DEF ResolveInv, MessageInv, ParsedInv, SameIdentity
<1>2. QED BY <1>1, ResolveHolds, PTL

\* The time by which the rows of a resource are compared is the event's own when it
\* has one, whatever else is dated in it, and otherwise never before the listener
\* read it unless a change is called like a timestamp (_first, _parse_datetime).
THEOREM TimeIsKept == Spec => []TimeKept
<1>1. ResolveInv => TimeKept
  <2> SUFFICES ASSUME ResolveInv, parsed # None
               PROVE  /\ event.stamp = "time" => parsed.occurred_at = message.occurred_at
                      /\ parsed.occurred_at < message.occurred_at
                            => event.stamp = "none" /\ Dated(event) # {}
    BY DEF TimeKept
  <2>1. message # None
    BY DEF ResolveInv, ParsedInv
  <2>2. parsed.occurred_at \in Int /\ message.occurred_at \in Int
    BY <2>1 DEF ResolveInv, TypeOK
  <2>3. QED BY <2>1, <2>2 DEF ResolveInv, MessageInv, ParsedInv
<1>2. QED BY <1>1, ResolveHolds, PTL

\* For an event of a folio the API is asked for a reservation which the event names
\* in its details, never for the key of the folio (_matching_primary_key).
THEOREM FoliosAskForReservations == Spec => []FolioAsksForReservation
<1>1. ResolveInv => FolioAsksForReservation
  <2> SUFFICES ASSUME ResolveInv, asked # None, asked.resource = "folio"
               PROVE  \E i \in DOMAIN event.details :
                          /\ event.details[i].element \in {"reservationId", "confirmationNo"}
                          /\ asked.id \in {event.details[i].new, event.details[i].old}
    BY DEF FolioAsksForReservation
  <2>1. asked \in Asks(event) /\ event \in Event
    BY DEF ResolveInv, AskedInv, TypeOK
  <2>2. PICK r \in RoutesFor(event) : r.resource = "folio" /\ asked.id = Resolved(event, r)
    BY <2>1, AskedByRoute
  <2>3. r \in Routes /\ r.id = "reservationId"
    BY <2>2 DEF RoutesFor, Routes
  <2>4. asked.id = FromDetails(event, {"reservationId", "confirmationNo"})
    BY <2>2, <2>3 DEF Resolved, MatchingKey, Candidates
  <2>5. asked.id # None
    BY <2>1 DEF Asks
  <2>6. QED BY <2>1, <2>4, <2>5, FromDetailsNames, ValueOfChange
<1>2. QED BY <1>1, ResolveHolds, PTL

\* An event that names a resource of its route, under any of the names that are
\* looked for and be it by the value before the change, is never given up
\* (IdentifierResolver.resolve).
THEOREM NamedIsAlwaysAsked == Spec => NamedIsAsked
<1>1. ResolveInv /\ [Next]_vars =>
          (parsed' # parsed =>
             \A r \in RoutesFor(event), i \in DOMAIN event.details :
                 event.details[i].element \in Candidates(r.id)
                 /\ {event.details[i].new, event.details[i].old} # {None}
                    => asked' # None)
  <2> SUFFICES ASSUME ResolveInv, [Next]_vars, parsed' # parsed,
                      NEW r \in RoutesFor(event), NEW i \in DOMAIN event.details,
                      event.details[i].element \in Candidates(r.id),
                      {event.details[i].new, event.details[i].old} # {None}
               PROVE  asked' # None
    OBVIOUS
  <2>1. Deliver
    BY DEF Next, Publish, Answer, NotFound, Tick, Idle, vars
  <2>2. event \in Event
    BY DEF ResolveInv, TypeOK
  <2>3. FromDetails(event, Candidates(r.id)) # None
    BY <2>2, FromDetailsNames, ValueOfChange
  <2>4. Resolved(event, r) # None
    BY <2>3 DEF Resolved
  <2>5. [resource |-> r.resource, id |-> Resolved(event, r)] \in Asks(event)
    BY <2>4 DEF Asks
  <2>6. asked' \in Asks(event)
    BY <2>1, <2>5 DEF Deliver
  <2>7. asked' \in Request
    BY <2>2, <2>6, AskedByRoute
  <2>8. QED BY <2>7, ResolveAssumption
<1>2. QED BY <1>1, ResolveHolds, PTL DEF Spec, NamedIsAsked

\* The payload, the row and the deletion mark of an event are under one key, at
\* whichever of its deliveries and from whichever answer they come, but for the
\* confirmation number it was asked for by and for "None" (_persist, _mark_deleted,
\* transform).
THEOREM KeysAlwaysMeet == Spec => []KeysMeet
<1>1. ResolveInv => KeysMeet
  <2> SUFFICES ASSUME ResolveInv, NEW v \in written, NEW w \in written,
                      {v.key, w.key} \cap (Confirmations \cup {"None"}) = {}
               PROVE  v.key = w.key
    BY DEF KeysMeet
  <2>1. PICK p \in Asks(event) : v.key \in {p.id, NameOf(p), "None"}
    BY DEF ResolveInv, KeysInv
  <2>2. PICK q \in Asks(event) : w.key \in {q.id, NameOf(q), "None"}
    BY DEF ResolveInv, KeysInv
  <2>3. p = q
    BY OneRequest
  <2>4. q \in Request
    BY AskedByRoute DEF ResolveInv, TypeOK
  <2>5. q.id \in Confirmations \/ NameOf(q) = q.id
    BY <2>4, NameOfType
  <2>6. v.key \in {q.id, NameOf(q)} /\ w.key \in {q.id, NameOf(q)}
    BY <2>1, <2>2, <2>3
  <2>7. CASE q.id \in Confirmations
    BY <2>6, <2>7
  <2>8. CASE NameOf(q) = q.id
    BY <2>6, <2>8
  <2>9. QED BY <2>5, <2>7, <2>8
<1>2. QED BY <1>1, ResolveHolds, PTL
=============================================================================
