------------------------------- MODULE MCResolve -------------------------------
(***************************************************************************)
(* Small instance of Resolve: identifiers with and without a digit, and two *)
(* families of events.  In one the fields that identify the event vary, in  *)
(* the other those that lead to a resource.                                 *)
(***************************************************************************)
EXTENDS Resolve, TLC

CONSTANTS resv1, conf, word, day0

\* What the confirmation number stands for.
MCReservationOf == [c \in {conf} |-> resv1]

Plain == [named |-> TRUE, stamp |-> "time", hotel |-> "shared", module |-> "Reservation",
          name |-> "UpdateReservation", key |-> resv1, details |-> <<>>]

\* A date that came, and one that neither came nor went.
Created == [element |-> "creationDate", new |-> day0, old |-> None]
Undated == [Created EXCEPT !.new = None]

Identities ==
    {[Plain EXCEPT !.named = n, !.stamp = s, !.hotel = h, !.details = d] :
        n \in BOOLEAN, s \in {"none", "time", "other"},
        h \in {"none", "shared", "listener", "both"},
        d \in {<<>>, <<Created>>, <<Undated, Created>>}}

\* An identifier that came, went or changed, or a status.
MCDetails ==
    {[element |-> e, new |-> n, old |-> o] :
        e \in {"reservationId", "transactionNo"}, n \in {resv1, None}, o \in {word, None}}
    \cup {[element |-> "confirmationNo", new |-> n, old |-> None] : n \in {conf, None}}
    \cup {[element |-> "reservationStatus", new |-> "CANCELLED", old |-> None]}

Resources ==
    {[Plain EXCEPT !.module = m, !.name = n, !.key = k, !.details = d] :
        m \in {"Reservation", "RSV", "Profile", "CSH", "Inventory", None},
        n \in {"CancelReservation", "Folio", "FolioTransaction", None},
        k \in {resv1, word, None},
        d \in UNION {[1..n -> MCDetails] : n \in 0..MaxDetails}}

MCEvents == Identities \cup Resources
=============================================================================
