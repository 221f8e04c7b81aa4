SPECIFICATION Spec
CONSTANTS
    resv1 = resv1
    word = word
    conf = conf
    day0 = day0
    None = None
    Identifiers = {resv1, conf, word}
    WithDigit = {resv1, conf}
    Confirmations = {conf}
    ReservationOf <- MCReservationOf
    EventModules = {"Reservation", "RSV", "Profile", "CSH", "Inventory"}
    EventNames = {"UpdateReservation", "CancelReservation", "Folio", "FolioTransaction"}
    ElementNames = {"reservationId", "confirmationNo", "transactionNo", "profileId", "reservationStatus",
                    "creationDate"}
    Statuses = {"CANCELLED"}
    Dates = {day0}
    MaxDetails = 2
    Events <- MCEvents
    MaxClock = 2
    MaxDeliveries = 2
INVARIANTS
    TypeOK
    SameIdentity
    TimeKept
    FolioAsksForReservation
    KeysMeet
PROPERTY NamedIsAsked
