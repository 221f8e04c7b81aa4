SPECIFICATION Spec
CONSTANTS
    p1 = p1
    p2 = p2
    Procs = {p1, p2}
    NoProc = NoProc
    hotelA = hotelA
    hotelB = hotelB
    Groups = {hotelA, hotelB}
    Messages = {1, 2, 3}
    GroupOf <- MCGroupOf
    MaxBatch = 3
    Concurrency = 1
    MaxAttempts = 2
    MaxReceive = 2
    DlqConfigured = TRUE
SYMMETRY ProcSymmetry
INVARIANTS
    TypeOK
    NothingLost
    GroupOrder
PROPERTY ImplementsChannel
