SPECIFICATION ConsumerFairSpec
CONSTANTS
    p1 = p1
    c1 = c1
    Procs = {p1}
    Consumers = {c1}
    NoProc = NoProc
    hotelA = hotelA
    hotelB = hotelB
    Groups = {hotelA, hotelB}
    Messages = {1, 2}
    GroupOf <- MCGroupOf
    MaxBatch = 2
    Concurrency = 1
    MaxAttempts = 2
    MaxReceive = 2
    DlqConfigured = TRUE
INVARIANTS
    ConsumerTypeOK
    RowHasObject
    LeftForAReason
PROPERTY EverythingLeaves
