SPECIFICATION FairSpec
CONSTANTS
    t1 = t1
    t2 = t2
    Tasks = {t1, t2}
    Total = 3
    Partition <- OnePartition
    SendSize = 2
    ReceiveSize = 2
    StoreSize = 3
    MaxReceive = 2
INVARIANTS
    TypeOK
    ReportIsTrue
    NothingLost
PROPERTY RunEnds
