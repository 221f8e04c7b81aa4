SPECIFICATION Spec
CONSTANTS
    old = old
    new = new
    Listeners = {old, new}
    MaxEvents = 3
    Unusable = {}
    Offsetless = {2}
    CustomQuery = FALSE
    MinDelay = 1
    MaxDelay = 3
    MaxFaults = 2
SYMMETRY ListenerSymmetry
INVARIANTS
    TypeOK
    NoGap
    InOrder
