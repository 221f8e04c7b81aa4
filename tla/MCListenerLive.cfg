SPECIFICATION FairSpec
CONSTANTS
    old = old
    new = new
    Listeners = {old}
    MaxEvents = 4
    Unusable = {4}
    Offsetless = {}
    CustomQuery = FALSE
    MinDelay = 1
    MaxDelay = 3
    MaxFaults = 2
PROPERTIES
    EveryEventPublished
    NothingForgotten
