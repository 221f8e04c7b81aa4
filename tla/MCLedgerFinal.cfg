SPECIFICATION Spec
CONSTANTS
    w1 = w1
    w2 = w2
    Workers = {w1}
    e1 = e1
    e2 = e2
    e3 = e3
    e4 = e4
    Events = {e1, e2}
    resource = resource
    Resources = {resource}
    NoEvent = NoEvent
    Destructive = {e2}
    Unroutable = {}
    Folios = {}
    ResourceOf <- MCResourceOf
    OccurredAt <- DistinctOccurredAt
    OffsetOf <- MCOffsetOf
PROPERTY CompletedIsFinal
