SPECIFICATION Spec
CONSTANTS
    w1 = w1
    w2 = w2
    Workers = {w1, w2}
    e1 = e1
    e2 = e2
    e3 = e3
    e4 = e4
    Events = {e1, e2, e3, e4}
    resource = resource
    Resources = {resource}
    NoEvent = NoEvent
    Destructive = {e2}
    Unroutable = {e4}
    Folios = {}
    ResourceOf <- MCResourceOf
    OccurredAt <- DistinctOccurredAt
    OffsetOf <- MCOffsetOf
SYMMETRY WorkerSymmetry
INVARIANTS
    TypeOK
    CompletedIsReflected
    DeletedIsReflected
    SchemasAgree
    OneEventPerOffset
PROPERTIES
    OlderEventNeverOverwrites
    ImplementsProjection
