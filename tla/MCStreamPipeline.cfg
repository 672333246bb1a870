CONSTANTS
    SourceKinds <- MCSourceKinds
    Sinks <- MCSinks
    UnitKinds <- MCUnitKinds
    Capacity = 1
    InitialDelay = 2
    MaxDelay = 3
    MaxUnits = 2
    MaxDisruptions = 2
SPECIFICATION Spec
INVARIANTS
    TypeOK
    SessionOpensDecodable
    NoSessionOutlivesReset
    NoJoinOnLiveThread
PROPERTIES
    FailedStreamReconnects
    StopReturns
