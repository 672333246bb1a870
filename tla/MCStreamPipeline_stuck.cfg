CONSTANTS
    SourceKinds <- MCYoutubeOnly
    Sinks <- MCSinks
    UnitKinds <- MCInBandKinds
    Capacity = 2
    InitialDelay = 2
    MaxDelay = 3
    MaxUnits = 1
    MaxDisruptions = 2
SPECIFICATION Spec
PROPERTY EveryFailedStreamReconnects
