CONSTANTS
    Producers <- MCProducers
    Kinds <- MCKinds
    Capacity = 2
    MaxPushes = 6
SPECIFICATION Spec
INVARIANTS
    NoLostWakeup
PROPERTIES
    ImplementsLossyChannel
    StopReleasesWorker
