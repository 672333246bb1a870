CONSTANTS
    Clients = {c1, c2, c3}
    MaxFaults = 4
    None = None
SPECIFICATION WhepSpec
INVARIANTS
    NothingSurvivesStop
PROPERTIES
    FailedSourceRestarts
    ImplementsClientPool
