SPECIFICATION FairSpec
CONSTANTS
    LastPosition = 2
    EndMargin = 0
    ResumeFloor = 1
    Failures = TRUE
    MaxStallRetries = 1
    Feeds <- AllFeeds
INVARIANTS
    TypeOK
    RestartAnnounced
    RetryNeverRewinds
PROPERTIES
    RunSettles
    SeekServed
    StopCompletes
