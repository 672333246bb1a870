SPECIFICATION Spec
CONSTANTS
    LastPosition = 2
    EndMargin = 0
    ResumeFloor = 1
    Failures = TRUE
    MaxStallRetries = 1
    Feeds <- AllFeeds
INVARIANT ReconnectsAtPlayhead
