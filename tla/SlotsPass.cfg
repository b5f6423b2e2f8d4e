SPECIFICATION FairSpec
CONSTANTS
    Jobs = {j1, j2}
    NoJob = NoJob
    Processes = {p1, p2}
    Concurrency = 1
    MaxConcurrent = 1
    MinInterval = 2
    SlotTTL = 3
    DeferDelay = 1
    Heartbeat = 1
    MaxAttempts = 1
    MaxFaults = 1
CHECK_DEADLOCK FALSE
PROPERTIES
    LimitKept
    SpacingUnlessCrossed
    EveryJobServed
