SPECIFICATION FairSpec
CONSTANTS
    Jobs = {j1}
    NoJob = NoJob
    Processes = {p1}
    Concurrency = 1
    MaxConcurrent = 1
    MinInterval = 0
    SlotTTL = 3
    DeferDelay = 1
    Heartbeat = 1
    MaxAttempts = 1
    MaxFaults = 1
CHECK_DEADLOCK FALSE
PROPERTIES
    KilledSlotFreed
