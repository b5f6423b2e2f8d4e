SPECIFICATION FairSpec
CONSTANTS
    NoJob = NoJob
    Workers = {w1}
    Jobs = {j1}
    Requests = {r1}
    MaxAttempts = 2
    DefaultAttempts = 3
    MaxConcurrent = 2
    MaxStalled = 1
    MaxFaults = 2
    MaxRetries = 1
CHECK_DEADLOCK FALSE
INVARIANTS
    PostedOncePerRecord
PROPERTIES
    AcceptedSettles
    BootRecovers
