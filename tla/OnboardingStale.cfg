SPECIFICATION Spec
CONSTANTS
    Jobs = {j1}
    NoJob = NoJob
    Requests = {r1}
    WaitTicks = 2
    SlackTicks = 1
    DefaultAttempts = 2
    Limits = {1}
    MaxRetries = 1
    MaxFaults = 0
CHECK_DEADLOCK FALSE
INVARIANTS
    EveryWaitIsAnswered
