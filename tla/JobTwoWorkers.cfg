SPECIFICATION Spec
CONSTANTS
    NoJob = NoJob
    Workers = {w1, w2}
    Jobs = {j1}
    Requests = {r1, r2}
    MaxAttempts = 2
    DefaultAttempts = 3
    MaxConcurrent = 1
    MaxStalled = 1
    MaxFaults = 1
    MaxRetries = 1
CHECK_DEADLOCK FALSE
VIEW WithoutCounts
SYMMETRY Symmetry
INVARIANTS
    OneRunner
    DeadIsParked
    AttemptsWithinBudget
    NotBeforeSchedule
