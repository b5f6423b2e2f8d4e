SPECIFICATION FairSpec
CONSTANTS
    Jobs = {j1}
    NoJob = NoJob
    Requests = {r1}
    WaitTicks = 2
    SlackTicks = 1
    DefaultAttempts = 2
    Limits = {1, 2}
    MaxRetries = 1
    MaxFaults = 1
CHECK_DEADLOCK FALSE
INVARIANTS
    TypeOK
    VerifyingIsAnswered
PROPERTIES
    OperatorGetsHerTime
    DeviceReturned
    InFlightSettles
    SessionFreed
