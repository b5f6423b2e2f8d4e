SPECIFICATION FairSpec
CONSTANTS
    j1 = j1
    j2 = j2
    a1 = a1
    a2 = a2
    Jobs = {j1, j2}
    NoJob = NoJob
    Accounts = {a1, a2}
    PoolSize = 1
    Setups <- Mixed
    MaxRuns = 2
    MaxFaults = 1
CHECK_DEADLOCK FALSE
INVARIANTS
    TypeOK
    OneDevicePerSession
    CameraHeldByOne
    UnmaskedOnlyByChoice
    GatewaysLast
PROPERTIES
    SparesRuns
    LeftoversCollected
