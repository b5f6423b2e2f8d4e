SPECIFICATION Spec
CONSTANTS
    Requests = {r1, r2, r3}
    Accounts = {a1}
    Proxies = {p1}
    Videos = {v1}
    Broken = {}
    FfmpegAvailable = TRUE
    Keys = {k1, k2}
    Nobody = Nobody
    Budgets <- ChangesOrEvents
SYMMETRY Symmetry
CHECK_DEADLOCK FALSE
INVARIANTS
    OneInFlight
    JobsHaveMedia
    EgressStands
    CredentialsOpen
PROPERTIES
    SavesStand
