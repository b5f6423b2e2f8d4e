SPECIFICATION Spec
CONSTANTS
    Requests = {r1}
    Accounts = {a1}
    Proxies = {p1}
    Videos = {v1}
    Broken = {v1}
    FfmpegAvailable = TRUE
    Keys = {k1}
    Nobody = Nobody
    Budgets <- ChangesOrEvents
CHECK_DEADLOCK FALSE
INVARIANTS
    PasswordsOpen
