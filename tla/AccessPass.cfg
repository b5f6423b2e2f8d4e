SPECIFICATION FairSpec
CONSTANTS
    Calls = {c1, c2}
    Cookies = {k1}
    Passwords = {"old", "new"}
    None = None
    Scopes = {"email"}
    MaxAttempts = 2
    Window = 1
    Ttl = 3
    Renew = 2
    MaxChanges = 2
    MaxFaults = 1
INVARIANTS
    TypeOK
    PasswordChangeHolds
    FailuresBounded
PROPERTIES
    WindowEnds
