CONSTANTS
    a = a
    b = b
    Accounts = {a, b}
    Supers = {b}
    Nobody = Nobody
    NoToken = NoToken
    MaxSessions = 2
    MaxCalls = 2
SPECIFICATION Spec
INVARIANTS
    LogoutEndsSession
CHECK_DEADLOCK FALSE
