CONSTANTS
    Requests = {r1, r2, r3}
    Mails = {alice}
    Passwords = {old, new}
    TTL = 2
    MaxTime = 3
    Threads = {t1, t2}
    Limit = 2
    Window = 2
    PerSecond = 4
    Slots = {q1, q2}
    Users = {u1, u2}
    SessionIds = {s1, s2}
    None = None
SPECIFICATION AccountsSpec
INVARIANTS
    OldPasswordsSignedOut LimitHolds WaitingIsEnough
    ShownDataIsOwn
PROPERTIES
    RequestsEnd CountersEnd OnlyOwnAnswersEndSession
CHECK_DEADLOCK FALSE
