SPECIFICATION Spec
CONSTANTS
    Users = {u1}
    Threads = {t1}
    None = none
    MaxSessions = 2
    AccessTtl = 1
    IdleTimeout = 2
    RefreshTtl = 3
    MaxTime = 4
    MaxIssued = 1
INVARIANTS
    DocRefreshOutlivesAccess
