SPECIFICATION Spec
CONSTANTS
    Users = {u1}
    Threads = {t1, t2}
    None = none
    MaxSessions = 2
    AccessTtl = 1
    IdleTimeout = 1
    RefreshTtl = 2
    MaxTime = 3
    MaxIssued = 3
SYMMETRY Interchangeable
INVARIANTS
    TypeOK
    BarredUserHasNoSession
    SessionLimit
    NoUsePastLifetime
PROPERTIES
    SessionsOnlyAge
    ImplementsRegistry
