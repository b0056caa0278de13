SPECIFICATION Spec
CONSTANTS
  Workers = {w1}
  Callers = {c1}
  Keys = {k1}
  NoKey = NoKey
  TTL = 1
  Retention = 2
  StuckThreshold = 1
  MaxLag = 1
  HeartbeatBound = 1
  MaxJobs = 2
  MaxClock = 3
  MaxCrashes = 0
  MaxSaveFailures = 0
INVARIANTS
  KeyWorkSpaced
PROPERTIES
  NoFalseReap
