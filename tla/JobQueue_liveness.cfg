SPECIFICATION FairSpec
CONSTANTS
  Workers = {w1, w2}
  Callers = {c1}
  Keys = {}
  NoKey = NoKey
  TTL = 1
  Retention = 1
  StuckThreshold = 0
  MaxLag = 0
  HeartbeatBound = 9
  MaxJobs = 2
  MaxClock = 1
  MaxCrashes = 0
  MaxSaveFailures = 1
INVARIANTS
  HandledAtMostOnce
PROPERTIES
  PendingIsServed
  OrphanIsReaped
