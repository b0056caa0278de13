SPECIFICATION Spec
CONSTANTS
  Workers = {w1}
  Callers = {c1}
  Keys = {k1}
  NoKey = NoKey
  TTL = 1
  Retention = 1
  StuckThreshold = 0
  MaxLag = 0
  HeartbeatBound = 9
  MaxJobs = 2
  MaxClock = 1
  MaxCrashes = 2
  MaxSaveFailures = 1
INVARIANTS
  TypeOK
  QueueIsPendingInOrder
  HandledAtMostOnce
  KeyWorkSpaced
  CancelledNeverRan
PROPERTIES
  DurableOutcomeIsFinal
  ImplementsLedger
