\* Signing in and out, restarts and lost answers, one row per push, a backoff that grows.
SPECIFICATION Spec
CONSTANTS
  MaxEvents = 3
  MaxBatch = 1
  BackoffCap = 3
  MaxSignOuts = 1
  MaxLosses = 1
CONSTRAINT OneSetback
CHECK_DEADLOCK FALSE
INVARIANTS TypeOK NoStaleDenial
PROPERTIES HonestStamp CoveredReachServer
