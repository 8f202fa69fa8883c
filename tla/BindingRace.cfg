\* An event composed before a sign-in and written after its cutoff was read.
SPECIFICATION Spec
CONSTANTS
  MaxEvents = 2
  MaxBatch = 1
  BackoffCap = 1
  MaxSignOuts = 0
  MaxLosses = 0
CHECK_DEADLOCK FALSE
INVARIANTS PreSignInCovered
