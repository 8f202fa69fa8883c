\* What is written between a sign-out and the next sign-in.
SPECIFICATION Spec
CONSTANTS
  MaxEvents = 2
  MaxBatch = 1
  BackoffCap = 1
  MaxSignOuts = 1
  MaxLosses = 0
CHECK_DEADLOCK FALSE
INVARIANTS SignedOutCovered
