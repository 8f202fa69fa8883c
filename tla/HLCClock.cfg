\* Clocks that jump both ways and disagree by more than the drift.
SPECIFICATION Spec
CONSTANTS
  Device = {1, 2}
  Drift = 1
  IngestCap = 2
  MaxClock = 2
  MaxSpread = 2
  MaxEvents = 2
  MaxLogical = 3
CONSTRAINT Shallow
INVARIANTS TypeOK ContainedDrift FreshStamps
PROPERTIES EditsFollowReceived
