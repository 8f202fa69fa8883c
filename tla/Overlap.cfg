\* One device, clock three days ahead: overlapping pushes, refusals, backoffs, a lost database.
SPECIFICATION Spec
CONSTANTS
  d1 = d1
  d2 = d2
  Device <- OneDevice
  Writer = {d1}
  Skew <- AloneAhead
  MaxEvents = 2
  Governance = {2}
  Drift = 1
  IngestCap = 1
  ServerCap = 2
  MaxBatch = 2
  PageSize = 2
  Slot = {"tick", "kick"}
  Drain = {"sweep"}
  Vetoes = {"held", "refused"}
  MaxNow = 1
  MaxStray = 1
  MaxResets = 1
  MaxBusy = 3
CHECK_DEADLOCK FALSE
INVARIANTS TypeOK NothingLost NumbersUnique

