\* A cursor passes an event its replica refused to ingest.
SPECIFICATION Spec
CONSTANTS
  d1 = d1
  d2 = d2
  Device <- TwoDevices
  Writer = {d2}
  Skew <- TwoDaysAhead
  MaxEvents = 1
  Governance = {}
  Drift = 1
  IngestCap = 1
  ServerCap = 2
  MaxBatch = 1
  PageSize = 1
  Slot = {"tick"}
  Drain = {"sweep"}
  Vetoes = {}
  MaxNow = 1
  MaxStray = 0
  MaxResets = 0
  MaxBusy = 3
CHECK_DEADLOCK FALSE
INVARIANTS CursorNeverSkips

