\* Two writers, one a day ahead, each with two overlapping drains: push, pull, mesh.
SPECIFICATION Spec
CONSTANTS
  d1 = d1
  d2 = d2
  Device <- TwoDevices
  Writer = {d1, d2}
  Skew <- DayAhead
  MaxEvents = 2
  Governance = {}
  Drift = 1
  IngestCap = 1
  ServerCap = 2
  MaxBatch = 1
  PageSize = 1
  Slot = {"tick"}
  Drain = {"sweep", "poke"}
  Vetoes = {}
  MaxNow = 0
  MaxStray = 0
  MaxResets = 0
  MaxBusy = 2
CHECK_DEADLOCK FALSE
INVARIANTS AckedIsStored CursorComplete VectorHonest
PROPERTIES CommitsBeyondCursors ImplementsLedger
CONSTRAINT Calm
