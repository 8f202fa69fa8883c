\* Two events, or one and a fault or a redaction: writer, server, socket, reader.
SPECIFICATION FairSpec
CONSTANTS
  Reader = {"main", "sweep"}
  None = "none"
  Limit = 1
  MaxEvents = 2
  Buffer = 1
  SweepEvery = 1
  MaxTurns = 2
CHECK_DEADLOCK FALSE
INVARIANTS TypeOK SkipsOnlyRedacted CursorCovers PushesVisible WriteIsOnItsWay PokesSuffice
PROPERTIES Arrives
