\* A stamp that fails between an applied entry and a local correction of it.
SPECIFICATION Spec
CONSTANTS
  Log = {"sale", "edit"}
  Mine = {"edit"}
  Event <- Log
  Kind <- MCKind
  Target <- MCTarget
  Hlc <- MCHlc
  Fields <- MCFields
  Author <- MCAuthor
  Seen <- MCSeen
  Since <- MCSince
  Signed <- MCSigned
  Unsigned <- MCUnsigned
  Owner = "ali"
  None = "none"
  LastBuild = 1
  MaxPasses = 2
  MaxFaults = 1
CHECK_DEADLOCK FALSE
INVARIANTS EntriesConverge
