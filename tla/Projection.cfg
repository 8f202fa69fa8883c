\* Rows in every order, one fault, an upgrade: one story at a time.
SPECIFICATION Spec
CONSTANTS
  Log = {"admit", "bind", "create", "unit", "amount", "delete", "mine", "tweak", "theirs", "theirs2", "add", "archive", "restore", "rename", "phone", "garbled", "legacy", "fake", "shop", "sign", "name", "title"}
  Mine = {"mine", "tweak"}
  Event <- Log
  Kind <- MCKind
  Target <- MCTarget
  Hlc <- MCHlc
  Fields <- MCFields
  Author <- MCAuthor
  Seen <- MCSeen
  Since <- MCSince
  Signed <- MCSigned
  Unsigned <- MCUnsigned
  Owner = "ali"
  None = "none"
  LastBuild = 2
  MaxPasses = 2
  MaxFaults = 1
CHECK_DEADLOCK FALSE
INVARIANTS TypeOK EntriesConverge RecordsConverge
PROPERTIES  Heals
CONSTRAINT OneStory
