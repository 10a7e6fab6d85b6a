SPECIFICATION LiveSpec
CONSTANTS
  MaxId = 3
  NewKinds = {"prunable"}
  OldRows = 1
  Cap = 1
  BusCapacity = 1
  Late = {2}
  Failures = {"read", "projection"}
  CancelFirst = {"event"}
  MaxFaults = 1
CHECK_DEADLOCK FALSE
INVARIANTS
  CursorIsSound
  Fresh
PROPERTIES
  NoDuplicateFrame
  CatchesUp
