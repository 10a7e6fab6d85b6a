SPECIFICATION LiveSpec
CONSTANTS
  Drives = {d1, d2}
  MaxAttempt = 5
  MaxRegates = 2
  MaxFaults = 2
CHECK_DEADLOCK FALSE
INVARIANTS
  VerdictIsSound
PROPERTIES
  VerdictStands
  VerifyingEnds
