SPECIFICATION FairSpec
CONSTANTS
  Tokens = {t1, t2, t3, t4, t5}
  NoOwner = NoOwner
  NoRec = NoRec
  NumSteps = 0
  NoRun = NoRun
  Workers = {"observer", "sweep", "finish"}
  MaxFaults = 2
CHECK_DEADLOCK FALSE
INVARIANTS
  RunIsOwned
  VerdictIsEarned
PROPERTIES
  RecordIsFenced
  WorkerSettles
