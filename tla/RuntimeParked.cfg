SPECIFICATION FairSpec
CONSTANTS
  Tokens = {t1, t2, t3, t4, t5}
  NoOwner = NoOwner
  NoRec = NoRec
  NumSteps = 1
  Ops = {o1}
  Interacts = {}
  Retries = {}
  Spawns = {o1}
  Parks = {o1}
  Tracked = {o1}
  TaskBound = {}
  Sweepers = {s1, s2}
  NoClaim = NoClaim
  NoOp = NoOp
  MaxFaults = 1
  MaxAttempts = 2
INVARIANTS
  DriveExclusive
  RestingRowsSound
PROPERTIES
  SettledProcessGone
  ImplementsContract
  CommittedSettles
  PendingTakenUp
