SPECIFICATION Spec
CONSTANTS
  Tokens = {t1, t2, t3, t4, t5}
  NoOwner = NoOwner
  NoRec = NoRec
  NumSteps = 2
  Ops = {o1}
  Interacts = {}
  Retries = {}
  Spawns = {o1}
  Parks = {o1}
  Tracked = {}
  TaskBound = {}
  Sweepers = {s1, s2}
  NoClaim = NoClaim
  NoOp = NoOp
  MaxFaults = 2
  MaxAttempts = 2
PROPERTIES
  DeadClaimWins
