SPECIFICATION Spec
CONSTANTS
  Tokens = {t1, t2, t3, t4, t5}
  NoOwner = NoOwner
  NoRec = NoRec
  NumSteps = 2
  Ops = {o1, o2}
  Interacts = {o1}
  Retries = {o1}
  Spawns = {o1}
  Parks = {}
  Tracked = {o2}
  TaskBound = {o2}
  Sweepers = {}
  NoClaim = NoClaim
  NoOp = NoOp
  MaxFaults = 2
  MaxAttempts = 2
INVARIANTS
  RetryGenerations
PROPERTIES
  AwaitingOnlyByPress
  CompensationIsExact
  SchedulerOwnsPending
