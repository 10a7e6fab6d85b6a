SPECIFICATION LiveSpec
CONSTANTS
  N = 2
  DependsOn <- NoDependencies
  Rounds = 2
  Scenarios <- Plays
CHECK_DEADLOCK FALSE
INVARIANTS
  CheckoutIsSafe
PROPERTIES
  FinalStatus
  NothingStays
