SPECIFICATION FairSpec
CONSTANTS
  N = 3
  Budgets <- Combinations
CHECK_DEADLOCK FALSE
INVARIANTS
  CarrierIsSound
  DeliveredRight
PROPERTIES
  ClosesSettled
  
