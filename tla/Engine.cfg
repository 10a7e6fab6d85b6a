SPECIFICATION EngineLiveSpec
CONSTANT MaxEngineFaults = 2
INVARIANTS
  SettlementIsSound
  NoWakeLost
PROPERTIES
  StopSettles
  RetireFinishes
