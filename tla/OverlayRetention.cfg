SPECIFICATION Spec
CONSTANTS
  Pruners = {p1, p2}
  Quads = {q1, q2}
  MaxId = 3
  Attempts = 2
  Batch = 2
CHECK_DEADLOCK FALSE
INVARIANTS
  PruneIsSound
PROPERTIES
  Frozen
