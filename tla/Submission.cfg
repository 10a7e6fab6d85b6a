SPECIFICATION SubmissionLiveSpec
CHECK_DEADLOCK FALSE
CONSTANTS
  Callers = {c1, c2}
  Keys = {k1, k2}
  Payloads = {p1, p2}
  None = None
  MaxSends = 2
  MaxRows = 2
INVARIANTS
  KeyedOnce
PROPERTIES
  Answered
