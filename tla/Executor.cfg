SPECIFICATION LiveSpec
CONSTANTS
  Executions = {e1, e2}
  Tickets = {t1, t2}
  None = None
  Legacy = Legacy
  MaxVersion = 2
  MaxFaults = 2
INVARIANTS
  OneLineage
  AnswersAreDurable
PROPERTIES
  ToldIsFinal
  ChildSettles
