SPECIFICATION Spec
CONSTANTS
  MaxCalls = 4
  MaxHeat = 2
  StderrCapacity = 1
INVARIANTS
  AnswerBelongs
  DeathsSeenOrFatal
PROPERTIES
  CallEnds
CHECK_DEADLOCK FALSE
