SPECIFICATION StopSpec
CONSTANTS
  Tasks = {t1, t2}
  Readers = {r1}
  GpuWorkers = {g1}
  CpuWorkers = {c1}
  Impls = {i1, i2}
  Fanouts <- OneOrTwo
  OpMode = FALSE
  None = None
  MaxStops = 1
  MaxRaises = 0
  MaxResets = 0
  Graceful = TRUE
INVARIANT DirectoryInUse
PROPERTY StopEnds
CHECK_DEADLOCK FALSE
