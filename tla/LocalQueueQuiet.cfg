SPECIFICATION FairSpec
CONSTANTS
  Tasks = {t1, t2}
  Readers = {r1, r2}
  GpuWorkers = {g1}
  CpuWorkers = {c1}
  Impls = {i1, i2}
  Fanouts <- OneOrTwo
  OpMode = FALSE
  None = None
  MaxStops = 0
  MaxRaises = 0
  MaxResets = 0
INVARIANT BlockedHasSource
PROPERTIES ImplementsLiveLifecycle ResultsWritten
CHECK_DEADLOCK FALSE
