SPECIFICATION Spec
CONSTANTS
  Tasks = {t1, t2}
  Readers = {r1}
  GpuWorkers = {g1, g2}
  CpuWorkers = {c1}
  Impls = {i1, i2}
  Fanouts <- UpToTwo
  OpMode = TRUE
  None = None
  MaxStops = 1
  MaxRaises = 1
  MaxResets = 0
SYMMETRY Symmetry
INVARIANTS OneStage TmpdirLifetime
CHECK_DEADLOCK FALSE
