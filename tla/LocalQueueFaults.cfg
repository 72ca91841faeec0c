SPECIFICATION Spec
CONSTANTS
  Tasks = {t1, t2}
  Readers = {r1, r2}
  GpuWorkers = {g1}
  CpuWorkers = {c1}
  Impls = {i1}
  Fanouts <- OneImpl
  OpMode = FALSE
  None = None
  MaxStops = 1
  MaxRaises = 0
  MaxResets = 1
SYMMETRY Symmetry
INVARIANTS AckAfterFinish ExclusiveClaim
PROPERTY ImplementsLifecycle
CHECK_DEADLOCK FALSE
