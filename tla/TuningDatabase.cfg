\* bake_lut beside the workers that tune, resets and stopped bakes.
SPECIFICATION Spec
CHECK_DEADLOCK FALSE
CONSTANTS
  NoValue = NoValue
  NotANumber = NotANumber
  DoesNotApply = DoesNotApply
  None <- NoValue
  Broken <- NotANumber
  Inapplicable <- DoesNotApply
  Tasks <- MCTasks
  Kernels = {"k"}
  Arch <- MCArch
  Entry <- MCEntry
  Checks <- MCChecks
  Basic <- MCBasic
  Skipped <- MCSkipped
  Reports <- MCReports
  Multiplier = 3
  WorkersPerArch = 2
  MaxBakes = 2
  MaxHands = 2
INVARIANTS
  SelectionRight
  ExportRight
