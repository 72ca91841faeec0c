SPECIFICATION LaunchSpec
CONSTANTS
  ParamChoices <- MCParamChoices
  Partial <- MCPartial
  Targets <- MCTargets
  Reuse <- MCReuse
  Disabled <- MCDisabled
  FullShapes <- MCFullShapes
  Length <- MCLength
  Default <- MCDefault
  Databases <- MCDatabases
  Calls <- MCCalls
  None = None
  Backends <- MCBackends
  Inputs <- MCInputs
  Options <- MCOptions
  Lazies <- MCLazies
  Uses <- MCUses
INVARIANTS
  LookupRight
  ChecksSuffice
  LaunchRight
  
CHECK_DEADLOCK FALSE
