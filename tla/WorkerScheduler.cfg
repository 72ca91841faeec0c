SPECIFICATION Spec
CONSTANTS
  Hosts = {h1}
  Slots = {x1, x2}
  TicksPerDay = 8
  Days = 3
  Weekdays = 2
  DefaultStart = 6
  DefaultEnd = 2
  Schedules <- Typical
  None = None
  MaxEdits = 1
  MaxArms = 2
  MaxWait = 3
INVARIANTS  OneTimer 
CHECK_DEADLOCK FALSE
