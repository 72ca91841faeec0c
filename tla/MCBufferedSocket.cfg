SPECIFICATION Spec
CONSTANTS
  Header = 2
  Size <- MCSize
  Roles <- MCRoles
  PipeCap = 3
INVARIANTS FramesIntact PendingReplyArmed
PROPERTIES RepliesArrive ClosedWorkerRemoved
CHECK_DEADLOCK FALSE
