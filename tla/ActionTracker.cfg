SPECIFICATION TrackerSpec
CONSTANTS
  BufferSize = 2
  PipeSize = 2
  MaxLines = 3
INVARIANTS FinalAgrees EverythingSeen
PROPERTIES StreamEnds
CHECK_DEADLOCK FALSE
