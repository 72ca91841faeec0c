SPECIFICATION Spec
CONSTANTS
  Launches <- AllLaunches
  Slots = {s1, s2}
  BLOCK_M = 4
  BLOCK_N = 2
  NUM_CU = 3
  PHILOX_RN_PER_OFFSET = 2
INVARIANTS OutputRight EverythingWritten LOwned DropoutIndependent GradientsRight DropoutReplayed
