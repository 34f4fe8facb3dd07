SPECIFICATION ImporterSpec
CONSTANTS
  Mirrored = 3
  Length = 5
INVARIANT SyncLeavesUpstream
CHECK_DEADLOCK FALSE
