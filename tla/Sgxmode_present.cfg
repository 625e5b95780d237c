SPECIFICATION FairSpec
INVARIANTS FlipPacing ScanoutOwned NoIdleFrame NeverDark
PROPERTIES ExitFollowsChild ImplementsMailbox
CONSTANTS
  MAX_BUFS = 2
  EV_BATCH = 2
  BufferCounts = {0, 1, 2, 3}
  MaxSwaps = 3
  MaxChainOps = 2
  MaxSignals = 2
  MaxFlipErrors = 1
  Faults = {"setup", "master", "getcrtc", "pipe", "poll", "flip", "kill"}
CHECK_DEADLOCK FALSE
