SPECIFICATION FairSpec
INVARIANTS PanelIsMasters SavedIsConsole
PROPERTIES ConsoleKept PhasesInOrder StopEnds
CONSTANTS
  Clients = {1, 2}
  NBUF = 3
  MaxTimeouts = 1
  Faults = {"setup", "getcrtc", "flip", "restore", "kill"}
CHECK_DEADLOCK FALSE
