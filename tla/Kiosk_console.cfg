SPECIFICATION Spec
INVARIANTS StopReturnsToConsole
CONSTANTS
  Clients = {c1, c2}
  MaxCommands = 4
  MaxHasty = 2
  MaxSessions = 2
CHECK_DEADLOCK FALSE
