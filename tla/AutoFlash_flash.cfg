SPECIFICATION AutoFairSpec
INVARIANTS SuccessIsRight
PROPERTIES WaitEnds
CONSTANTS
  MaxRuns = 3
  MaxPolls = 3
CHECK_DEADLOCK FALSE
