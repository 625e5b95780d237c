SPECIFICATION FairSpec
INVARIANTS TypeOK HalvesApart OkMeansDone
PROPERTIES RerunHeals
CONSTANTS
  End = 6
  Half = 2
  Second = 3
  Ram = 2
  Word = 16
  Sizes = {1, 4, 5}
  MaxBad = 2
  MaxFaults = 2
