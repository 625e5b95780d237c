SPECIFICATION Spec
INVARIANTS TypeOK FramesRecorded SameObjects SameTargets DataIntact
SYMMETRY NamesAlike
CONSTANTS
  Kinds = {"fb", "prog"}
  Names = {n1, n2}
  LiveNames = {n1, n2}
  None = None
  Unis = {0, 1}
  MaxFrames = 2
  MaxObjs = 3
  MaxLines = 6
  Mixes <- Both
  MaxData = 1
  MapMax = 2
  UlMax = 2
  LocMax = 2
