SPECIFICATION Spec
INVARIANTS OutReproduces OneMinimal FewTests
CONSTANTS
  Ops = 5
  Limits = {0, 3, 60}
