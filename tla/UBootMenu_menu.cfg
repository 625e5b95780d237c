SPECIFICATION MenuFairSpec
INVARIANTS BootsItsOwn
PROPERTIES FallsBack
