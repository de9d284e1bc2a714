SPECIFICATION Spec
CONSTANTS
  Keys = {k1, k2, k3, k4}
  PageCap = 2
INVARIANTS
  NoDuplicates
PROPERTIES
  CreatesLoseNothing
  WalksEnd
