SPECIFICATION Spec
CONSTANTS
  IvLen = 2
  MaxLen = 5
INVARIANTS
  NothingDropped
  InvalidNeverPasses
  AllOrNothing
