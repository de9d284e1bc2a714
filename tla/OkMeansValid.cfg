SPECIFICATION Spec
CONSTANTS
  IvLen = 2
  MaxLen = 5
INVARIANT
  OkMeansValid
