SPECIFICATION Spec
CONSTANTS
  PtrdiffMax = 15
  FirstCap = 2
  ChunkMax = 5
INVARIANTS
  NothingSticks
  RetrySafe
  BodyWhole
PROPERTIES
  SendsReturn
