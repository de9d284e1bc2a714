SPECIFICATION Spec
CONSTANTS
  NoScope = NoScope
  FutureSkew = 1
  PastSkew = 2
  Offsets <- MCOffsets
  Handles = {h1, h2}
  Scopes = {s1, s2}
  Timeout = 3
  Interval = 2
  MaxLatency = 1
  MaxEvents = 2
SYMMETRY MCSymmetry
INVARIANTS
  TokenOrigin
  RedeemedOnce
  RingsOnce
PROPERTIES
  TimeoutMeansUnanswered
  RefusedOnlyInWindow
  KeepsPromise
