SPECIFICATION Spec
CONSTANTS
  NoScope = NoScope
  FutureSkew = 1
  PastSkew = 2
  Offsets <- MCOffsets
  Handles = {h1}
  Scopes = {s1}
  Interval = 2
  MaxLatency = 1
  Timeout = 3
  MaxEvents = 2
PROPERTIES
  CallsReturn
