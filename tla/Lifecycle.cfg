SPECIFICATION Spec
CONSTANTS
  Ctxs = {"c", "d"}
  Probes = 2
INVARIANTS
  Balanced
  CryptoUp
  HeapSound
