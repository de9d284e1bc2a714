SPECIFICATION Spec
CONSTANTS
  Clients = {"a", "b"}
  Retaining = {"a"}
INVARIANTS
  CodesHonest
  InitOwns
  WipedSessionEnds
