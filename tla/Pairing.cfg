SPECIFICATION Spec
CONSTANTS
  Phones = {"p", "q"}
  Slots = 1
  MaxLinks = 2
INVARIANTS
  TypeOK
  FinalMeansPaired
  CodesTellImport
