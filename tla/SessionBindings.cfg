SPECIFICATION Spec
CONSTANTS
  Scopes = {s1, s2}
  NoScope = NoScope
  Lifetime = 3
  Skew = 1
  Lives <- MCLives
  Offsets <- MCDriftOnly
  CallKinds = {"delete", "reboot", "wipeout", "search"}
  MaxNow = 0
SYMMETRY MCSymmetry
INVARIANTS
  NoTrafficAfterLogout
PROPERTIES
  DefiniteErrors
  ErrorsAgree
  PathPromised
