SPECIFICATION Spec
CONSTANTS
  Scopes = {s1}
  NoScope = NoScope
  Lifetime = 3
  Skew = 1
  Lives <- MCLives
  Offsets <- MCOffsets
  CallKinds = {"json", "open", "checkin"}
  MaxNow = 2
INVARIANTS
  TypeOK
  GuardExact
  AtMostOnce
  
  ProactiveOnce
  PassphraseSpent
PROPERTIES
  RecoveryComplete
  RefreshVerified
