SPECIFICATION Spec
CONSTANTS
  Scopes = {s1}
  NoScope = NoScope
  Lifetime = 3
  Skew = 1
  Lives <- MCLives
  Offsets <- MCDriftOnly
  CallKinds = {"json", "reboot", "checkin"}
  MaxNow = 0
PROPERTIES
  CallsReturn
