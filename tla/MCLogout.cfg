SPECIFICATION Spec
CONSTANTS
  Calls = {c1, c2, c3}
  RefreshFamilyTTL = 2
  AccessTTL = 1
  MaxTime = 1
  NoCall = NoCall
INVARIANTS
  LogoutRevokes
CHECK_DEADLOCK FALSE
