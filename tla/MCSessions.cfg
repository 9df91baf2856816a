SPECIFICATION FairSpec
CONSTANTS
  Calls = {c1, c2, c3}
  RefreshFamilyTTL = 2
  AccessTTL = 1
  MaxTime = 3
  NoCall = NoCall
INVARIANTS
  FamilyIsOneChain
  FamilyEnds
PROPERTIES
  NoRotationAfterExpiry
  RecordsStand
  ImplementsFamilies
  CallsEnd
CHECK_DEADLOCK FALSE
