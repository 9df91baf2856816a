SPECIFICATION FairSpec
CONSTANTS
  r1 = r1 r2 = r2 r3 = r3
  s1 = s1 s2 = s2 s3 = s3
  w1 = w1 w2 = w2
  a1 = a1 a2 = a2
  Devices = {1, 2, 3}
  Existing = {1, 2}
  Points <- MCPoints
  Shops <- MCShops
  Clients = {"tenant"}
  Users = {"admin"}
  Sessions = {s1, s2}
  Requests = {r1, r2}
  Workers = {w1}
  Seeds = {a1, a2}
  PlacedAt <- MCPlacedAt
  ClientOf <- MCClientOf
  OwnerOf <- MCOwnerOf
  UserOf <- MCUserOf
  NewPoint <- MCNewPoint
  ShopAtStart <- MCShopAtStart
  MaxTime = 1
  NoTx = NoTx
  NoShop = NoShop
  Keys = {"k", "k2"}
  Commands <- CrossingCommands
  MaxAttempts = 2
  MaxWithdrawn = 0
  NoCommand = NoCommand
  Messages <- OneMessage
  LegacyAlerts = {}
  MaxInterval = 1
  QuietHours = {}
  QuietTimes = {1}
  Idle = Idle
INVARIANTS
  DeadlocksAreUpgrades
PROPERTIES
  EverythingEnds
CHECK_DEADLOCK FALSE
