SPECIFICATION ScenarioSpec
CONSTANTS
  r1 = r1 r2 = r2 r3 = r3
  s1 = s1 s2 = s2 s3 = s3
  w1 = w1 w2 = w2
  a1 = a1 a2 = a2
  Devices = {1, 2}
  Existing = {1}
  Points <- MCPoints
  Shops <- MCShops
  Clients = {"tenant"}
  Users = {"admin"}
  Sessions = {s1}
  Requests = {r1}
  Workers = {w1, w2}
  Seeds = {a1}
  PlacedAt <- MCPlacedAt
  ClientOf <- MCClientOf
  OwnerOf <- MCOwnerOf
  UserOf <- MCUserOf
  NewPoint <- MCNewPoint
  ShopAtStart <- MCShopAtStart
  MaxTime = 2
  NoTx = NoTx
  NoShop = NoShop
  Keys = {"k", "k2"}
  Commands <- TelemetryCommands
  MaxAttempts = 2
  MaxWithdrawn = 0
  NoCommand = NoCommand
  Messages <- TelemetryMessages
  LegacyAlerts = {1}
  MaxInterval = 1
  QuietHours = {"on"}
  QuietTimes = {1, 2}
  Idle = Idle
SYMMETRY AnyWorker
INVARIANTS
  TelemetryIsTrue
PROPERTIES
  NothingGoesBack
  BlockedDeviceIsSilent
CHECK_DEADLOCK FALSE
