SPECIFICATION PartsSpec
CONSTANTS
    MaxSeq = 2
    Workers = {w1, w2}
    QueueSize = 1
    MaxUplink = 1
    MaxLosses = 1
    Modes = {"continuous", "duplicate", "offline-replay", "reconnect"}
    QueueCapacity = 2
    MaxClients = 2
SYMMETRY Symmetry
INVARIANTS
  DeliveryIsSound
PROPERTIES
  NothingIsLost
  EndsAreFinal
CHECK_DEADLOCK FALSE
