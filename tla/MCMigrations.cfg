SPECIFICATION Spec
CONSTANTS
    Writers = {w1}
    Operators = {o1, o2}
    Backends = {b1, b2}
    NoBackend = NoBackend
    InitialDBs <- AllDBs
    Commands <- AllCommands
    MaxCommands = 3
    MaxFaults = 1
SYMMETRY Symmetry
INVARIANTS
  FenceIsExclusive
  SchemaIsWhole
  ReportsStand
PROPERTIES
  NoDowngrade
