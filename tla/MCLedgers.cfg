SPECIFICATION PartsSpec
CONSTANTS
    Callers = {"p1", "p2"}
    Attempts = {"a1", "a2"}
    Operation <- OneOperation
    NoCaller = "nobody"
    Lifetime = 1
    MaxTime = 1
    MaxCalls = 3
    MaxBoundaries = 1
    MaxLeaseFaults = 1
    Calls = {c1, c2, c3}
    None = None
    MaxFaults = 1
    MaxForeign = 1
    MappingSeam = TRUE
    MaxAcks = 1
    MaxCrashes = 1
SYMMETRY Symmetry
INVARIANTS
  LeaseIsTrue
  RecordIsTrue
PROPERTIES
  NothingIsReplaced
CHECK_DEADLOCK FALSE
