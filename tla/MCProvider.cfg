SPECIFICATION PartsSpec
CONSTANTS
    Processes = {p1, p2}
    Requests = {r1, r2}
    Attempts = {t1, t2}
    Consumes = {c1, c2}
    NoProcess = NoProcess
    NoAttempt = NoAttempt
    NoConsume = NoConsume
    NoRun = NoRun
    MaxEpochs = 2
    MaxCalls = 4
    MaxFaults = 1
    MaxEdits = 2
SYMMETRY Symmetry
INVARIANTS
  LedgerIsConsistent
  InstallIsTrue
  CatalogIsExact
PROPERTIES
  NothingReopens
CHECK_DEADLOCK FALSE
