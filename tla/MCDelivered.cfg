SPECIFICATION PartsSpec
CONSTANTS
    Processes = {p1}
    Requests = {r1}
    Attempts = {t1}
    Consumes = {c1}
    NoProcess = NoProcess
    NoAttempt = NoAttempt
    NoConsume = NoConsume
    NoRun = NoRun
    MaxEpochs = 1
    MaxCalls = 1
    MaxFaults = 0
    MaxEdits = 0
INVARIANTS
    SuccessIsDelivered
CHECK_DEADLOCK FALSE
