SPECIFICATION PartsSpec
PROPERTIES
    CallersReturn
    WaitsEnd
CHECK_DEADLOCK FALSE
