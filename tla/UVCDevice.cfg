SPECIFICATION LiveSpec
CONSTANTS
    Devices = {d1, d2, d3}
    NoDevice = NoDevice
    MaxThreads = 2
INVARIANTS
    TypeOK
    NoUseAfterFree
PROPERTIES
    CloseReturns
    StatusHandled
CHECK_DEADLOCK FALSE
