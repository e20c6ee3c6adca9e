SPECIFICATION LiveSpec
CONSTANTS
    Storage = {s1, s2}
    Others = {o1}
    NoDevice = NoDevice
INVARIANTS
    TypeOK
    SetUpIsOpen
    CrashCause
PROPERTIES
    PluggedIsFound
CHECK_DEADLOCK FALSE
