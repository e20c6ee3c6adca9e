SPECIFICATION Spec
CONSTANTS
    BlockSize = 2
    FirstBlock = 1
    LastBlock = 2
    Versions = {v1, v2}
    OldVersion = OldVersion
    Padding = Padding
    Junk = Junk
    StatusByte = StatusByte
    CommandByte = CommandByte
    MaxLate = 1
SYMMETRY Symmetry
INVARIANTS
    TypeOK
    CallOutcome
PROPERTIES
    OnlyOwnBytes
