SPECIFICATION Spec
CONSTANTS
    Files = {f1, f2}
    LastCluster = 6
    LastEntry = 7
    PaddingMayBeFree = FALSE
    WindowSize = 2
    Skew = 1
    MaxLength = 3
    MayEmpty = FALSE
    TransferMayFail = TRUE
    Closed = Closed
    NoFile = NoFile
SYMMETRY Symmetry
INVARIANTS
    TypeOK
    OnDisk
    FreeCountExact
PROPERTIES
    StoreSpec
CHECK_DEADLOCK FALSE
