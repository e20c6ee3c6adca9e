SPECIFICATION Spec
CONSTANTS
    Files = {f1, f2}
    LastCluster = 5
    LastEntry = 5
    PaddingMayBeFree = FALSE
    WindowSize = 2
    Skew = 1
    MaxLength = 2
    MayEmpty = TRUE
    TransferMayFail = FALSE
    Closed = Closed
    NoFile = NoFile
SYMMETRY Symmetry
INVARIANTS
    ChainsKept
CHECK_DEADLOCK FALSE
