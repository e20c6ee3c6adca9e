SPECIFICATION Spec
CONSTANTS
    Transfers = {t1, t2}
    MaxCam = 4
    MaxLossRun = 1
    UseCallback = FALSE
    BadPayloads = TRUE
    MayUnplug = TRUE
    SubmitMayFail = TRUE
    NoTransfer = NoTransfer
SYMMETRY Symmetry
INVARIANTS
    WholeFrames
CHECK_DEADLOCK FALSE
