SPECIFICATION LiveSpec
CONSTANTS
    Transfers = {t1, t2}
    MaxCam = 4
    MaxLossRun = 1
    UseCallback = TRUE
    BadPayloads = FALSE
    MayUnplug = FALSE
    SubmitMayFail = FALSE
    NoTransfer = NoTransfer
INVARIANTS
    TypeOK
    CloseQuiesces
    NoMissedNews
PROPERTIES
    StopReturns
    LatestSpec
