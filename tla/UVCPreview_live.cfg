SPECIFICATION LiveSpec
CONSTANTS
    Frames = {f1}
    MaxFrame = 1
    CaptureThreads = {c1}
    Callbacks = {cb}
    Windows = {}
    Modes = {"yuyv"}
    MaxStarts = 1
    MaxRefs = 1
    ClientOps = {"frameCallback"}
    StartMayFail = FALSE
    NoFrame = NoFrame
    NoThread = NoThread
    NoObj = NoObj
    NoWindow = NoWindow
PROPERTIES
    QueueDrained
    SetterReturns
CHECK_DEADLOCK FALSE
