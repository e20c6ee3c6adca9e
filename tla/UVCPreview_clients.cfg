SPECIFICATION Spec
CONSTANTS
    Frames = {f1, f2, f3, f4}
    MaxFrame = 1
    CaptureThreads = {c1}
    Callbacks = {cb}
    Windows = {w}
    Modes = {"yuyv"}
    MaxStarts = 1
    MaxRefs = 1
    ClientOps = {"frameCallback", "captureDisplay"}
    StartMayFail = FALSE
    NoFrame = NoFrame
    NoThread = NoThread
    NoObj = NoObj
    NoWindow = NoWindow
SYMMETRY Symmetry
INVARIANTS
    FrameOwnership
    NoSleepOnFrame
CHECK_DEADLOCK FALSE
