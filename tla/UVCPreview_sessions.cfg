SPECIFICATION Spec
CONSTANTS
    Frames = {f1, f2, f3}
    MaxFrame = 1
    CaptureThreads = {c1, c2}
    Callbacks = {}
    Windows = {}
    Modes = {"mjpeg"}
    MaxStarts = 2
    MaxRefs = 1
    ClientOps = {"size", "destroy"}
    StartMayFail = TRUE
    NoFrame = NoFrame
    NoThread = NoThread
    NoObj = NoObj
    NoWindow = NoWindow
SYMMETRY Symmetry
INVARIANTS
    TypeOK
    StoppedQuiet
    LeakBounded
CHECK_DEADLOCK FALSE
