SPECIFICATION Spec
CONSTANTS
    Devices = {d1, d2}
    MaxRequests = 2
    MaxRegisters = 2
    MaxSurfaces = 2
    NoCamera = NoCamera
SYMMETRY Symmetry
INVARIANTS
    TypeOK
    OrphansBounded
    NoDeadSurface
    CrashCause
    AttachReported
    GoneClosed
CHECK_DEADLOCK FALSE
