SPECIFICATION Spec
CONSTANTS
    Files = {f1}
    Folders = {d1, d2}
    Root = Root
    Names = {a, b}
    Handles = {root, h1, h2}
    RootHandle = root
    MaxSpoiled = 1
    MaxStrays = 1
    NoItem = NoItem
    Nowhere = Nowhere
    NoHandle = NoHandle
    Closed = Closed
SYMMETRY Symmetry
INVARIANTS
    TypeOK
    OnePlace
    NoDangling
    NamesUnique
    Rooted
CHECK_DEADLOCK FALSE
