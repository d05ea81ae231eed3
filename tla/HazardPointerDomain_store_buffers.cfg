SPECIFICATION Spec
CONSTANTS
    Readers = {r1}
    Writers = {w1}
    Nodes = {n1, n2}
    Null = Null
    Slots = 1
    RetireThreshold = 2
    CountModulus = 16
    StoreBuffering = TRUE
    BufferLimit = 2
SYMMETRY Symmetry
INVARIANTS NoUseAfterFree
CHECK_DEADLOCK FALSE
