SPECIFICATION Spec
CONSTANTS
    Readers = {r1, r2}
    Writers = {w1}
    Nodes = {n1, n2, n3, n4}
    Null = Null
    Slots = 2
    RetireThreshold = 2
    CountModulus = 16
    StoreBuffering = FALSE
    BufferLimit = 2
SYMMETRY Symmetry
INVARIANTS TypeOK NoUseAfterFree ProtectionInv
CHECK_DEADLOCK FALSE
