SPECIFICATION Spec
CONSTANTS
    Readers = {r1}
    Writers = {w1, w2}
    Nodes = {n1, n2, n3, n4, n5, n6}
    Null = Null
    Slots = 1
    RetireThreshold = 2
    CountModulus = 16
    StoreBuffering = FALSE
    BufferLimit = 2
SYMMETRY Symmetry
INVARIANTS NoUseAfterFree EveryNodeAccountedFor CountBalances GarbageBounded
CHECK_DEADLOCK FALSE
