SPECIFICATION Spec
CONSTANTS
    Readers = {r1, r2, r3, r4}
    Writers = {}
    Nodes = {n1}
    Null = Null
    Slots = 4
    RetireThreshold = 2
    CountModulus = 16
    StoreBuffering = TRUE
    BufferLimit = 2
SYMMETRY Symmetry
INVARIANTS SlotsExclusive SlotInv NeverTerminates SearchInv
