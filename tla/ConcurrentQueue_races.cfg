SPECIFICATION Spec
CONSTANTS
    Producers = {p1, p2}
    Consumers = {c1, c2}
    Capacity = 2
    Orders = {a}
    NoOrder = NoOrder
    StaleLoads = TRUE
    MaxClaims = 4
SYMMETRY Symmetry
INVARIANTS TypeOK NoCellRace ExactAtRest CursorInv
