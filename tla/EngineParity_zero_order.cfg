SPECIFICATION ParitySpec
CONSTANTS
    Orders <- MCOrders
    OddLines = {}
    OrderIds = {1, 3}
    Prices = {1, 4}
    Quantities = {0, 1}
    NewQuantities = {1}
    Absent = Absent
    Latencies = {1}
    Grain = 4
    RoundsUp = {}
    PrintsUp = {}
    QuantityModulus = 16
    MaxDepthLevels = 2
    MaxTradesPerOrder = 3
    RetireThreshold = 2
    MaxOrders = 3
    MaxBatch = 2
INVARIANTS GoldenSnapshots
CHECK_DEADLOCK FALSE
