SPECIFICATION ParitySpec
CONSTANTS
    Orders <- MCOrders
    OddLines <- MCOddLines
    OrderIds = {1, 3}
    Prices = {1, 4, 5, 6, 10}
    Quantities = {1, 3}
    NewQuantities = {2}
    Absent = Absent
    Latencies = {1, 2}
    Grain = 4
    RoundsUp = {6, 10}
    PrintsUp = {10}
    QuantityModulus = 16
    MaxDepthLevels = 2
    MaxTradesPerOrder = 3
    RetireThreshold = 2
    MaxOrders = 3
    MaxBatch = 2
INVARIANTS SameSnapshots SameTrades SameAnswers WatermarksExact
CHECK_DEADLOCK FALSE
