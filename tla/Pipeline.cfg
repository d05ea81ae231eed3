SPECIFICATION PipelineSpec
CONSTANTS
    Producers = {p1, p2}
    Consumers = {c1}
    Capacity = 2
    Orders <- MCOrders
    NoOrder <- MCNoOrder
    StaleLoads = FALSE
    MaxClaims = 4
    OrderIds = {1, 2}
    Prices = {1}
    Quantities = {1, 2}
    NewQuantities = {}
    QuantityModulus = 16
    MaxDepthLevels = 2
    MaxTradesPerOrder = 4
    RetireThreshold = 2
    MaxOrders = 5
INVARIANTS MatchedInOrder OrdersInTransit QuantityConserved
PROPERTIES FifoPromise EveryOrderMatched
