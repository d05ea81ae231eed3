SPECIFICATION Spec
CONSTANTS
    Orders <- MCOrders
    OrderIds = {1, 3}
    Prices = {1, 2, 3}
    Quantities = {0, 1, 3}
    NewQuantities = {0, 3}
    QuantityModulus = 4
    MaxDepthLevels = 2
    MaxTradesPerOrder = 2
    RetireThreshold = 2
    MaxOrders = 4
INVARIANTS TypeOK WellFormed TotalsExact TimePriority RetiredUnreachable
PROPERTIES FillsFollowPriority QuantityBalances
