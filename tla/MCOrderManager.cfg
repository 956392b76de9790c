SPECIFICATION OrdersSpec
CONSTANTS
    Symbols = {s1}
    Prices = {0, 4, 7}
    Quantities = {0, 1, 3, 5}
    MaxOrders = 2
    MaxFills = 3
INVARIANT OrdersTypeOK
INVARIANT FillAccounting
INVARIANT AverageHonest
PROPERTY LifecycleMonotone
CHECK_DEADLOCK FALSE
