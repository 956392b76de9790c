SPECIFICATION PoolSpec
CONSTANT Capacity = 4
INVARIANT PoolTypeOK
INVARIANT FreeListExact
PROPERTY ImplementsAllocator
CHECK_DEADLOCK FALSE
