SPECIFICATION PipeSpec
CONSTANTS
    Capacity = 2
    e1 = e1
    e2 = e2
    last = last
    Values = {e1, e2, last}
    Events <- MCEvents
    Sentinel = last
    NoValue = none
    PushLimit = 4
INVARIANT HandoffExact
