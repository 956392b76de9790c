SPECIFICATION PipeSpec
CONSTANTS
    Capacity = 2
    e1 = e1
    e2 = e2
    e3 = e3
    e4 = e4
    last = last
    Values = {e1, e2, e3, e4, last}
    Events <- MCEvents
    Sentinel = last
    NoValue = none
    PushLimit = 5
INVARIANT PipeTypeOK
INVARIANT HandoffExact
INVARIANT SentinelStillQueued
PROPERTY Termination
