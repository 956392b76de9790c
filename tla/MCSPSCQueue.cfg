SPECIFICATION QueueSpec
CONSTANTS
    Capacity = 2
    Values = {a, b}
    NoValue = none
    PushLimit = 5
INVARIANT QueueTypeOK
INVARIANT QueueInv
INVARIANT NoDataRace
PROPERTY RefusalsJustified
PROPERTY ImplementsChannel
