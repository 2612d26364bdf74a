SPECIFICATION MCSpec
CONSTANTS
    k1 = k1  k2 = k2
    Children = {k1, k2}
    NoChild = NoChild
    BatchSize = 2
    MaxQueue = 2
    MaxMessages = 8
    MaxHooks = 1
    MaxDrops = 1
    Pair = 8
    Single = 7
    Flushing = 4
    NumRecords = 3
    PageSize = 2
    MaxSeen = 2
    MaxAway = 2
    MaxErrors = 1
    MaxForgotten = 2
INVARIANTS
    OneTaskPerRecord FinalAfterChildren StdinOpen BatchesInOrder 
PROPERTIES  SessionEnds
CHECK_DEADLOCK FALSE
