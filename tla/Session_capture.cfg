SPECIFICATION FlushingSpec
CONSTANTS
    k1 = k1  k2 = k2
    Children = {k1, k2}
    NoChild = NoChild
    BatchSize = 2
    MaxQueue = 2
    MaxMessages = 8
    MaxHooks = 1
    MaxDrops = 0
    Pair = 8
    Single = 7
    Flushing = 4
INVARIANT EveryMessageReported
CHECK_DEADLOCK FALSE
