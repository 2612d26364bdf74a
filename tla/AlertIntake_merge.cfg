SPECIFICATION FairSpec
CONSTANTS
    a = a  b = b  c = c  x = x  k1 = k1  k2 = k2
    Msgs = {a, b, x}
    Ignored = {x}
    Keys = {k1, k2}
    KeyOf <- MCKeyOf
    Tasks = {u1, u2, u3}
    Handlers = {h1, h2}
    Window = 1
    MaxClock = 2
    MaxFaults = 1
    None = None
INVARIANTS NoAlertOverwritten AckedIsRecorded 
PROPERTIES EventuallyAcked
CHECK_DEADLOCK FALSE
