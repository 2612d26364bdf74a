SPECIFICATION LiveSpec
CONSTANTS
    s1 = s1  s2 = s2  a1 = a1  a2 = a2  a3 = a3
    Sources = {s1, s2}
    Aliases = {a1, a2, a3}
    FirstAlias <- MCFirstAlias
    Readers = {r1, r2}
    Keep = 2
    None = None
    MaxVersions = 3
    MaxEdits = 1
    MaxFaults = 1
INVARIANTS InUseOnDisk
PROPERTIES PromotedServed
