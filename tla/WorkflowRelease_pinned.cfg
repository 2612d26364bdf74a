SPECIFICATION RelSpec
CONSTANTS
    v1 = v1  v2 = v2  v3 = v3  w1 = w1  w2 = w2  t1 = t1  t2 = t2
    Refs = {v1, v2, v3}
    Workflows = {w1, w2}
    Packages <- MCPackages
    Refused <- MCRefused
    DefaultRef = v1
    HeadRef = v1
    NoRef = NoRef
    Syncs = {s1}
    Tasks = {t1}
    WorkflowOf <- MCWorkflowOf
    MaxSyncing = 1
    MaxReleases = 2
    MaxRelFaults = 1
INVARIANTS RefHonoured
CHECK_DEADLOCK FALSE
