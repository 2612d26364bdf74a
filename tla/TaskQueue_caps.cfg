SPECIFICATION CapsSpec
CONSTANTS
    t1 = t1  t2 = t2  t3 = t3  w1 = w1  w2 = w2
    Tasks = {t1, t2, t3}
    Workflows = {w1, w2}
    Managers = {m1, m2}
    WorkflowOf <- MCWorkflowOf
    Limit <- MCLimit
    Priority <- MCPriority
    PlatformMax = 2
    MaxEvents = 1
    MaxOps = 1
    NoOne = NoOne
    Gateway = Gateway
INVARIANTS PlatformCap WorkflowCap
SYMMETRY MCSymmetry
