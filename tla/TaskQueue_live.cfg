SPECIFICATION MCSpec
CONSTANTS
    t1 = t1  t2 = t2  t3 = t3  w1 = w1  w2 = w2  m1 = m1  m2 = m2
    Tasks = {t1, t3}
    Workflows = {w1, w2}
    Managers = {m1, m2}
    WorkflowOf <- MCWorkflowOf
    Limit <- MCLimit
    Priority <- MCPriority
    PlatformMax = 1
    MaxEvents = 2
    MaxOps = 1
    NoOne = NoOne
    Gateway = Gateway
PROPERTIES EventuallyTaken ClaimsRunnable ImplementsPool
