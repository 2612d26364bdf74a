SPECIFICATION MCSpec
CONSTANTS
    Requests = {"q1", "q2", "q3"}
    Rows = {"r1", "r2", "r3", "r4"}
    Clicks = {"c1", "c2"}
    DeliverySaved = FALSE
    MaxFaults = 1
    None = None
    Inputs <- MCInputs
    Configs <- MCConfigs
    Self = "bot"
    Toggles = {g1}
    MaxToggling = 1
    MaxStarts = 2
    MaxRoots = 1
    MaxReplies = 1
    MaxIngFaults = 1
    Questions = 2
    v1 = v1  v2 = v2  v3 = v3  w1 = w1  w2 = w2  t1 = t1  t2 = t2
    Refs = {v1, v2, v3}
    Workflows = {w1, w2}
    Packages <- MCPackages
    Refused <- MCRefused
    DefaultRef = NoRef
    HeadRef = v1
    NoRef = NoRef
    Syncs = {s1}
    Tasks = {t1, t2}
    WorkflowOf <- MCWorkflowOf
    MaxSyncing = 1
    MaxReleases = 2
    MaxRelFaults = 1
    j1 = j1  j2 = j2  y1 = y1  y2 = y2
    Jobs = {j1, j2}
    Agents = {j1, j2}
    AgentOf <- MCAgentOf
    Versions = {y1, y2}
    Declared <- MCDeclared
    EnabledIn <- MCEnabledIn
    NoVersion = NoVersion
    MaxUpdates = 2
    MaxScans = 3
    MaxLate = 2
    u1 = u1  u2 = u2  u3 = u3  u4 = u4  d1 = d1
    Replicas = {h1, h2}
    TaskIds = {n1}
    NumCommits = 3
    Units = {u1, u2, u3, u4}
    DocumentOf <- MCDocumentOf
    Observations = {u4}
    NoDocument = NoDocument
    Keep = 1
    HistoryLimit = 1
    MaxPasses = 2
    MaxSyncs = 3
    Visits = {x1, x2, x3}
    KeepCopies = 2
    MaxLosses = 2
    Subagents = {a1, a2}
    MaxTokens = 2
    MaxUsages = 3
    MaxAttempts = 2
    MaxTokFaults = 1
INVARIANTS
    OnePending NoApprovalWithoutClick PromptAnswerable
     OneTaskPerPost  
    ActiveComplete  OkIsPublished
     OneLateRun
    LiveTasksSurvive PromotedKept 
    
CHECK_DEADLOCK FALSE
