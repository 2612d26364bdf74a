SPECIFICATION SourceSpec
CONSTANTS
    u1 = u1  u2 = u2  u3 = u3  u4 = u4  d1 = d1
    Replicas = {h1, h2}
    TaskIds = {t1}
    NumCommits = 3
    Units = {u1, u2, u3, u4}
    DocumentOf <- MCDocumentOf
    Observations = {u4}
    NoDocument = NoDocument
    Keep = 1
    HistoryLimit = 1
    MaxPasses = 2
    MaxSyncs = 3
    Visits = {v1, v2, v3}
    KeepCopies = 2
    MaxLosses = 2
INVARIANT PromotedPreserved
CHECK_DEADLOCK FALSE
