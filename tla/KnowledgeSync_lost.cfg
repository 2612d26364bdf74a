SPECIFICATION LiveSpec
CONSTANTS
    Workers = {w1, w2}
    MaxRuns = 2
    Commits = {c1}
    Scopes = {s1}
    Idents = {i1}
    Salts = {x1, x2}
    Artifacts <- MCArtifacts
    None = None
    MaxEdits = 0
    MaxCrashes = 1
    MaxLost = 1
INVARIANTS CurrentSucceeded NotOvertaken
PROPERTIES ImplementsRegistry QueuedTaken
