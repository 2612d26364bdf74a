SPECIFICATION Spec
CONSTANTS
    Workers = {w1, w2}
    MaxRuns = 3
    Commits = {c1, c2}
    Scopes = {s1}
    Idents = {i1}
    Salts = {x1, x2}
    Artifacts <- MCArtifacts
    None = None
    MaxEdits = 1
    MaxCrashes = 1
    MaxLost = 0
INVARIANTS PromotedIntact ManifestComplete
SYMMETRY WorkerSymmetry
