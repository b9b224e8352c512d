SPECIFICATION Spec
CONSTANTS
    None = None
    Note = {"a", "b"}
    Content = {1, 2}
    Watched = {"a"}
    WalkOrder <- MCWalkOrder
    MaxChanges = 3
    MaxPulls = 1
    MaxRuns = 3
INVARIANTS Settled IngestMirrors
CHECK_DEADLOCK FALSE
