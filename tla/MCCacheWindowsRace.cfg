SPECIFICATION Spec
CONSTANTS
    p1 = p1
    p2 = p2
    Processes = {p1, p2}
    Platforms = {"windows"}
    Shared = {"windows"}
    Faults = TRUE
    MaxRuns = 2
SYMMETRY Symmetry
INVARIANT FailedRefreshLosesNothing
CHECK_DEADLOCK FALSE
