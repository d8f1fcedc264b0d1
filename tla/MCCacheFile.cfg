SPECIFICATION Spec
CONSTANTS
    p1 = p1
    p2 = p2
    Processes = {p1, p2}
    Platforms = {"posix", "windows"}
    Shared = {"posix"}
    Faults = TRUE
    MaxRuns = 4
SYMMETRY Symmetry
INVARIANT CacheIsWhole
INVARIANT OkIsDurable
INVARIANT LintFindsCache
INVARIANT BackupIsStale
PROPERTY CacheIsNeverLost
CHECK_DEADLOCK FALSE
