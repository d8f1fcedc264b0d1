CONSTANTS
    NRules = 1
    Tier1Rules = {1}
    Disabled = {}
    AssertedVersion = FALSE
    Keys = {k1}
    NoKey = NoKey
    Found <- MCFound
    NoPos = NoPos
    MaxFiles = 2
    MaxStatements = 2
    MaxMutations = 2
    MaxFindings = 2
SPECIFICATION Spec
INVARIANTS FailedStatementLeaksNothing KeysAreReported SafeMeansEveryCheckRan
PROPERTY LaterNeverTaints
CHECK_DEADLOCK FALSE
