CONSTANTS
    NRules = 1
    Tier1Rules = {1}
    Disabled = {}
    AssertedVersion = FALSE
    Keys = {k1}
    NoKey = NoKey
    Found <- MCFound
    NoPos = NoPos
    MaxFiles = 1
    MaxStatements = 4
    MaxMutations = 1
    MaxFindings = 1
SPECIFICATION Spec
INVARIANTS EarlierTaintIsReported
CHECK_DEADLOCK FALSE
