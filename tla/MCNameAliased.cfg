SPECIFICATION Spec
CONSTANTS
    MaxIdentifierBytes = 9
    Wide = {"w"}
    s = s
    t = t
    Schemas = {s, t}
    Tables <- TableNames
    Held <- HeldNames
    Shapes <- TableShapes
    Paths <- SearchPaths
    MaxSteps = 4
SYMMETRY SchemaSymmetry
INVARIANT ReusedNamesAgree
CHECK_DEADLOCK FALSE
