CONSTANTS
    CatalogSlots = {"relation"}
    NamespaceSlots = {"relation"}
    CatalogValues = {v1, v2}
    Codes = {c1, c2}
    Exact = Exact
    Tainted = Tainted
    Edges = {e1, e2}
    Root = Root
    Savepoints = {sp}
    MaxFrames = 3
    MaxUndo = 3
    MaxEdges = 2
    MaxMutations = 2
SPECIFICATION HSpec
INVARIANT TypeOK StackShape CheckpointUsable ConfidenceHasEvidence UndoIsExact
PROPERTY ImplementsPgTransaction
SYMMETRY DataSymmetry
CONSTRAINT Focus
