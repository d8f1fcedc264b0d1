CONSTANTS
    Schemas = {"app", "dev"}
    UnknownRole = UnknownRole
    Temps = {"t1"}
    Savepoints = {"s"}
    Scenes <- SessionScenes
SPECIFICATION Spec
INVARIANTS PathIsFresh LocalNeverLasts RollbackRestoresSession
CHECK_DEADLOCK FALSE
