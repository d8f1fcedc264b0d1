CONSTANTS
    Schemas = {"app"}
    UnknownRole = UnknownRole
    Temps = {"t1", "t2"}
    Savepoints = {"s"}
    Scenes <- TempScenes
SPECIFICATION Spec
INVARIANTS TempIsSearchedWhereWritten
CHECK_DEADLOCK FALSE
