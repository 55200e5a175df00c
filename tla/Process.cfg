SPECIFICATION FairSpec
CONSTANTS
    Processes = {"current", "older"}
    Requests = {r1, r2}
    Known <- Versions
    Connections = 1
    MaxStarts = 2
    None = None
CHECK_DEADLOCK FALSE
INVARIANTS
    RecordIsTruthful
    ServesMigratedOnly
    PostgresStartsDoNotCollide
    HoldersGoOn
PROPERTIES
    NoRequestCutShort
    StartEnds
    ShutdownEnds
