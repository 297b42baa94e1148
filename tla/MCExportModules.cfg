CONSTANTS
    Rules = {1, 2}
    Confs <- MCConfs
    Infos <- MCInfos
    KeyTypes <- MCKeyTypes
    Dests = {"f1", "f2", "f3", "f4", "h1", "h2", "h3"}
    MaxExports = 2
    DefaultDest = "h1"
    BufferRows = 2
    MaxConn = 2
    LongBytes = 4
    MaxRecords = 2
    MaxRows = 2
    Exposed = {}
SPECIFICATION Spec
INVARIANTS RowsArrive RowsAreDescribed ConnectionsCounted
PROPERTIES EveryRowSent
CHECK_DEADLOCK FALSE
