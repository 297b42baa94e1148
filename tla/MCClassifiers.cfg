CONSTANTS
    Shapes <- MCShapes
    Lines = {"src", "dst", "proto"}
    ByteLines = {"proto"}
    NumberLineSize = 3
    PREALLOC_CLASSES = 1
    MaxLines = 2
    MaxRules = 3
    MaxTasks = 4
    Exposed = {}
SPECIFICATION ClassifierSpec
INVARIANTS MatchesItsRules TablesLargeEnough
CHECK_DEADLOCK FALSE
