SPECIFICATION Spec
CONSTANTS
    Names = {n1, n2}
    MaxRules = 3
    DoneListSize = 1
    Requestable = "oneway"
    Exposed = {}
INVARIANTS
    RulesFound
    EventsMatchRules
    TablesAgree
PROPERTIES
    RulesStartAndStop
\* The meter rests when no request comes and no event is due.
CHECK_DEADLOCK FALSE
