SPECIFICATION Spec
CONSTANTS
    Rules = {r1, r2}
    Intervals = {1, 2}
    MaxStart = 1
    Duration = 2
    MaxTime = 3
    MaxDumps = 1
    Exposed = {}
INVARIANTS
    TypeOK
    ExportsKeepPace
PROPERTIES
    NotEarly
    EveryRuleStops
\* The meter may stop, and the model's clock does.
CHECK_DEADLOCK FALSE
