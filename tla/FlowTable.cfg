SPECIFICATION Spec
CONSTANTS
    Convs = {c1}
    NRules = 2
    Modules = {count, stats}
    Enders = {stats}
    Kinds = {"plain", "auto", "bidir", "sep"}
    NPackets = 3
    Timeout = 1
    MaxTime = 3
    Exposed = {}
INVARIANTS
    EveryPacketOnce
    FlowsAreConversations
PROPERTIES
    IdleFlowsExported
    EveryPacketExported
\* The model's clock stops.
CHECK_DEADLOCK FALSE
