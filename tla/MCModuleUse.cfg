CONSTANTS
    Names <- MCNames
    Kind <- MCKind
    File <- MCFile
    WithTimers = {"b", "u"}
    Shapes <- MCShapes
    PreloadLists <- MCPreloadLists
    RuleIds = {1, 2}
    MaxUnreleased = 1
    Removable = {"b", "u"}
    Exposed = {}
SPECIFICATION Spec
INVARIANTS ReferencesAreUses ModulesReady TimersHaveModules
CHECK_DEADLOCK FALSE
