\* The release profile: panic = "abort".
SPECIFICATION Spec
CHECK_DEADLOCK FALSE
CONSTANTS
    Configs = {a, b}
    Unloadable = {bad}
    Workers = {w1}
    Capacity = 1
    PanicAborts = TRUE
    None = None
INVARIANTS
    SurvivesReload
