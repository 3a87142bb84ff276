SPECIFICATION Spec
CONSTANTS
    Dir = {"group", "name"}
    Node = {a, b}
    Owner = {a, b}
    Home <- OneEach
    MaxCalls = 3
    MaxBreaks = 1
    LateEvents = FALSE
INVARIANTS TypeOK OwnEntryKept 
SYMMETRY Alike
CHECK_DEADLOCK FALSE
