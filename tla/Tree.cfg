SPECIFICATION FairSpec
CONSTANTS
    Leaves = 2
    Flawed = TRUE
    MaxRestarts = 2
    MaxCrashes = 2
    MaxCancels = 2
INVARIANTS NoOrphans NamesAreFreed
PROPERTIES SubtreeMovesOn
CHECK_DEADLOCK FALSE
