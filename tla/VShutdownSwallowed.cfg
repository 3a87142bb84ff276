SPECIFICATION FairSpec
CONSTANTS
    a = a
    b = b
    c = c
    Child <- Two
    Name <- Two
    NameOf <- Distinct2
    Strategy = "one_for_all"
    MaxRestarts = 1
    Fragile <- None
    Killable <- None
    Unruly <- None
PROPERTIES ShutdownComesBack
CHECK_DEADLOCK FALSE
