SPECIFICATION FairSpec
CONSTANTS
    a = a
    b = b
    c = c
    Child <- Three
    Name <- Three
    NameOf <- SameAB
    Strategy = "one_for_one"
    MaxRestarts = 1
    Fragile <- Three
    Killable <- None
    Unruly <- None
 
PROPERTIES ShutdownIsComplete SiblingsUnaffected ShutdownComesBack WatchersTold
CHECK_DEADLOCK FALSE
