SPECIFICATION Spec
CONSTANTS
    a = a
    b = b
    c = c
    Child <- Three
    Name <- Three
    NameOf <- Distinct3
    Strategy = "rest_for_one"
    MaxRestarts = 1
    Fragile <- Two
    Killable <- OnlyA
    Unruly <- OnlyA
 
PROPERTIES NoOrphanGeneration GroupGivesUpWhole
CHECK_DEADLOCK FALSE
