SPECIFICATION FairSpec
CONSTANTS
    A = A
    B = B
    a = a
    b = b
    c = c
    away = away
    near = near
    Node = {A, B}
    Actor = {a, b, c}
    NodeOf <- Placement
    Ref = {away, near}
    Watcher <- Watchers
    Target <- Targets
    Linkable <- Links
    Trapping = {a}
    Fragile = {b}
    MaxCalls = 2
    MaxBreaks = 1
    LateEvents = FALSE
PROPERTIES DownOnce  
CHECK_DEADLOCK FALSE
