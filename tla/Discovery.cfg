SPECIFICATION FairSpec
CONSTANTS
    me = me
    s = s
    p = p
    q = q
    x = x
    one = one
    two = two
    Self = me
    Peer = {s, p, q, x}
    Knows <- Circle
    Reachable = {s, p, q}
    Joiner = {one, two}
    Seeds <- Entrances
    MaxBreaks = 1
INVARIANTS JoinIsClosed WaitersAreReleased 
PROPERTIES JoinReturns
CHECK_DEADLOCK FALSE
