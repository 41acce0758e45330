SPECIFICATION FairSpec
CONSTANTS
    None = None
    Publishers = {p1, p2}
    Subscribers = {u1}
    Capacity = 2
    MaxTick = 5
INVARIANTS
    CurrentIsTruth
PROPERTIES
    InOrder
    CatchesUp
