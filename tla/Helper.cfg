SPECIFICATION FairSpec
CONSTANTS
    None = None
    Conns = {c1, c2}
    Applies = {a1, a2}
    Stops = {s1}
    Releases = {r1}
    AcquireOp = acquire
    Service = TRUE
    MaxWatermark = 4
    MaxRequests = 3
CHECK_DEADLOCK FALSE
INVARIANTS
    LeaseIsOwners
    VersionPerOwner
PROPERTIES
    TerminalFinal
    
