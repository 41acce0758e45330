CONSTANTS
    None = None
    Ops = {o1, o2}
    Compatibility = {}
    Stoppers = {s1}
    Exits = {e1}
SPECIFICATION FairSpec
INVARIANTS
    SingleAssembly
    RevokedNeverInstalled
    RoutesOwned
    StoppedStaysDown
    LossNamesAdopter
    SweeperSparesOthers
PROPERTIES
    ImplementsContract
    CallsEnd
