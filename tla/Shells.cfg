SPECIFICATION Spec
CONSTANTS
    c1 = c1
    c2 = c2
CHECK_DEADLOCK FALSE
INVARIANTS
    OneCore
PROPERTIES
    ConnectReturns
