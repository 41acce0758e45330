SPECIFICATION ConnectsSpec
CONSTANTS
    Users = {"u1", "u2"}
    MaxOps = 2
    MaxFault = 1
    MaxLaunch = 2
CHECK_DEADLOCK FALSE
PROPERTIES
    OneshotEndsWithCore
