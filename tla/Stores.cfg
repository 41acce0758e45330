SPECIFICATION Spec
CONSTANTS
    MaxCall = 5
    MaxFault = 1
    MaxOp = 4
    HardFaults = FALSE
    ReadbackFails = FALSE
    ReadsFail = FALSE
CHECK_DEADLOCK FALSE
INVARIANTS
    
    
    PlaneHolds
    

    
