SPECIFICATION Spec
CONSTANTS
    Nobody = Nobody
    c1 = c1
    c2 = c2
    r1 = r1
    s1 = s1
CHECK_DEADLOCK FALSE
INVARIANTS
    ObligationKept
    
PROPERTIES
    StopIsObeyed
    SessionSettles
