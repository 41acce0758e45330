SPECIFICATION Spec
CONSTANTS
    None = None
    Connects = {c1}
    Reconnects = {}
    Stops = {s1}
    Forms = {"oneshot"}
    AutoReconnect = TRUE
    MaxRetries = 2
    StreamSize = 1
    MaxGen = 1
    MaxFaults = 0
CHECK_DEADLOCK FALSE
PROPERTIES
    ConnectingIsWanted
