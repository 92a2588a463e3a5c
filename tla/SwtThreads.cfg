SPECIFICATION Spec
CONSTANTS
    c1 = c1
    c2 = c2
    Clients <- MCClients
    Modes = {"threads"}
    AutoExit = TRUE
    BufBytes = 2
    Threshold = 1
    SockBytes = 2
    MaxBytes = 3
    MaxFaults = 1

PROPERTY ClearedOnNextIteration
CHECK_DEADLOCK FALSE
