SPECIFICATION LiveSpec
CONSTANTS
    c1 = c1
    c2 = c2
    Clients = {c1}
    Modes = {"threads"}
    AutoExit = TRUE
    BufBytes = 2
    Threshold = 1
    SockBytes = 2
    MaxBytes = 1
    MaxFaults = 1
PROPERTY PickedUpAgain
CHECK_DEADLOCK FALSE
