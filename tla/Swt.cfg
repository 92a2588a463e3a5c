SPECIFICATION LiveSpec
CONSTANTS
    c1 = c1
    c2 = c2
    Clients <- MCClients
    Modes = {"select", "threads"}
    AutoExit = TRUE
    BufBytes = 2
    Threshold = 1
    SockBytes = 2
    MaxBytes = 3
    MaxFaults = 1
INVARIANTS SerialInOrder ClientSeesStream NeverBlocks HandshakeInStep
PROPERTIES ClosedOnlyWhenUnplugged EveryoneServed Reconnects
CHECK_DEADLOCK FALSE
