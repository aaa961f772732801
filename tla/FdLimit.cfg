SPECIFICATION FairSpec
CONSTANTS
    Pids = {1, 2}
    MaxFds = 2
    MaxConns = 3
PROPERTY
    EveryConnectionAccepted
CHECK_DEADLOCK FALSE
