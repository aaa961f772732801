SPECIFICATION FairSpec
CONSTANTS
    Pids = {1, 2}
    MaxFds = 3
    MaxConns = 3
INVARIANT
    OnlyChildrenSignalled
CHECK_DEADLOCK FALSE
