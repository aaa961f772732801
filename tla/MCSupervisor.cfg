SPECIFICATION FairSpec
CONSTANTS
    Pids = {1, 2, 3}
    MaxFds = 3
    MaxConns = 3
INVARIANTS
    TypeOK
    RunningAreListed
    OneSurvives
    SignalHasZombie
PROPERTIES
    ListedChildrenEnd
    EveryConnectionAccepted
CHECK_DEADLOCK FALSE
