SPECIFICATION FairSpec
CONSTANTS
    NumChannels = 2
    TornKeys = TRUE
    MediaKeyWorks = {TRUE}
    ExecFails = TRUE
    Timely = TRUE
    Configs <- Compatible
INVARIANT
    NoMutualWait
PROPERTIES
    ClientEnds
    ChildFollowsClient
CHECK_DEADLOCK FALSE
