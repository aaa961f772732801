SPECIFICATION FairSpec
CONSTANTS
    NumChannels = 1
    TornKeys = FALSE
    MediaKeyWorks = {FALSE}
    ExecFails = FALSE
    Timely = TRUE
    Configs <- MediaPlain
PROPERTY
    ClientEnds
CHECK_DEADLOCK FALSE
