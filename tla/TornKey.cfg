SPECIFICATION Spec
CONSTANTS
    NumChannels = 1
    TornKeys = TRUE
    MediaKeyWorks = {TRUE}
    ExecFails = FALSE
    Timely = TRUE
    Configs <- Encrypted
INVARIANT
    RedyMeansKeyed
CHECK_DEADLOCK FALSE
