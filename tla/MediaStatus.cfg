SPECIFICATION Spec
CONSTANTS
    NumChannels = 1
    TornKeys = FALSE
    MediaKeyWorks = {TRUE}
    ExecFails = FALSE
    Timely = TRUE
    Configs <- MediaPlain
INVARIANT
    PressedIsSuccess
CHECK_DEADLOCK FALSE
