SPECIFICATION Spec
CONSTANTS
    AppCommands = {"vol", "play"}
    MaxCommands = 2
    MaxChannels = 2
    MediaKeyWorks = {TRUE, FALSE}
    ExecFails = FALSE
    ServerEnc = {TRUE}
    Timely = TRUE
INVARIANTS
    CommandsGoOut
CHECK_DEADLOCK FALSE
