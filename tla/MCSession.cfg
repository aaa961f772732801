SPECIFICATION Spec
CONSTANTS
    NumChannels = 3
    TornKeys = TRUE
    MediaKeyWorks = {TRUE, FALSE}
    ExecFails = TRUE
    Timely = FALSE
    Configs <- AllConfigs
INVARIANTS
    TypeOK
    AckedWereApplied
    KeysAgree
    OneWriteOnTheWire
PROPERTIES
    AppliesInStep
    ImplementsRequest
CHECK_DEADLOCK FALSE
