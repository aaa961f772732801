SPECIFICATION FairSpec
CONSTANTS
    AppCommands = {"vol", "play", "next"}
    MaxCommands = 2
    MaxChannels = 1
    MediaKeyWorks = {TRUE, FALSE}
    ExecFails = TRUE
    ServerEnc = {TRUE}
    Timely = TRUE
INVARIANTS
    TypeOK
    NoStaleAnswer
    OkWasSet
    SilenceFollowsError
    ButtonIsRight
PROPERTIES
    AppliesWhatIsAsked
    TaskEnds
    ChildFollowsApp
CHECK_DEADLOCK FALSE
