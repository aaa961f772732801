SPECIFICATION FairSpec
CONSTANTS
    NumChannels = 3
    ExecFails = TRUE
INVARIANTS
    TypeOK
    OneServes
    HeardOkWasSet
PROPERTIES
    AnswersWhatWasAsked
    ImplementsService
    AskIsAnswered
    ChainUnwinds
CHECK_DEADLOCK FALSE
