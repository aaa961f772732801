SPECIFICATION Spec
CONSTANTS
    NumChannels = 1
    ExecFails = FALSE
INVARIANT
    ReportsExitCode
CHECK_DEADLOCK FALSE
