SPECIFICATION Spec
CONSTANTS
    MaxAttempts = 1
    DisconnectMayFail = FALSE
    MaxCommands = 4
CHECK_DEADLOCK FALSE
PROPERTY OldTaskSparesNew
