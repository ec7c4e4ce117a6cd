SPECIFICATION FairSpec
CONSTANTS
    MaxAttempts = 2
    DisconnectMayFail = TRUE
    MaxCommands = 4
CHECK_DEADLOCK FALSE
INVARIANTS TypeOK OneListener ListenerIsRegistered TemporaryConnectionsClosed LoggedOutIsInactive
PROPERTIES EveryCommandReturns ListenerGivesUp
