SPECIFICATION FairSpec
CONSTANTS
    a1 = a1
    a2 = a2
    a3 = a3
    a4 = a4
    Call <- FourCalls
    Threshold = 2
    MaxRetries = 1
CHECK_DEADLOCK FALSE
INVARIANTS TypeOK FailuresAreConsecutive OneOutcomePerCall
PROPERTIES OpensOnFullRuns EveryCallReturns
