SPECIFICATION FairSpec
CONSTANTS
    r1 = r1
    r2 = r2
    r3 = r3
    r4 = r4
    LogStop = LogStop
    Record <- FourRecords
    QueueSize = 2
    BatchSize = 2
CHECK_DEADLOCK FALSE
INVARIANTS TypeOK RecordsAccounted JoinExact RowsInOrder
PROPERTIES StopReturns RecordsFlushed
