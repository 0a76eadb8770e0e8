CONSTANTS
    t1 = t1
    t2 = t2
    Thread = {t1, t2}
    MaxLogRows = 2
    MaxEntries = 4
    MaxStarts = 2
    MaxClears = 1
    MaxFailures = 1
SPECIFICATION Spec
INVARIANTS RowsBounded FlushedAtExit
PROPERTIES StoreSpec LoggedIsWritten ShutdownReturns
CHECK_DEADLOCK FALSE
