CONSTANTS
    d1 = d1
    d2 = d2
    Device = {d1, d2}
    Serial = {d1}
    MaxAddr = 1
    Retries = 2
    MaxWrites = 2
    NoDevice = none
SPECIFICATION MCSpec
INVARIANTS NothingLostOrDoubled
PROPERTIES FirstAttemptsInOrder OnlyEnabledAreWritten WritesSettle
CHECK_DEADLOCK FALSE
