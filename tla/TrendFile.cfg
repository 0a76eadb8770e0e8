CONSTANTS
    Name = {3, 5}
    Frequency = {1, 2}
    kHeaderSize = 6
    kBlockHeaderSize = 2
    kRecordSize = 2
    kRecordsPerBlock = 2
    kBlockPadSize = 2
    kMaxFileSize = 29
    MaxFailures = 2
SPECIFICATION TrendSpec
INVARIANTS FlushedAreKept ReadersAgree SizeBounded
