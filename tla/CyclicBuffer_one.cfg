SPECIFICATION Spec
CONSTANTS
    w1 = w1
    w2 = w2
    r1 = r1
    Writers <- OneWriter
    Readers <- OneReader
    Size = 6
    MaxRequest = 2
    Capacity = 3
    MaxMessages = 5
    MaxRestarts = 1
    Word = 1000
INVARIANTS
    TypeOK
    SpanInBounds
    OffsetIsSpanEnd
    EntriesFresh
    LiveBytesIntact
    CurrentSizeExact
    ReadsOnlyPublished
    TimelyReadIsExact
CHECK_DEADLOCK FALSE
