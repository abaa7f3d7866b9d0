SPECIFICATION Spec
CONSTANTS
    w1 = w1
    w2 = w2
    r1 = r1
    Writers <- TwoWriters
    Readers = {}
    Size = 4
    MaxRequest = 2
    Capacity = 2
    MaxMessages = 3
    MaxRestarts = 1
    Word = 1000
SYMMETRY WriterSymmetry
INVARIANTS
    ExclusiveSpan
    OffsetIsSpanEnd
    EntriesFresh
    CurrentSizeExact
CHECK_DEADLOCK FALSE
