SPECIFICATION Spec
CONSTANTS
    w1 = w1
    w2 = w2
    r1 = r1
    Writers <- TwoWriters
    Readers = {}
    Size = 3
    MaxRequest = 2
    Capacity = 2
    MaxMessages = 3
    MaxRestarts = 0
    Word = 1000
INVARIANT SpanInBounds
CHECK_DEADLOCK FALSE
