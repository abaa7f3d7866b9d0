SPECIFICATION Spec
CONSTANTS
    w1 = w1
    w2 = w2
    r1 = r1
    Writers <- OneWriter
    Readers <- OneReader
    Size = 4
    MaxRequest = 2
    Capacity = 2
    MaxMessages = 4
    MaxRestarts = 0
    Word = 1000
INVARIANT NoSilentOverrun
CHECK_DEADLOCK FALSE
