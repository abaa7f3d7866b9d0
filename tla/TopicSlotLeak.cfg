SPECIFICATION Spec
CONSTANTS
    c1 = c1
    c2 = c2
    Clients <- OneClient
    NumSlots = 2
    MaxMessages = 2
    MaxSubscribes = 1
    Word = 1000
INVARIANT DisposedSlotsAreFree
CHECK_DEADLOCK FALSE
