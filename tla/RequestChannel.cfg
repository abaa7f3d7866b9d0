CONSTANTS
    Clients = {p1, p2}
    NumSlots = 3
    MaxObjects = 2
    MaxRequests = 3
    MaxCommands = 2
    MaxStarts = 2
SPECIFICATION Spec
SYMMETRY Symmetry
INVARIANTS
    CallsWaitForSomething
    SubscriptionsAreKept
    DiesOnlyInDestructor
CHECK_DEADLOCK FALSE
