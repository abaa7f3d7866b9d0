SPECIFICATION RecoverySpec
CONSTANTS
    c1 = c1
    c2 = c2
    Clients <- OneClient
    NumSlots = 2
    MaxMessages = 2
    MaxSubscribes = 1
    MaxCrashes = 2
    Word = 1000
INVARIANT EndedSubscriptionsAreNotServed
CHECK_DEADLOCK FALSE
