SPECIFICATION Spec
CONSTANTS
    c1 = c1
    c2 = c2
    Clients <- TwoClients
    NumSlots = 2
    MaxMessages = 3
    MaxSubscribes = 3
    Word = 1000
SYMMETRY ClientSymmetry
INVARIANTS
    TypeOK
    TokensMatchMessages
    ReadNeverThrows
    StartsWhereItJoined
    SlotsAreExclusive
    BagMatchesTable
PROPERTIES
    ImplementsFeed
CHECK_DEADLOCK FALSE
