SPECIFICATION RecoverySpec
CONSTANTS
    c1 = c1
    c2 = c2
    Clients <- TwoClients
    NumSlots = 2
    MaxMessages = 2
    MaxSubscribes = 3
    MaxCrashes = 1
    Word = 1000
SYMMETRY ClientSymmetry
INVARIANTS
    RecoveryTypeOK
    SubscribersKeepTheirSlots
    TokensNeverExceedMessages
    OneTokenLostPerCrash
    ReadNeverThrows
CHECK_DEADLOCK FALSE
