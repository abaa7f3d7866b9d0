SPECIFICATION FairSpec
CONSTANTS
    c1 = c1
    c2 = c2
    Clients <- TwoClients
    NumSlots = 2
    MaxMessages = 2
    MaxSubscribes = 3
    Word = 1000
PROPERTIES
    MessagesAreDelivered
    RequestsAreAnswered
CHECK_DEADLOCK FALSE
