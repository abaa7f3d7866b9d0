SPECIFICATION Spec
CONSTANTS
    Items <- MCItems
    Capacity = 3
    NumIds = 3
INVARIANTS
    NodesAreConserved
    RemovalMissesOnlyByPush
    ReturnThrowsOnlyForKept
PROPERTIES
    ImplementsSets
CHECK_DEADLOCK FALSE
