SPECIFICATION FairSpec
CONSTANTS
    Node = {n1, n2, n3}
    Value = {a, b}
    NULL = NULL
    MaxProduce = 4
INVARIANTS
    NoUseAfterFree
    TokenFindsElement
    SizeCounts
    NoNodeLeak
PROPERTIES
    Fifo
    AllDelivered
