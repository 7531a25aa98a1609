SPECIFICATION FairSpec
CONSTANTS
    SendRoom = 2
    MaxSends = 5
    MaxArrivals = 2
INVARIANTS
    NoLostWakeup
    InOrder
    Accounted
PROPERTY Drains
