SPECIFICATION FairSpec
CONSTANTS
    Conn = {c1, c2}
    NULL = NULL
    Priority = {1}
    Rtt = {1, 2}
    InitialRtt = 3
    Fails = 1
    MinPings = 0
INVARIANTS
    UpToDate
    PingingStarts
PROPERTIES
    KeepsPromise
    SilentPeerFails
    PingedAgain
