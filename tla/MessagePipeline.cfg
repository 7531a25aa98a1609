SPECIFICATION FairSpec
CONSTANTS
    SWorker = {w1, w2}
    w1 = w1
    w2 = w2
    s1 = s1
    s2 = s2
    r1 = r1
    r2 = r2
    RWorker = {r1, r2}
    Stream = {s1, s2}
    Route <- OneEach
    Asked <- Requests
    PipeCap = 1
    MaxIssued = 6
    MaxDropped = 1
INVARIANTS
    TokenPerMessage
    StreamOrder
    Accounted
 
