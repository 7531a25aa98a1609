SPECIFICATION Spec
CONSTANTS
    Transport = {"audio", "video"}
    NULL = NULL
    f1 = f1
    f2 = f2
    b1 = b1
    b2 = b2
    t1 = t1
    t2 = t2
    Good = {f1, f2}
    Bad = {b1, b2}
    Odd = {b2}
    MaxSessions = 2
    Session <- MCSession
    Sdp <- MCSdp
    Ssrc = {1, 2, 3, 4}
    Track = {t1, t2}
    Mux = {TRUE, FALSE}
    MaxPcs = 2
CHECK_DEADLOCK FALSE
INVARIANTS
    PcStateCurrent
    KeysCurrent
    HandshakeStarts
    ConnectedCarriesMedia
    LibraryAccounted
    OfferedAsPublished
