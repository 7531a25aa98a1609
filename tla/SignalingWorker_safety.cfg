SPECIFICATION Spec
CONSTANTS
    Client = {c1, c2}
    Fd = {f1, f2}
    Addr = {a1, a2, a3}
    NULL = NULL
    Kind = {"PUSH", "STOP", "UNKNOWN", "BADBODY", "BADMAGIC"}
    BodyLen = {0, 1}
    MaxSend = 3
    Processed = 8
    ReplyLen = 2
    SockBuf = 1
    Timeouts = TRUE
    CertFails = TRUE
    FreshAddr = TRUE
SYMMETRY Symmetry
INVARIANTS
    FdOwnership
    ReplyToRequester
    BytesExact
    AnsweredOnce
PROPERTY ClosedForCause
