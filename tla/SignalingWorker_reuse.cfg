SPECIFICATION Spec
CONSTANTS
    Client = {c1, c2}
    Fd = {f1}
    Addr = {a1}
    NULL = NULL
    Kind = {"PUSH"}
    BodyLen = {0}
    MaxSend = 2
    Processed = 8
    ReplyLen = 2
    SockBuf = 2
    Timeouts = TRUE
    CertFails = FALSE
    FreshAddr = FALSE
INVARIANT ReplyToRequester
