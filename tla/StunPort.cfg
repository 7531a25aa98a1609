SPECIFICATION Spec
CONSTANTS
    Client = {A, B}
    Addr = {a1, a2}
    Tid = {t1, t2}
    NULL = NULL
INVARIANTS
    OwnMessagesValid
    RequestsServed
    Agreement
    SettledOnce
CHECK_DEADLOCK FALSE
