SPECIFICATION Spec
CONSTANTS
    Uid = {u1, u2}
    Name = {n1}
    NULL = NULL
    MaxStreams = 3
CHECK_DEADLOCK FALSE
INVARIANT EveryPullFed
