SPECIFICATION FairSpec
CONSTANTS
    Uid = {u1, u2}
    Name = {n1, n2}
    NULL = NULL
    MaxStreams = 3
CHECK_DEADLOCK FALSE
INVARIANTS
    TablesSound
    NothingLeaked
    PcOutlivesUse
PROPERTIES
    OwnRemoval
    StreamsEnd
