SPECIFICATION Spec
CONSTANTS
    Traffic <- OneKind
    PoolCap = 4
    MwvCap = 16
    TypedCap = 2
    DbDataCap = 16
    MsgQueueCap = 8
    DbQueueCap = 8
    Threshold = 4
    MAX_APP_MSG_IN_ONE_DATA = 2
    Unknown = "unknown"
INVARIANTS ReadOnlyOnceFilled
CHECK_DEADLOCK FALSE
