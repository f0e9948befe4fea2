SPECIFICATION Spec
CONSTANTS
    Traffic <- TrafficDef
    PoolCap = 4
    MwvCap = 4
    TypedCap = 2
    DbDataCap = 4
    MsgQueueCap = 2
    DbQueueCap = 2
    Threshold = 2
    MAX_APP_MSG_IN_ONE_DATA = 2
    Unknown = "unknown"
INVARIANTS DecodedAsSent StoredInOrder ObjectInOnePlace StopsOnlyWhenDry
CHECK_DEADLOCK FALSE
