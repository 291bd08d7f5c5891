CONSTANTS
    INT_SIZE = 2
    Blocks = 2
    NullKeys = NullKeys
    Undefined = Undefined
    Garbled = Garbled
    MaxSeq = 2
    MaxWrite = 1
    MaxEpoch = 1
    MaxPacked = 2
    MaxRecords = 4
    Stale <- NoStale
SPECIFICATION Spec
INVARIANTS
    HandedOnOnce
CHECK_DEADLOCK FALSE
