CONSTANTS
    INT_SIZE = 2
    Blocks = 1
    NullKeys = NullKeys
    Undefined = Undefined
    Garbled = Garbled
    MaxSeq = 3
    MaxWrite = 2
    MaxEpoch = 2
    MaxPacked = 2
    MaxRecords = 8
    Stale <- OldAssociation
SPECIFICATION Spec
INVARIANTS
    TypeOK
    NextNumberIsFresh
    SentUnderEpochKeys
    ReadFollowsPeer
PROPERTIES
    NoneDeliveredTwice
    KeysStay
CHECK_DEADLOCK FALSE
