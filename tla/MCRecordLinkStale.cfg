CONSTANTS
    INT_SIZE = 2
    Blocks = 2
    NullKeys = NullKeys
    Undefined = Undefined
    Garbled = Garbled
    MaxSeq = 2
    MaxWrite = 1
    MaxEpoch = 1
    MaxPacked = 2
    MaxRecords = 4
    Stale <- OldAssociation
SPECIFICATION Spec
INVARIANTS
    DeliveredWasDeciphered
CHECK_DEADLOCK FALSE
