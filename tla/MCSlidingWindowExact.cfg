CONSTANTS
    INT_SIZE = 3
    Blocks = 2
    SeqNums <- MCSeqNums
SPECIFICATION Spec
INVARIANT OnlyReceivedIsMarked
CHECK_DEADLOCK FALSE
