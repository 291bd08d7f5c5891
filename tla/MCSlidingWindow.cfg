CONSTANTS
    INT_SIZE = 3
    Blocks = 2
    SeqNums <- MCSeqNums
SPECIFICATION Spec
INVARIANTS
    TypeOK
    RememberedInWindow
    NeverAcceptedAgain
PROPERTY ImplementsIdeal
CHECK_DEADLOCK FALSE
