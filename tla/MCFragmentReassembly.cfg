CONSTANTS
    Messages <- MCMessages
    FirstLength = 2
    SecondLength = 2
SPECIFICATION Spec
INVARIANTS
    TypeOK
    NoUnwrittenByte
    WholeTransmissionAssembles
    KeptOnlyIfIncomplete
CHECK_DEADLOCK FALSE
