CONSTANTS
    Messages <- MCMessages
    FirstLength = 3
    SecondLength = 2
SPECIFICATION Spec
INVARIANTS
    WholeTransmissionAssembles
CHECK_DEADLOCK FALSE
