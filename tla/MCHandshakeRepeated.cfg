CONSTANTS
    INT_SIZE = 8
    Blocks = 2
    NullKeys = NullKeys
    Undefined = Undefined
    Garbled = Garbled
    SessionKeys = SessionKeys
    MTU = 1
    d1 = d1
    d2 = d2
    ApplicationData = {d1, d2}
    Scenarios <- Repeated
SPECIFICATION Spec
INVARIANTS
    NoCompleteFlightWaits
CHECK_DEADLOCK FALSE
