CONSTANTS
    Base = 32
    Chance = 0
    NaN = NaN
    Infinity = Infinity
    Thrown = Thrown
    NumberLimit <- IntegerLimit
    Suites <- SomeSuites
    Datagrams <- AllDatagrams
    Exposed <- SomeExposed
    FirstNumbers <- SomeNumbers
    Changes <- SomeChanges
SPECIFICATION Spec
INVARIANTS
    TypeOK
    ReadsWhatWasWritten
    UnderstandsMessages
    HashedAsReceived
    OnlyAuthentic
    KeysApart
CHECK_DEADLOCK FALSE
