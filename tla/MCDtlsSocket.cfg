SPECIFICATION Spec
CONSTANTS
    Datagrams <- EveryMeeting
    MaxDatagrams = 3
    MaxCloses = 3
    MaxErrors = 1
CHECK_DEADLOCK FALSE
INVARIANTS
    TypeOK
    HandleReleased
    OneEnd
    EventOrder
    NeverUnwatched
    SingleEndIsSafe
PROPERTIES
    Settles
    CloseCompletes
    SilentAfterEnd
