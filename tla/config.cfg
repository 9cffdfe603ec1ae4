SPECIFICATION FairSpec
CONSTANTS
    Caller = {f1}
    Adapter = {hci0}
    Serial = {1, 2}
    Entry = {11, 12}
    Legacy = {11}
    Plant <- OneOfEach
    NetId = {1, 2}
    Mode = {"auto"}
    MaxChanges = 1
    MaxFlows = 2
INVARIANTS
    TypeOK
    UniqueIdsDistinct
    NoInquiryLeftBehind
PROPERTIES
    ConfirmedTopologyKept
    MismatchReported
    MatchClears
CHECK_DEADLOCK FALSE
