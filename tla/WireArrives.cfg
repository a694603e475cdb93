SPECIFICATION Spec
CONSTANTS
    Base = 4
    SizeLength = 2
    IdLength = 1
    NameLength = 2
    KeyLength = 3
    PacketSize = 10
    HeaderSize = 3
    RequestSize = 2
    LongestName = 3
    LongestData = 3
    Id <- MCId
    Key <- MCKey
    UserNames <- MCUserNames
    FileNames <- MCNames
    Data <- MCData
CHECK_DEADLOCK FALSE
INVARIANTS
    TypeOK
    FittingArrive
    CrcArrives
