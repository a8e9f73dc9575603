SPECIFICATION FairSpec
CONSTANTS
    Words <- MCWords
    Texts <- MCTexts
    Shape <- MCShape
    Number <- MCNumber
    Address <- MCAddress
    None = None
    INT = 256
    IPV4 = 16
    MaxOptions = 5
    MaxArgs = 3
    SIGTERM = 15
INVARIANTS
    TypeOK
    BufferFits
    ListsInOrder
    EveryWordOnePart
    OneMessage
    UnknownReported
    LimitInRange
    HostIsNext
    CommandWhole
    NullOnlyInExec
PROPERTY Ends
