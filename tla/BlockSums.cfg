SPECIFICATION FairSpec
CONSTANTS
    BLOCK_SIZE = 8
    MaxLen = 9
    Input <- Powers
    Prefix <- Sums
    Unset = Unset
INVARIANTS TypeOK NoRace
PROPERTIES ImplementsKernel GroupEnds
