SPECIFICATION Spec
CONSTANTS
    BLOCK_SIZE = 2
    MaxLen = 17
    Input <- Powers
    Unset = Unset
INVARIANTS InBounds CallerKeepsSums ResultIsScan
