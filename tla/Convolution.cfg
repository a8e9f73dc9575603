SPECIFICATION Spec
CONSTANTS
    BLOCK_SIZE = 3
    Sizes <- SmallSizes
    MaxMissing = 1
    Unset = Unset
INVARIANTS InBounds NoRace ResultIsConvolution
