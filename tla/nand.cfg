SPECIFICATION Spec
CONSTANTS
    Files = {f1}
    Infos = {i1, i2}
    Blocks <- BothBlocks
    MaxFd = 4
    None = None
SYMMETRY InfosAlike
INVARIANTS
    OldOrNew
    PublishedOwnImage
    SafeCloseHonest
