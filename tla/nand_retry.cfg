SPECIFICATION Spec
CONSTANTS
    Files = {f1}
    Infos = {i1}
    Blocks <- BothBlocks
    MaxFd = 2
    None = None
INVARIANTS
    CloseHonest
