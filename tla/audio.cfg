SPECIFICATION Spec
CONSTANTS
    Bufs = {b1, b2}
    None = None
    MaxMixes = 2
    MaxResume = 1
    MaxBacklog = 1
    MaxBlocksPerTick = 2
INVARIANTS
    MixOwnsItsState
    ReadsMailTimeAux
    OneTickAtATime
PROPERTIES
    AuxPublishedOnce
    AudioGetsOn
