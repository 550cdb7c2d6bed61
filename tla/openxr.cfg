SPECIFICATION Spec
CONSTANTS
    None = None
    UnknownTag = UnknownTag
    Tags <- MCTags
    Immersive <- MCImmersive
    Tokens <- MCTokens
INVARIANTS
    HandshakeHonest
    ImageHeldWhileWritable
    NoOrphanedJob
    ShowsOwnImage
    NothingUsedAfterTeardown
PROPERTIES
    NobodyStuck
