SPECIFICATION Spec
CONSTANTS
    VFS_MAX_NODES = 5
    Paths <- MCPaths
    Buffers = {b1, b2}
    Chunks = {c}
    MaxSize = 2
    MaxFiles = 3
SYMMETRY MCSymmetry
INVARIANTS
    TypeOK
    TreeOK
    BuffersOwnedOnce
    SelectionInRange
    ListingFresh
PROPERTY
    ImplementsFileStore
