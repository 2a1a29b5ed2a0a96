SPECIFICATION Spec
CONSTANTS
    HeapStart = 12
    HeapMax = 48
    PageSize = 12
    TableSpan = 24
    Header = 4
    Align = 2
    MinPayload = 2
    Requests = {1, 4, 9}
    MaxFrames = 3
INVARIANTS
    ListOK
    Coalesced
    GrowsOnce
PROPERTY
    ImplementsAllocator
