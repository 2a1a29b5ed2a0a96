SPECIFICATION Spec
CONSTANTS
    IdentityTables = 4
    FirstHigh = 5
    NumEntries = 6
    TableSize = 4
    NumReserved = 2
    Programs <- MCPrograms
    Tasks = {1, 2}
    Reaping = FALSE
INVARIANTS
    TypeOK
    FramesHaveOneOwner
    NoFrameLeaked
PROPERTY
    AddressSpacesArePrivate
