SPECIFICATION Spec
CONSTANTS
    MaxId = 5
    MaxTicks = 2
    Killable <- MCCreated
INVARIANTS
    ListOK
PROPERTIES
    ImplementsScheduler
