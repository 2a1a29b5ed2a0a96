SPECIFICATION Spec
CONSTANTS
    Tasks = {3, 4}
    NumMessages = 2
    NumMailboxes = 2
    MaxSends = 4
    Preemptive = FALSE
INVARIANTS
    NoMessageLost
    PoolConserved
PROPERTY
    ImplementsMessageQueues
