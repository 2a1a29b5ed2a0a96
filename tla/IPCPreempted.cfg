SPECIFICATION Spec
CONSTANTS
    Tasks = {3, 4}
    NumMessages = 2
    NumMailboxes = 2
    MaxSends = 3
    Preemptive = TRUE
INVARIANT
    NoMessageLost
