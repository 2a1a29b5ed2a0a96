SPECIFICATION DesktopSpec
CONSTANTS
    Rows = 5
    MaxInput = 2
    Services = 2
    MaxPrinted = 12
INVARIANTS
    KeysHaveTarget
    TermShowsLast
