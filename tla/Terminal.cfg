SPECIFICATION Spec
CONSTANTS
    Printers = {1, 2}
    Width = 3
    Height = 2
    TabStop = 2
    MaxRow = 3
    MaxColumn = 4
INVARIANT
    OnScreen
