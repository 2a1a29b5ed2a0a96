SPECIFICATION MouseSpec
CONSTANTS
    PixelWidth = 3
    PixelHeight = 2
    CursorSize = 2
    Shape <- MCShape
    Pictures = {p1, p2}
    Headers = {8, 56}
    Deltas = {1, 255}
    None = None
INVARIANTS
    InStep
    CursorShown
