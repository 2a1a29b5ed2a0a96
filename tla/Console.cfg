SPECIFICATION ConsoleSpec
CONSTANTS
    MaxId = 3
    MaxTicks = 2
    Killable = {3}
    MaxNested = 2
    None = None
INVARIANTS
    InServiceOwned
PROPERTIES
    KeysTaken
    BeepFallsSilent
