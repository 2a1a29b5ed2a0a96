SPECIFICATION Spec
CONSTANTS
    SectorBytes = 8
    Fat32Clusters = 4
    Images <- MCImages
    Names = {"A", "B"}
INVARIANTS
    CopiesTheFile
    PrintedComplete
    AnswersFromDirectory
PROPERTY
    CommandEnds
