CONSTANTS
    U32 = 65536
    CommandLines <- MCCommandLines
    FileNames <- MCFileNames
    Numbers <- MCNumbers
    Disks <- MCDisks
    ParallelThreshold = 2
    DefaultPageRows = 90
SPECIFICATION Spec
INVARIANTS
    TotalsInArgumentOrder
    AllOrNothing
    PagesAreAPrefix
    BlameIsDeserved
CHECK_DEADLOCK FALSE
