CONSTANTS
    U16 = 5
    Sizes <- SmallSizes
    Constants <- SmallConstants
    Counts <- SmallCounts
    Lengths <- SmallLengths
SPECIFICATION Spec
INVARIANTS
    SlotsAreNumbered
    SlicesAreDisjoint
    OnlyWholeFilesAccepted
PROPERTY ParsingEnds
CHECK_DEADLOCK FALSE
