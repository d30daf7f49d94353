CONSTANTS
    Codes <- SomeCodes
    CodeSizes <- Lengths
    Used <- Shapes
    Bounds <- SomeBounds
    PairCounts <- SomePairs
    Written <- SomeWritten
SPECIFICATION DecodeSpec
INVARIANTS
    InstructionsTile
    ListingIsTheProgram
PROPERTIES
    IsAWalk
    WalkEnds
CHECK_DEADLOCK FALSE
