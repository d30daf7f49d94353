CONSTANTS
    Files <- SomeFiles
    Object = "object"
    Classes <- SomeClasses
    FlagSets <- SomeViews
    CounterSize = 3
SPECIFICATION ListingSpec
INVARIANTS
    CountsAreThoseOfTheListing
    ListingIsComplete
    CommentsSayWhereNumbersLead
    SaidAsListed
    DeclarationsSayTheirFlags
CHECK_DEADLOCK FALSE
