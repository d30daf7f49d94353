CONSTANTS
    Attributes <- SomeTables
    Contents <- SomeContents
    Compiled <- SomeCompiled
    NameOf <- Names
SPECIFICATION CodeSpec
INVARIANTS
    OffsetsAscend
    TablesEndBetweenRows
    PrintedAsMeant
CHECK_DEADLOCK FALSE
