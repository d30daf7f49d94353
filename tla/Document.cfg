CONSTANTS
    Lexemes <- SomeLexemes
    MaxLines = 3
    Texts <- SomeTexts
    Formatted <- SomeFormatted
    Stops <- SomeStops
    MaxLen = 2
    Spaces = 2
    MaxText = 8
SPECIFICATION AuthorsSpec
INVARIANTS
    NoTokenStraddlesNewline
    EveryByteInAToken
    LineStartsFollowBreaks
    LinesShareOutTokens
    RowsAreThePastedLines
    MarksAreThoseOfTheText
CHECK_DEADLOCK FALSE
