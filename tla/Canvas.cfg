CONSTANTS
    Width = 9
    Height = 8
    Kinds = 2
    Levels = 3
    FullCoverage = 9
    Coverages <- MCCoverages
    Radii <- MCRadii
    Theme <- MCTheme
    Background = "dark"
SPECIFICATION CanvasSpec
CONSTRAINT OneMark
INVARIANTS
    EveryPixelIsItsInk
    CornersAreRound
CHECK_DEADLOCK FALSE
