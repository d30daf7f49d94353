CONSTANTS
    U32 = 64
    LineWidths <- MCLineWidths
    MaxLines = 4
    RowsPerPage <- MCPageSizes
    Margins <- SmallMargins
    Ceilings <- MCCeilings
    AdvanceNum = 5
    AdvanceDen = 3
    LineHeight = 4
SPECIFICATION RenderSpec
INVARIANTS
    PaginationCoversEveryRowOnce
    ImagesFit
