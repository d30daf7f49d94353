CONSTANTS
    Outputs <- MCOutputs
    Headings = {TRUE, FALSE}
SPECIFICATION DiagnosticSpec
INVARIANT ShownAsItIs
CHECK_DEADLOCK FALSE
