CONSTANTS
    U32 = 1024
    Main = Main
    Other = Other
    Threads = {Main, Other}
    Requests <- MCRequests
    Capacities <- MCCapacities
    Fonts <- MCFonts
    DefaultPageRows = 90
    MessageLength <- MCMessageLength
    CounterSize = 2
SPECIFICATION Spec
INVARIANTS
    LastErrorIsOwn
    BufferHoldsOnlyWholeImages
    CountsSurviveFailedRender
PROPERTIES
    CallsSettle
    ImplementsService
