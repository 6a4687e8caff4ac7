SPECIFICATION Spec
CONSTANTS
    Messages <- UserCommands
    RingCapacity = 2
    HasConsumer = TRUE
    ParsesAction = FALSE
    Executes = TRUE
    Reports <- TwoReports
    InitialStatus = "NORMAL_MODE"
    NetBound = 1
    OutBound = 2
INVARIANTS
    HandledAsSent
