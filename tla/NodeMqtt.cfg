SPECIFICATION FairSpec
CONSTANTS
    Messages <- OneReportKind
    RingCapacity = 2
    HasConsumer = FALSE
    ParsesAction = TRUE
    Executes = TRUE
    Reports <- OneReport
    InitialStatus = "NOT_STATE"
    NetBound = 1
    OutBound = 1
PROPERTIES
    ReceivedIsHandled
CHECK_DEADLOCK FALSE
