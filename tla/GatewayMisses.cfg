SPECIFICATION SystemSpec
CONSTANTS
    Messages <- ReportsOnly
    RingCapacity = 1
    HasConsumer = TRUE
    ParsesAction = FALSE
    Executes = FALSE
    Reports <- NoReports
    InitialStatus = "NOT_STATE"
    NetBound = 1
    OutBound = 0
    NodeHasConsumer = FALSE
    NodeReports <- OneReport
    NodeOutBound = 1
    UserCommands <- NoCommands
    MaxOrders = 0
    MaxAgain = 0
PROPERTIES
    NodeReportsArrive
CHECK_DEADLOCK FALSE
