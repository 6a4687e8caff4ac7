SPECIFICATION SystemSpec
CONSTANTS
    Messages <- SystemMessages
    RingCapacity = 1
    HasConsumer = TRUE
    ParsesAction = FALSE
    Executes = FALSE
    Reports <- NoReports
    InitialStatus = "NOT_STATE"
    NetBound = 1
    OutBound = 0
    NodeHasConsumer = TRUE
    NodeReports <- OneReport
    NodeOutBound = 1
    UserCommands <- Restart
    MaxOrders = 1
    MaxAgain = 1
INVARIANTS
    SystemTypeOK
    RestartsOnce
PROPERTIES
    GatewayLearns
