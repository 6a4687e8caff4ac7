SPECIFICATION Spec
CONSTANTS
    Messages = {1, 2}
    Sessions = {1}
    Owner <- OneSession
    NStart = 1
    MaxRetransmit = 1
    Timeouts = {2}
    Answers = {"ack"}
    WritesFail = TRUE
    OutOfMemory = FALSE
    Late = 1
INVARIANTS
    DelayedReleased
CHECK_DEADLOCK FALSE
