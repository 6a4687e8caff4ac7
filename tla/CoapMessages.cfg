SPECIFICATION Spec
CONSTANTS
    Messages = {1, 2, 3}
    Sessions = {1}
    Owner <- OneSession
    NStart = 2
    MaxRetransmit = 1
    Timeouts = {2}
    Answers = {"ack", "rst", "separate", "echo"}
    WritesFail = TRUE
    OutOfMemory = TRUE
    Late = 1
INVARIANTS
    TypeOK
    QueuedOnce
    TimesKept
    CountsOutstanding
CHECK_DEADLOCK FALSE
