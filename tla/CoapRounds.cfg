SPECIFICATION FairSpec
CONSTANTS
    Ids = {a1, a2, a3}
    Null = Null
    OutOfMemory = TRUE
    ContextMayFail = TRUE
    OtherFamilies = TRUE
INVARIANTS
    TypeOK
    NothingLeft
    QueueSafe
PROPERTIES
    KeepsPosting
CHECK_DEADLOCK FALSE
