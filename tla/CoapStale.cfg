SPECIFICATION Spec
CONSTANTS
    Ids = {a1, a2, a3}
    Null = Null
    OutOfMemory = FALSE
    ContextMayFail = TRUE
    OtherFamilies = FALSE
INVARIANTS
    NothingReleasedTwice
CHECK_DEADLOCK FALSE
