SPECIFICATION MCSpec
CONSTANTS
    ClickMin = 1
    ClickMax = 3
    Hold = 4
    Forget = 3
    Clicks = 3
    UnitWrap = 18
    Width = 64
    Gap = 1
    Horizon = 21
    QueueLength = 2
    BufferSize = 3
    ChunkSizes = {1, 2}
    MaxBytes = 6
    HandlerSetsStatus = TRUE
    InitialStatus = "NOT_STATE"
    FotaBlinks = FALSE
    AgeBound = 12
INVARIANTS
    ButtonTypeOK
    ClicksMeanClicks
    UartTypeOK
    ReadNeverWaits
    BytesInOrder
    EventsMatchBytes
    TypeOK
    StatusAgrees
    LedFollows
    DarkWhenOffline
PROPERTIES
    HoldMeansHeld
    HoldIsObeyed
    ReceptionResumes
    Reconnects
    Blinks
CHECK_DEADLOCK FALSE
