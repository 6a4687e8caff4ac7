SPECIFICATION PduSpec
CONSTANTS
    Numbers = {11, 23, 35, 292}
    Values <- ShortValues
    Tokens <- ShortTokens
    Payloads <- SomePayload
    Lists <- QueryFirst
    Filters = {{}, {23}, {16, 11}}
    NonRepeatable = {16, 23, 35}
    Chunk = 4
    MaxSize = 7
    Reallocs = 2
INVARIANTS
    PduTypeOK
    NeverOverruns
    ReceiverAgrees
    TokenAgrees
PROPERTIES
    ImplementsList
VIEW WithoutCall
