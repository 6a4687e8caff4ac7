SPECIFICATION PduSpec
CONSTANTS
    Numbers = {11}
    Values <- ShortValues
    Tokens <- LongTokens
    Payloads <- SomePayload
    Lists <- NoLists
    Filters = {{}}
    NonRepeatable = {}
    Chunk = 256
    MaxSize = 300
    Reallocs = 2
INVARIANTS
    OptionsBehindToken
VIEW WithoutCall
