\* One response; a read may end inside the reason phrase of the status line.
CONSTANTS
    Responses <- MCOne
    StatusMin = 6
    MaxChunk = 30
    ClientReads = TRUE
SPECIFICATION Spec
INVARIANT NoParseError
CHECK_DEADLOCK FALSE
