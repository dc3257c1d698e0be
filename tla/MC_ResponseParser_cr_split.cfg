\* One response; with the threshold at the length of the status line up to
\* its CR, a read can end only before the status line or just after its CR.
CONSTANTS
    Responses <- MCOne
    StatusMin = 7
    MaxChunk = 30
    ClientReads = TRUE
SPECIFICATION Spec
INVARIANT NoParseError
CHECK_DEADLOCK FALSE
