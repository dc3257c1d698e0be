\* Three responses on one connection, fed in reads of any length that never
\* span two responses (HttpClient sends the next request only after onDone).
CONSTANTS
    Responses <- MCThree
    StatusMin = 6
    MaxChunk = 40
    ClientReads = TRUE
SPECIFICATION Spec
INVARIANT TypeOK CallbacksFollowStream ParseComplete
CHECK_DEADLOCK FALSE
