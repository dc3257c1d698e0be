\* Two responses on one connection, in reads that may span both (pipelined
\* or coalesced responses).
CONSTANTS
    Responses <- MCTwo
    StatusMin = 6
    MaxChunk = 30
    ClientReads = FALSE
SPECIFICATION Spec
INVARIANT CallbacksFollowStream
CHECK_DEADLOCK FALSE
