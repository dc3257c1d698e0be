\* The route tree of MCCalls; GET, POST and OPTIONS on every path of up to
\* four characters, with and without the query parameter and the header.
CONSTANTS
    Calls <- MCCalls
    Requests <- MCRequests
    MaxFan = 6
    MaxDepth = 2
SPECIFICATION Spec
INVARIANT TypeOK DispatchAsReference ObjectsReleased SingleResponse
CHECK_DEADLOCK FALSE
