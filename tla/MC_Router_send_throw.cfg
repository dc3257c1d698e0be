\* A handler that sends its response and then throws.
CONSTANTS
    Calls <- MCCallsSendThrow
    Requests <- MCRequests
    MaxFan = 2
    MaxDepth = 2
SPECIFICATION Spec
INVARIANT SingleResponse
CHECK_DEADLOCK FALSE
