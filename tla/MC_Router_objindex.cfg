\* getObjectAs with index -2, documented as the second object from the end.
CONSTANTS
    Calls <- MCCallsObjIndex
    Requests <- MCRequests
    MaxFan = 2
    MaxDepth = 2
SPECIFICATION Spec
INVARIANT DispatchAsReference
CHECK_DEADLOCK FALSE
