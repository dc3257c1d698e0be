\* A route filtered on a query parameter and no verb.
CONSTANTS
    Calls <- MCCallsParamOnly
    Requests <- MCRequests
    MaxFan = 2
    MaxDepth = 2
SPECIFICATION Spec
INVARIANT DispatchAsReference
CHECK_DEADLOCK FALSE
