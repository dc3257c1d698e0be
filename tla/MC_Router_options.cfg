\* OPTIONS on every path of up to four characters, the tree without parameter filters.
CONSTANTS
    Calls <- MCCallsVerbsOnly
    Requests <- MCOptionsRequests
    MaxFan = 6
    MaxDepth = 2
SPECIFICATION Spec
INVARIANT AllowAsReference
CHECK_DEADLOCK FALSE
