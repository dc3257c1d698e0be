\* OPTIONS on the tree with parameter filters: Allow lists the filter strings.
CONSTANTS
    Calls <- MCCalls
    Requests <- MCOptionsRequests
    MaxFan = 6
    MaxDepth = 2
SPECIFICATION Spec
INVARIANT AllowAsReference
CHECK_DEADLOCK FALSE
