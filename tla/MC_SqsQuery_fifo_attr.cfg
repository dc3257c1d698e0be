\* a receive whose reply carries MessageGroupId, an attribute the request
\* for All attributes gets from a FIFO queue: extractMessage throws.
CONSTANTS
    ServiceUri <- MCServiceUri
    QueueUris <- MCQueueUris
    Names = {"n1"}
    Handles = {"h1", "h2"}
    Principals = {"p1", "p2"}
    RightsIn = {0, 1, 6, 31}
    BatchLen = 2
    VisBatches <- MCVisBatchesOne
    Replies <- MCRepliesFifo
SPECIFICATION Spec
INVARIANT ReceiveAsReference
