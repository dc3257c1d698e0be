\* Every SqsApi method with two queue URIs (one outside serviceUri), two
\* handles, two principals, rights of none, one, two and all five bits,
\* batches of up to two entries (one for changeMessageVisibilityBatch) and
\* replies of zero, one and two messages.
CONSTANTS
    ServiceUri <- MCServiceUri
    QueueUris <- MCQueueUris
    Names = {"n1"}
    Handles = {"h1", "h2"}
    Principals = {"p1", "p2"}
    RightsIn = {0, 1, 6, 31}
    BatchLen = 2
    VisBatches <- MCVisBatchesOne
    Replies <- MCReplies
SPECIFICATION Spec
INVARIANT QueryAsReference ReceiveAsReference
