\* changeMessageVisibilityBatch of two entries: its counter is never
\* incremented, so both entries are number 1.
CONSTANTS
    ServiceUri <- MCServiceUri
    QueueUris <- MCQueueUris
    Names = {"n1"}
    Handles = {"h1", "h2"}
    Principals = {"p1", "p2"}
    RightsIn = {0, 1, 6, 31}
    BatchLen = 2
    VisBatches <- MCVisBatchesTwo
    Replies <- MCReplies
SPECIFICATION Spec
INVARIANT QueryAsReference
