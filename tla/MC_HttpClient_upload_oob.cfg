\* Two connections, three requests, two of them with a body, early answers
\* and EAGAIN: a request can follow one whose body was never sent, and that
\* body's write result then advances the new request's upload.
CONSTANTS
    c1 = c1  c2 = c2  r1 = r1  r2 = r2  r3 = r3  r4 = r4
    NoReq = NoReq  Nil = Nil
    Conns <- MCConns
    Requests <- MCRequests
    WithBody <- MCWithBody2
    QueueSize = 2
    SendSize = 1
    Rooms = {0, 1, 3}
    SyncConnect = {"pending"}
    AsyncConnect = {"up"}
    ServerFaults = {"early"}
SPECIFICATION Spec
INVARIANT UploadInBounds
CHECK_DEADLOCK FALSE
