\* Two connections, three requests (one with a body) and every failure the
\* code meets: connects that fail at once or later (ENETUNREACH, ECONNREFUSED),
\* a kernel that refuses writes (EAGAIN), a server that answers before the
\* body, closes (FIN) or resets (RST).  Checks that the connection pool's
\* bookkeeping survives all of them.
CONSTANTS
    c1 = c1  c2 = c2  r1 = r1  r2 = r2  r3 = r3  r4 = r4
    NoReq = NoReq  Nil = Nil
    Conns <- MCConns
    Requests <- MCRequests
    WithBody <- MCWithBody
    QueueSize = 2
    SendSize = 1
    Rooms = {0, 1, 3}
    SyncConnect = {"pending", "ok", "fail"}
    AsyncConnect = {"up", "unreach", "refused"}
    ServerFaults = {"early", "fin", "rst"}
SPECIFICATION Spec
INVARIANT PoolConsistent NoIdleWhileWaiting
PROPERTY ImplementsRequestService
CHECK_DEADLOCK FALSE
