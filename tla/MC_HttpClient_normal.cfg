\* Two connections, four requests (one with a body), a two-slot queue;
\* connects succeed (at once or later), the kernel takes every write, the
\* server answers every request in order and keeps the connection open.
CONSTANTS
    c1 = c1  c2 = c2  r1 = r1  r2 = r2  r3 = r3  r4 = r4
    NoReq = NoReq  Nil = Nil
    Conns <- MCConns
    Requests <- MCRequests4
    WithBody <- MCWithBody
    QueueSize = 2
    SendSize = 1
    Rooms = {3}
    SyncConnect = {"pending", "ok"}
    AsyncConnect = {"up"}
    ServerFaults = {}
SPECIFICATION Spec
INVARIANT TypeOK PoolConsistent NoIdleWhileWaiting NoLostRequest DispatchInOrder NoCrash
PROPERTY RequestsComplete
CHECK_DEADLOCK FALSE
