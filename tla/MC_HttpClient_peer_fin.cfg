CONSTANTS
    c1 = c1  c2 = c2  r1 = r1  r2 = r2  r3 = r3  r4 = r4
    NoReq = NoReq  Nil = Nil
    Conns <- MCConns
    Requests <- MCRequests
    WithBody <- MCWithBody
    QueueSize = 2
    SendSize = 1
    Rooms = {3}
    SyncConnect = {"pending"}
    AsyncConnect = {"up"}
    ServerFaults = {"fin"}
SPECIFICATION Spec
PROPERTY RequestsComplete
CHECK_DEADLOCK FALSE
