\* The hostile bounds with NoSocketLeak: a reset, an unreachable host or a
\* connect failing inside a callback ends with a socket descriptor that
\* nothing will close (handleDisconnection, connect over DISCONNECTING).
CONSTANTS
    c1 = c1  c2 = c2  r1 = r1  r2 = r2  r3 = r3  r4 = r4
    NoReq = NoReq  Nil = Nil
    Conns <- MCConns
    Requests <- MCRequests
    WithBody <- MCWithBody
    QueueSize = 2
    SendSize = 1
    Rooms = {0, 1, 3}
    SyncConnect = {"pending", "ok", "fail"}
    AsyncConnect = {"up", "unreach", "refused"}
    ServerFaults = {"early", "fin", "rst"}
SPECIFICATION Spec
INVARIANT NoSocketLeak
CHECK_DEADLOCK FALSE
