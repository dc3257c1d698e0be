\* One thread, one timer: a timer re-armed after shutdown's stopPolling.
CONSTANTS
    th1 = th1  th2 = th2  tr1 = tr1  tr2 = tr2  tm1 = tm1  tm2 = tm2  NoFd = NoFd
    Threads <- MCThread1
    Transports = {}
    Timers <- MCTimer1
    Respinup = FALSE
    AcceptDuringShutdown = FALSE
    AcceptBeforeSpinup = FALSE
SPECIFICATION Spec
INVARIANT NoEpollError
CHECK_DEADLOCK FALSE
