\* Two threads, two transports, two timers, spinup only once, no transport
\* registered while shutdown runs.
CONSTANTS
    th1 = th1  th2 = th2  tr1 = tr1  tr2 = tr2  tm1 = tm1  tm2 = tm2  NoFd = NoFd
    Threads <- MCThreads
    Transports <- MCTransports
    Timers <- MCTimers
    Respinup = FALSE
    AcceptDuringShutdown = FALSE
    AcceptBeforeSpinup = FALSE
SPECIFICATION Spec
INVARIANT TypeOK TransportAccounting
PROPERTY ImplementsLifecycle
CHECK_DEADLOCK FALSE
