\* A transport registered before spinup, then shutdown with no event thread.
CONSTANTS
    th1 = th1  th2 = th2  tr1 = tr1  tr2 = tr2  tm1 = tm1  tm2 = tm2  NoFd = NoFd
    Threads <- MCThreads
    Transports <- MCTransports
    Timers = {}
    Respinup = FALSE
    AcceptDuringShutdown = FALSE
    AcceptBeforeSpinup = TRUE
SPECIFICATION Spec
PROPERTY ShutdownCompletes
CHECK_DEADLOCK FALSE
