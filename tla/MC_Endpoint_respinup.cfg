\* spinup after shutdown: timers added then fire once.
CONSTANTS
    th1 = th1  th2 = th2  tr1 = tr1  tr2 = tr2  tm1 = tm1  tm2 = tm2  NoFd = NoFd
    Threads <- MCThreads
    Transports = {}
    Timers <- MCTimer1
    Respinup = TRUE
    AcceptDuringShutdown = FALSE
    AcceptBeforeSpinup = FALSE
SPECIFICATION Spec
INVARIANT TimerRearmed
CHECK_DEADLOCK FALSE
