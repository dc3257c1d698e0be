--------------------------- MODULE EndpointLifecycle ---------------------------
(***************************************************************************)
(* What EndpointBase promises the code that owns it, without threads,      *)
(* epoll or semaphores: transports are accepted only while the endpoint    *)
(* runs; shutdown() stops every periodic timer and waits for every         *)
(* transport to close before it returns, and once called it does return.   *)
(* The one way out besides returning is the death of the process while it *)
(* stops (an epoll_ctl error is thrown on an event thread).                *)
(***************************************************************************)
EXTENDS FiniteSets

CONSTANTS Transports, Timers

VARIABLES phase,  \* created, running, stopping, stopped or dead
          open,   \* the transports the endpoint holds
          timers  \* the periodic timers that fire

vars == <<phase, open, timers>>

Init == phase = "created" /\ open = {} /\ timers = {}

\* addPeriodic, whenever shutdown() is not running.
AddTimer(tm) ==
    /\ phase \in {"created", "running", "stopped"}
    /\ tm \notin timers
    /\ timers' = timers \cup {tm}
    /\ UNCHANGED <<phase, open>>

\* spinup, on a new endpoint or after shutdown() returned.
Start ==
    /\ phase \in {"created", "stopped"}
    /\ phase' = "running"
    /\ UNCHANGED <<open, timers>>

\* A transport is accepted: only while running.
Open(tr) ==
    /\ phase = "running"
    /\ tr \notin open
    /\ open' = open \cup {tr}
    /\ UNCHANGED <<phase, timers>>

\* A transport is closed, by its peer or by shutdown()'s kill.
Close(tr) ==
    /\ phase \in {"running", "stopping"}
    /\ tr \in open
    /\ open' = open \ {tr}
    /\ UNCHANGED <<phase, timers>>

\* shutdown() is called.
Stop ==
    /\ phase \in {"created", "running", "stopped"}
    /\ phase' = "stopping"
    /\ UNCHANGED <<open, timers>>

\* shutdown() stops one periodic timer.
StopTimer(tm) ==
    /\ phase = "stopping"
    /\ tm \in timers
    /\ timers' = timers \ {tm}
    /\ UNCHANGED <<phase, open>>

\* shutdown() returns: nothing is open and no timer fires.
Stopped ==
    /\ phase = "stopping"
    /\ open = {} /\ timers = {}
    /\ phase' = "stopped"
    /\ UNCHANGED <<open, timers>>

\* The process dies while shutdown() runs.
Die ==
    /\ phase = "stopping"
    /\ phase' = "dead"
    /\ UNCHANGED <<open, timers>>

Next ==
    \/ \E tm \in Timers : AddTimer(tm) \/ StopTimer(tm)
    \/ \E tr \in Transports : Open(tr) \/ Close(tr)
    \/ Start \/ Stop \/ Stopped \/ Die

\* Once shutdown() is called it keeps closing transports and stopping
\* timers until it can return.
Fairness ==
    /\ \A tr \in Transports : WF_vars(phase = "stopping" /\ Close(tr))
    /\ \A tm \in Timers : WF_vars(StopTimer(tm))
    /\ WF_vars(Stopped)

Spec == Init /\ [][Next]_vars /\ Fairness

=============================================================================
