------------------------------ MODULE Endpoint ------------------------------
(***************************************************************************)
(* EndpointBase (src/service/sqs.cc, the text of endpoint.cc): a pool of   *)
(* event threads polling one epoll set in one-shot mode, the transports    *)
(* registered with it, periodic timers, and the shutdown sequence.         *)
(*                                                                         *)
(* An epoll registration is "none" (not in the set), "armed" (in the set,  *)
(* able to report) or "fired" (reported once, disabled until re-armed by   *)
(* restartFdOneShot).  A transport's own handling (TransportBase, not      *)
(* under src/) is abstracted to what the endpoint sees of it: once it has  *)
(* a queued closeWhenHandlerFinished or its peer has hung up, its next     *)
(* event closes it through notifyCloseTransport.                           *)
(***************************************************************************)
EXTENDS Naturals, FiniteSets

CONSTANTS
    Threads,              \* the threads spinup creates
    Transports,           \* transports, each registered at most once
    Timers,               \* periodic timers addPeriodic may create
    Respinup,             \* may spinup be called after a shutdown?
    AcceptDuringShutdown, \* may transports register while shutdown runs?
    AcceptBeforeSpinup,   \* may transports register before spinup (an acceptor
                          \* thread of listen() runs apart from the event threads)?
    NoFd                  \* no timer: the tfd of a thread not re-arming one

ASSUME Transports \cap Timers = {} /\ Respinup \in BOOLEAN
ASSUME AcceptDuringShutdown \in BOOLEAN /\ AcceptBeforeSpinup \in BOOLEAN /\ NoFd \notin Timers

Fds == Transports \cup Timers

VARIABLES
    reg,            \* epoll registration of every fd
    mapping,        \* transportMapping
    opened,         \* transports registered so far
    killed,         \* transports with a queued closeWhenHandlerFinished
    hungUp,         \* transports whose peer has closed
    numTransports,  \* numTransports
    idle,           \* the semaphore idle
    added,          \* timers addPeriodic has created
    tpc,            \* event thread: off, start, loop, rearm
    tfd,            \* the timer a thread in rearm is about to re-arm
    threadsActive,  \* threadsActive_
    shutdown_,      \* shutdown_
    disallowTimers, \* disallowTimers_
    cpc,            \* where the controlling thread is
    toStop,         \* TIMER entries of dataSetCopy not yet stopPolling'd
    crashed         \* an epoll_ctl failure ended the process

vars == <<reg, mapping, opened, killed, hungUp, numTransports, idle, added,
          tpc, tfd, threadsActive, shutdown_, disallowTimers, cpc, toStop, crashed>>

\* Steps of EndpointBase::shutdown() the controlling thread is at.
ShutdownPhases == {"stopTimers", "idle", "transports", "threads", "join"}

TypeOK ==
    /\ reg \in [Fds -> {"none", "armed", "fired"}]
    /\ mapping \subseteq opened /\ opened \subseteq Transports
    /\ killed \subseteq Transports /\ hungUp \subseteq Transports
    /\ numTransports \in 0..Cardinality(Transports)
    /\ idle \in 0..1
    /\ added \subseteq Timers
    /\ tpc \in [Threads -> {"off", "start", "loop", "rearm"}]
    /\ tfd \in [Threads -> Timers \cup {NoFd}]
    /\ threadsActive \in 0..Cardinality(Threads)
    /\ shutdown_ \in BOOLEAN /\ disallowTimers \in BOOLEAN
    /\ cpc \in {"init", "up", "down"} \cup ShutdownPhases
    /\ toStop \subseteq Timers
    /\ crashed \in BOOLEAN

\* The constructor: only the wakeup fd is registered; idle(1).
Init ==
    /\ reg = [f \in Fds |-> "none"]
    /\ mapping = {} /\ opened = {} /\ killed = {} /\ hungUp = {}
    /\ numTransports = 0
    /\ idle = 1
    /\ added = {}
    /\ tpc = [t \in Threads |-> "off"]
    /\ tfd = [t \in Threads |-> NoFd]
    /\ threadsActive = 0
    /\ shutdown_ = FALSE /\ disallowTimers = FALSE
    /\ cpc = "init"
    /\ toStop = {}
    /\ crashed = FALSE

-----------------------------------------------------------------------------
(* Operations of the threads that use the endpoint.                         *)

\* addPeriodic: timerfd_create, timerfd_settime, startPolling (one-shot).
AddPeriodic(tm) ==
    /\ ~crashed
    /\ cpc \in {"init", "up", "down"}
    /\ tm \notin added
    /\ added' = added \cup {tm}
    /\ reg' = [reg EXCEPT ![tm] = "armed"]
    /\ UNCHANGED <<mapping, opened, killed, hungUp, numTransports, idle, tpc,
                   tfd, threadsActive, shutdown_, disallowTimers, cpc, toStop, crashed>>

\* spinup: clears shutdown_, zeroes threadsActive_, creates the threads.
\* disallowTimers_ is left as it is.
Spinup ==
    /\ ~crashed
    /\ \/ cpc = "init"
       \/ Respinup /\ cpc = "down"
    /\ shutdown_' = FALSE
    /\ threadsActive' = 0
    /\ tpc' = [t \in Threads |-> "start"]
    /\ cpc' = "up"
    /\ UNCHANGED <<reg, mapping, opened, killed, hungUp, numTransports, idle,
                   added, tfd, disallowTimers, toStop, crashed>>

\* notifyNewTransport: insert into transportMapping, startPolling,
\* numTransports++ and acquire idle when it becomes 1.  Transports are
\* registered by accept handlers while the endpoint is up; with
\* AcceptDuringShutdown they may also be registered while shutdown runs,
\* and with AcceptBeforeSpinup before the event threads exist.
NotifyNewTransport(tr) ==
    /\ ~crashed
    /\ \/ cpc = "up"
       \/ AcceptDuringShutdown /\ cpc \in ShutdownPhases
       \/ AcceptBeforeSpinup /\ cpc = "init"
    /\ tr \notin opened
    /\ numTransports = 0 => idle = 1
    /\ opened' = opened \cup {tr}
    /\ mapping' = mapping \cup {tr}
    /\ reg' = [reg EXCEPT ![tr] = "armed"]
    /\ numTransports' = numTransports + 1
    /\ idle' = IF numTransports' = 1 THEN idle - 1 ELSE idle
    /\ UNCHANGED <<killed, hungUp, added, tpc, tfd, threadsActive, shutdown_,
                   disallowTimers, cpc, toStop, crashed>>

\* The peer of a registered transport closes its end.
PeerClose(tr) ==
    /\ ~crashed
    /\ tr \in mapping \ hungUp
    /\ hungUp' = hungUp \cup {tr}
    /\ UNCHANGED <<reg, mapping, opened, killed, numTransports, idle, added,
                   tpc, tfd, threadsActive, shutdown_, disallowTimers, cpc,
                   toStop, crashed>>

-----------------------------------------------------------------------------
(* The event threads: runEventThread and handleEpollEvent.                  *)

\* runEventThread: threadsActive_++ on entry.
ThreadStart(t) ==
    /\ ~crashed
    /\ tpc[t] = "start"
    /\ tpc' = [tpc EXCEPT ![t] = "loop"]
    /\ threadsActive' = threadsActive + 1
    /\ UNCHANGED <<reg, mapping, opened, killed, hungUp, numTransports, idle,
                   added, tfd, shutdown_, disallowTimers, cpc, toStop,
                   crashed>>

\* runEventThread: the loop `while (!shutdown_)` ends; threadsActive_--.
ThreadExit(t) ==
    /\ ~crashed
    /\ tpc[t] = "loop"
    /\ shutdown_
    /\ tpc' = [tpc EXCEPT ![t] = "off"]
    /\ threadsActive' = threadsActive - 1
    /\ UNCHANGED <<reg, mapping, opened, killed, hungUp, numTransports, idle,
                   added, tfd, shutdown_, disallowTimers, cpc, toStop,
                   crashed>>

\* Mutant: the semaphore is released on every close, not only the last.
NotifyCloseTransport_releaseAlways(tr) ==
    /\ reg' = [reg EXCEPT ![tr] = "none"]
    /\ mapping' = mapping \ {tr}
    /\ numTransports' = numTransports - 1
    /\ idle' = idle + 1

\* Mutant: the transport is erased without stopPolling.
NotifyCloseTransport_noStop(tr) ==
    /\ reg' = [reg EXCEPT ![tr] = "fired"]
    /\ mapping' = mapping \ {tr}
    /\ numTransports' = numTransports - 1
    /\ idle' = IF numTransports' = 0 THEN idle + 1 ELSE idle

\* notifyCloseTransport, called from the transport's own handler:
\* stopPolling, erase from transportMapping, zombie_ = true,
\* numTransports--, release idle when it reaches 0.
NotifyCloseTransport(tr) ==
    /\ reg' = [reg EXCEPT ![tr] = "none"]
    /\ mapping' = mapping \ {tr}
    /\ numTransports' = numTransports - 1
    /\ idle' = IF numTransports' = 0 THEN idle + 1 ELSE idle

\* handleEpollEvent, TRANSPORT: handleTransportEvent runs the transport's
\* handler, which closes it (it has a queued kill or its peer hung up);
\* the transport is then a zombie, so restartPolling is skipped.
ThreadTransport(t, tr) ==
    /\ ~crashed
    /\ tpc[t] = "loop" /\ ~shutdown_
    /\ reg[tr] = "armed"
    /\ tr \in killed \cup hungUp
    /\ NotifyCloseTransport(tr)
    /\ UNCHANGED <<opened, killed, hungUp, added, tpc, tfd, threadsActive,
                   shutdown_, disallowTimers, cpc, toStop, crashed>>

\* handleEpollEvent, TIMER: handleTimerEvent reads the timerfd and runs the
\* callback; then `if (!disallowTimers_) restartPolling(...)`.  The test
\* and the re-arm are two steps: the re-arm is ThreadRearm.
ThreadTimer(t, tm) ==
    /\ ~crashed
    /\ tpc[t] = "loop" /\ ~shutdown_
    /\ reg[tm] = "armed"
    /\ reg' = [reg EXCEPT ![tm] = "fired"]
    /\ tpc' = [tpc EXCEPT ![t] = IF disallowTimers THEN "loop" ELSE "rearm"]
    /\ tfd' = [tfd EXCEPT ![t] = IF disallowTimers THEN NoFd ELSE tm]
    /\ UNCHANGED <<mapping, opened, killed, hungUp, numTransports, idle, added,
                   threadsActive, shutdown_, disallowTimers, cpc, toStop, crashed>>

\* restartPolling -> restartFdOneShot: epoll_ctl(EPOLL_CTL_MOD).  On an fd
\* no longer in the epoll set it fails with ENOENT, which is fatal.
ThreadRearm(t) ==
    /\ ~crashed
    /\ tpc[t] = "rearm"
    /\ IF reg[tfd[t]] = "none"
          THEN /\ crashed' = TRUE
               /\ UNCHANGED <<reg, tpc, tfd>>
          ELSE /\ reg' = [reg EXCEPT ![tfd[t]] = "armed"]
               /\ tpc' = [tpc EXCEPT ![t] = "loop"]
               /\ tfd' = [tfd EXCEPT ![t] = NoFd]
               /\ UNCHANGED crashed
    /\ UNCHANGED <<mapping, opened, killed, hungUp, numTransports, idle, added,
                   threadsActive, shutdown_, disallowTimers, cpc, toStop>>

-----------------------------------------------------------------------------
(* EndpointBase::shutdown(), one action per step it waits at.               *)

\* Copy epollDataSet; under the lock queue closeWhenHandlerFinished on every
\* transport in transportMapping; set disallowTimers_.
ShutdownBegin ==
    /\ ~crashed
    /\ cpc \in {"init", "up", "down"}
    /\ killed' = killed \cup mapping
    /\ disallowTimers' = TRUE
    /\ toStop' = {tm \in Timers : reg[tm] # "none"}
    /\ cpc' = IF toStop' = {} THEN "idle" ELSE "stopTimers"
    /\ UNCHANGED <<reg, mapping, opened, hungUp, numTransports, idle, added,
                   tpc, tfd, threadsActive, shutdown_, crashed>>

\* Mutant: the entry is erased from the copy but its fd stays polled.
ShutdownStopTimer_noRemove(tm) ==
    /\ ~crashed
    /\ cpc = "stopTimers"
    /\ tm \in toStop
    /\ toStop' = toStop \ {tm}
    /\ cpc' = IF toStop' = {} THEN "idle" ELSE "stopTimers"
    /\ UNCHANGED <<reg, mapping, opened, killed, hungUp, numTransports, idle,
                   added, tpc, tfd, threadsActive, shutdown_, disallowTimers,
                   crashed>>

\* stopPolling of one TIMER entry of the copy: removeFd, erase.
ShutdownStopTimer(tm) ==
    /\ ~crashed
    /\ cpc = "stopTimers"
    /\ tm \in toStop
    /\ reg' = [reg EXCEPT ![tm] = "none"]
    /\ toStop' = toStop \ {tm}
    /\ cpc' = IF toStop' = {} THEN "idle" ELSE "stopTimers"
    /\ UNCHANGED <<mapping, opened, killed, hungUp, numTransports, idle, added,
                   tpc, tfd, threadsActive, shutdown_, disallowTimers,
                   crashed>>

\* sleepUntilIdle: idle.acquire succeeds, then idle.release.
ShutdownIdle ==
    /\ ~crashed
    /\ cpc = "idle"
    /\ idle = 1
    /\ cpc' = "transports"
    /\ UNCHANGED <<reg, mapping, opened, killed, hungUp, numTransports, idle,
                   added, tpc, tfd, threadsActive, shutdown_, disallowTimers,
                   toStop, crashed>>

\* Wait for numTransports == 0, then shutdown_ = true and wakeup.signal().
ShutdownTransports ==
    /\ ~crashed
    /\ cpc = "transports"
    /\ numTransports = 0
    /\ shutdown_' = TRUE
    /\ cpc' = "threads"
    /\ UNCHANGED <<reg, mapping, opened, killed, hungUp, numTransports, idle,
                   added, tpc, tfd, threadsActive, disallowTimers, toStop, crashed>>

\* Wait for threadsActive_ == 0, then close the copied timer fds.
ShutdownThreads ==
    /\ ~crashed
    /\ cpc = "threads"
    /\ threadsActive = 0
    /\ cpc' = "join"
    /\ UNCHANGED <<reg, mapping, opened, killed, hungUp, numTransports, idle,
                   added, tpc, tfd, threadsActive, shutdown_, disallowTimers,
                   toStop, crashed>>

\* eventThreads->join_all(), then wakeup.read(); shutdown returns.
ShutdownJoin ==
    /\ ~crashed
    /\ cpc = "join"
    /\ \A t \in Threads : tpc[t] = "off"
    /\ cpc' = "down"
    /\ UNCHANGED <<reg, mapping, opened, killed, hungUp, numTransports, idle,
                   added, tpc, tfd, threadsActive, shutdown_, disallowTimers,
                   toStop, crashed>>

ThreadStep(t) ==
    \/ ThreadStart(t)
    \/ ThreadExit(t)
    \/ \E tr \in Transports : ThreadTransport(t, tr)
    \/ \E tm \in Timers : ThreadTimer(t, tm)
    \/ ThreadRearm(t)

ShutdownStep ==
    \/ ShutdownBegin
    \/ \E tm \in Timers : ShutdownStopTimer(tm)
    \/ ShutdownIdle
    \/ ShutdownTransports
    \/ ShutdownThreads
    \/ ShutdownJoin

Next ==
    \/ \E tm \in Timers : AddPeriodic(tm)
    \/ Spinup
    \/ \E tr \in Transports : NotifyNewTransport(tr) \/ PeerClose(tr)
    \/ \E t \in Threads : ThreadStep(t)
    \/ ShutdownStep

\* The event threads spin (handleEvents with a zero timeout) and so keep
\* taking steps; the controlling thread's waits return once their condition
\* holds.  Nothing obliges a caller to add timers or transports, to call
\* spinup or shutdown, or a peer to close.
Fairness ==
    /\ \A t \in Threads :
          /\ WF_vars(ThreadStart(t)) /\ WF_vars(ThreadExit(t))
          /\ WF_vars(ThreadRearm(t))
          /\ WF_vars(\E tr \in Transports : ThreadTransport(t, tr))
    /\ WF_vars(\E tm \in Timers : ShutdownStopTimer(tm))
    /\ WF_vars(ShutdownIdle) /\ WF_vars(ShutdownTransports)
    /\ WF_vars(ShutdownThreads) /\ WF_vars(ShutdownJoin)

Spec == Init /\ [][Next]_vars /\ Fairness

-----------------------------------------------------------------------------
(* Properties.                                                              *)

\* numTransports, the idle semaphore and the epoll set agree with
\* transportMapping: notifyNewTransport and notifyCloseTransport keep the
\* counter, the semaphore and the registrations in step.
TransportAccounting ==
    /\ numTransports = Cardinality(mapping)
    /\ idle = IF mapping = {} THEN 1 ELSE 0
    /\ \A tr \in Transports : reg[tr] # "none" <=> tr \in mapping

\* While the endpoint is up, a timer that has fired is being re-armed by the
\* thread that handled it: handleEpollEvent's restartPolling keeps every
\* periodic timer of a running endpoint firing.
TimerRearmed ==
    \A tm \in Timers :
        cpc = "up" /\ reg[tm] = "fired" =>
            \E t \in Threads : tpc[t] = "rearm" /\ tfd[t] = tm

\* No epoll_ctl fails: a timer is never re-armed by restartPolling after
\* shutdown's stopPolling has removed it from the epoll set.
NoEpollError == ~crashed

\* Once shutdown() is called it returns (or the process dies): every
\* transport is closed, every thread exits.
ShutdownCompletes == (cpc \in ShutdownPhases) ~> (cpc = "down" \/ crashed)


\* The endpoint seen by its owner: the phase of the controlling thread,
\* transportMapping, and the timers still in the epoll set.
Lifecycle == INSTANCE EndpointLifecycle
    WITH phase <- IF crashed THEN "dead"
                  ELSE CASE cpc = "init" -> "created"
                         [] cpc = "up" -> "running"
                         [] cpc = "down" -> "stopped"
                         [] OTHER -> "stopping",
         open <- mapping,
         timers <- {tm \in Timers : reg[tm] # "none"}

\* EndpointBase implements EndpointLifecycle: transports are accepted only
\* while the endpoint runs, shutdown() returns only once every transport
\* has closed and every timer has left the epoll set, and once called it
\* returns unless the process dies.
ImplementsLifecycle == Lifecycle!Spec

=============================================================================
