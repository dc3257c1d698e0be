---------------------------- MODULE RequestService ----------------------------
(***************************************************************************)
(* What HttpClient promises the threads that call enqueueRequest, without  *)
(* connections, sockets or queues: an accepted request is started at most  *)
(* once and in the order it was accepted, and its onDone is called at most *)
(* once, after it was started.                                             *)
(*                                                                         *)
(* One event of the client's loop thread runs a whole chain of handlers:   *)
(* a response can end one request (onDone) and start the next waiting one  *)
(* on the same connection, and a connect that fails at once ends the       *)
(* request it was started for.  So the step of the loop thread, Progress,  *)
(* may start several requests and end several started ones at once.        *)
(***************************************************************************)
EXTENDS Naturals, Sequences, SequencesExt

CONSTANTS Requests

VARIABLES admitted, \* the requests accepted, in the order they were accepted
          started,  \* the requests started, in the order they were started
          done      \* done[r]: has r's onDone been called?

vars == <<admitted, started, done>>

Init ==
    /\ admitted = <<>>
    /\ started = <<>>
    /\ done = [r \in Requests |-> 0]

\* A caller's request is accepted.
Admit(r) ==
    /\ r \notin Range(admitted)
    /\ admitted' = Append(admitted, r)
    /\ UNCHANGED <<started, done>>

\* One event of the loop thread: the next accepted requests are started, in
\* order, and some started requests that were not yet done are ended.
Progress ==
    /\ IsPrefix(started, started')
    /\ IsPrefix(started', admitted)
    /\ done' \in [Requests -> {0, 1}]
    /\ \A r \in Requests :
          done'[r] # done[r] => done[r] = 0 /\ r \in Range(started')
    /\ UNCHANGED admitted

Next == (\E r \in Requests : Admit(r)) \/ Progress

\* The promise without liveness: a client whose loop thread dies or stalls
\* still keeps it.
Safety == Init /\ [][Next]_vars

=============================================================================
