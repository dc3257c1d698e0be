---------------------------- MODULE MC_HttpClient ----------------------------
(* Model-checking instance of HttpClient: the model values come from the   *)
(* .cfg files, the environment each run allows is fixed there.             *)
EXTENDS HttpClient, TLC

CONSTANTS c1, c2, r1, r2, r3, r4

\* numParallel = 2, or 1 where one connection must serve a backlog
MCConns == {c1, c2}
MCConn1 == {c1}
MCRequests == {r1, r2, r3}
\* four requests, so that two can wait behind busy connections
MCRequests4 == {r1, r2, r3, r4}
\* r2 carries a body
MCWithBody == {r2}
\* two requests with a body, so that one body's write result can reach another
MCWithBody2 == {r1, r2}

=============================================================================
