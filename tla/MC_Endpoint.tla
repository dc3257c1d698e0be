----------------------------- MODULE MC_Endpoint -----------------------------
(* Model values and sets for checking Endpoint with TLC.                     *)
EXTENDS Endpoint

CONSTANTS th1, th2, tr1, tr2, tm1, tm2

MCThreads == {th1, th2}
MCTransports == {tr1, tr2}
MCTimers == {tm1, tm2}
MCTimer1 == {tm1}
MCThread1 == {th1}
=============================================================================
