---------------------------- MODULE MCPendingTimer ----------------------------
(* Small instances of PendingTimer for TLC: three turns of one user. *)
EXTENDS PendingTimer

CONSTANTS k1, k2, k3, t1, t2, t3

\* Every call may raise.
TimerFaultOps == TimerFaults
===============================================================================
