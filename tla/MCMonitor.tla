----------------------------- MODULE MCMonitor -----------------------------
(* mutex.h and cond.h with the most general client. *)
EXTENDS MonitorClients
=============================================================================
