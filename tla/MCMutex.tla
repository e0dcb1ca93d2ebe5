------------------------------ MODULE MCMutex ------------------------------
(* mutex.h on its own, with the most general client.  The threads are not   *)
(* declared symmetric: the run checks liveness.                             *)
EXTENDS Mutex
=============================================================================
