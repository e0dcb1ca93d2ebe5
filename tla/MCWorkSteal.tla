---------------------------- MODULE MCWorkSteal ----------------------------
(* The scheduler with a few threads and tasks. *)
EXTENDS WorkSteal

MCItems == Queues \X (1 .. nprints)
MCOwner(q) == q
=============================================================================
