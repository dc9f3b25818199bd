------------------------------- MODULE MCDisk -------------------------------
(* Three programs for Disk: one comes back while the others wait.           *)
EXTENDS DiskRace

MCRequests == [p \in Procs |-> IF p = 0 THEN 2 ELSE 1]
=============================================================================
