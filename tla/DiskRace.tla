------------------------------ MODULE DiskRace ------------------------------
(* Disk with a history of whether q_put and q_remove ever overlapped.       *)
EXTENDS Disk

VARIABLE raced

RaceInit == Init /\ raced = FALSE
RaceNext == Next /\ raced' = (raced \/ Overlap')
raceVars == <<vars, raced>>
RaceSpec == RaceInit /\ [][RaceNext]_raceVars
RaceFairSpec == RaceSpec /\ Fairness

\* Outside q_put and q_remove the queue holds exactly one request of each
\* blocked process, until those two first overlap: the missing lock is the only
\* way to lose, double or invent a request.
QueueExact ==
  raced \/ dpc \notin {"sort", "act"} \/ cpc # "idle" \/
    /\ {queue[i].id : i \in 0 .. len - 1} = blocked
    /\ len = Cardinality(blocked)

\* Until then only the request at the head of the queue has been served in
\* part: sort_disk never takes the disk away from a request in service.
OneInService ==
  raced \/ \A i \in 1 .. len - 1 : dpc \in {"sort", "act"} => queue[i].time = DISK_SLICE

\* Until then every blocked process is unblocked: the programs' requests are
\* finitely many, so shortest-seek-first does not starve a far track for ever.
Unblocked == \A p \in Procs : p \in blocked ~> (raced \/ p \notin blocked)
=============================================================================
