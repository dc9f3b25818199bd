-------------------------------- MODULE Disk --------------------------------
(***************************************************************************)
(* The disk with the processes that use it, as p_block and p_unblock see   *)
(* them: any program may make its next request when it is not blocked.     *)
(***************************************************************************)
EXTENDS DiskQueue

CONSTANT MaxReq  \* [Procs -> Nat], requests of each: programs are finite

ASSUME DiskPrograms == MaxReq \in [Procs -> Nat]

VARIABLES blocked, left  \* who is BLOCKED; requests each has yet to make

vars == <<diskVars, blocked, left, sys>>

Init == DiskInit /\ left = MaxReq /\ blocked = {}

\* disk_request: p_block, then simulate_io.
disk_request(p, t) ==
  /\ p \notin blocked /\ left[p] > 0
  /\ blocked' = blocked \cup {p}
  /\ left' = [left EXCEPT ![p] = @ - 1]
  /\ simulate_io(p, t)

\* interrupt_control(disk_finish): p_unblock(done).
disk_finish ==
  /\ Finished
  /\ blocked' = blocked \ {done}
  /\ left' = left

Put == PutSteps /\ UNCHANGED <<blocked, left>>
Disk == disk_finish \/ (DiskThread /\ UNCHANGED <<blocked, left>>)

Next == (\E p \in Procs, t \in Tracks : disk_request(p, t)) \/ Put \/ Disk

Spec == Init /\ [][Next]_vars

\* Both threads run on; a program need not make all its requests.
Fairness == WF_vars(Disk) /\ WF_vars(Put)

-----------------------------------------------------------------------------
(* Properties. *)

\* Types of all variables.
TypeOK ==
  DiskTypeOK /\ blocked \subseteq Procs /\ left \in [Procs -> Nat]

\* SSTF: what the loop of sort_disk finds and puts first is closest to the head
\* among all queued requests, and the exchange loses or doubles none of them.
ClosestFirst ==
  [][dpc = "sort" /\ dpc' = "act" /\ len > 0 =>
       /\ \A i \in 0 .. len - 1 :
            abs_diff(track, queue'[0].track) <= abs_diff(track, queue[i].track)
       /\ \A r \in {queue[i] : i \in Slots} :
            Cardinality({i \in Slots : queue'[i] = r}) =
              Cardinality({i \in Slots : queue[i] = r})]_vars
=============================================================================
