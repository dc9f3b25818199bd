----------------------------- MODULE DiskQueue ------------------------------
(***************************************************************************)
(* The disk (disk.c).  The CPU thread queues requests (simulate_io, inside *)
(* a disk_request system call); the disk thread picks the closest track,   *)
(* moves the head, serves the request and reports disk_finish.             *)
(*                                                                         *)
(* The queue and its length are shared without a lock: cpu_s covers q_put, *)
(* nothing covers q_remove.  Every access to len that another thread may   *)
(* come between is a step of its own.  Accesses to different entries do    *)
(* not disturb each other: entries below len are the disk thread's, the    *)
(* entry q_put writes is at or above it.                                   *)
(***************************************************************************)
EXTENDS Integers, FiniteSets

CONSTANTS
  MAX_PCB,       \* entries of the queue
  DISK_SLICE,    \* service time of a request
  TOTAL_TRACKS,  \* largest track
  Procs          \* pids of the processes that use the disk

ASSUME DiskConstants ==
  /\ MAX_PCB \in 1 .. 255 /\ DISK_SLICE \in Nat /\ TOTAL_TRACKS \in Nat
  /\ Procs \subseteq Nat

VARIABLES
  queue, len,        \* app.disk.qr
  track,             \* app.disk.current_track
  dpc, ri, rl, done, \* disk thread: place, loop index, loaded len, local_p.id
  cpc, creq, cl,     \* CPU thread in q_put: place, request, loaded len
  sys                \* "up", or "down" after a write past the queue

dskVars == <<dpc, ri, rl, done>>
cpuVars == <<cpc, creq, cl>>
diskVars == <<queue, len, track, dskVars, cpuVars>>

-----------------------------------------------------------------------------
Tracks == 0 .. TOTAL_TRACKS
Slots == 0 .. MAX_PCB - 1
Request == [id : Procs \cup {0}, track : Tracks, time : 0 .. DISK_SLICE]
ZeroReq == [id |-> 0, track |-> 0, time |-> 0]
U8(n) == n % 256

abs_diff(a, b) == IF a > b THEN a - b ELSE b - a

DiskInit ==
  /\ queue = [i \in Slots |-> ZeroReq] /\ len = 0 /\ track = 0
  /\ dpc = "sort" /\ ri = 0 /\ rl = 0 /\ done = 0
  /\ cpc = "idle" /\ creq = ZeroReq /\ cl = 0
  /\ sys = "up"

-----------------------------------------------------------------------------
(* CPU thread: simulate_io hands a request to q_put, under cpu_s. *)

simulate_io(p, t) ==
  /\ sys = "up" /\ cpc = "idle"
  /\ creq' = [id |-> p, track |-> t, time |-> DISK_SLICE]
  /\ cpc' = "put"
  /\ UNCHANGED <<queue, len, track, dskVars, cl, sys>>

\* q_put: queue[len] = p.
PutEntry ==
  /\ sys = "up" /\ cpc = "put"
  /\ IF len < MAX_PCB
     THEN queue' = [queue EXCEPT ![len] = creq] /\ cpc' = "load" /\ sys' = sys
     ELSE sys' = "down" /\ UNCHANGED <<queue, cpc>>
  /\ cl' = len
  /\ UNCHANGED <<len, track, dskVars, creq>>

\* q_put: len++ loads len again, or uses the value the compiler has kept.
PutLoad ==
  /\ sys = "up" /\ cpc = "load"
  /\ cl' \in {cl, len}
  /\ cpc' = "store"
  /\ UNCHANGED <<queue, len, track, dskVars, creq, sys>>

PutStore ==
  /\ sys = "up" /\ cpc = "store"
  /\ len' = U8(cl + 1)
  /\ cpc' = "idle" /\ creq' = ZeroReq /\ cl' = 0
  /\ UNCHANGED <<queue, track, dskVars, sys>>

-----------------------------------------------------------------------------
(* Disk thread. *)

Seek(i) == abs_diff(track, queue[i].track)

\* MUTANT: the comparison is <=, so that the last of several wins.
VisitLast(i, s) == IF Seek(i) <= s.diff THEN [idx |-> i, diff |-> Seek(i)] ELSE s

\* MUTANT: the minimum is not brought up to date.
VisitStale(i, s) == IF Seek(i) < s.diff THEN [s EXCEPT !.idx = i] ELSE s

\* One turn of the loop of sort_disk: closest_idx and min_diff.
Visit(i, s) == IF Seek(i) < s.diff THEN [idx |-> i, diff |-> Seek(i)] ELSE s

\* Both after the turns 1 .. i.
Scan[i \in Slots] == IF i = 0 THEN [idx |-> 0, diff |-> Seek(0)]
                    ELSE Visit(i, Scan[i - 1])
Closest(n) == Scan[n - 1].idx

\* sort_disk exchanges the first entry with the closest one.
Sorted(n) == LET c == Closest(n) IN
             [queue EXCEPT ![0] = queue[c], ![c] = queue[0]]

Sort ==
  /\ sys = "up" /\ dpc = "sort"
  /\ queue' = IF len > 1 THEN Sorted(len) ELSE queue
  /\ dpc' = "act"
  /\ UNCHANGED <<len, track, ri, rl, done, cpuVars, sys>>

Idle ==
  /\ sys = "up" /\ dpc = "act" /\ len = 0
  /\ dpc' = "sort"
  /\ UNCHANGED <<queue, len, track, ri, rl, done, cpuVars, sys>>

\* MUTANT: the two comparisons are exchanged.
move_header_away ==
  /\ sys = "up" /\ dpc = "act" /\ len > 0 /\ queue[0].track # track
  /\ track' = IF queue[0].track < track THEN track + 1 ELSE track - 1
  /\ dpc' = "sort"
  /\ UNCHANGED <<queue, len, ri, rl, done, cpuVars, sys>>

\* MUTANT: the second comparison is missing.
move_header_up ==
  /\ sys = "up" /\ dpc = "act" /\ len > 0 /\ queue[0].track # track
  /\ track' = IF queue[0].track > track THEN track + 1 ELSE track
  /\ dpc' = "sort"
  /\ UNCHANGED <<queue, len, ri, rl, done, cpuVars, sys>>

move_header ==
  /\ sys = "up" /\ dpc = "act" /\ len > 0 /\ queue[0].track # track
  /\ track' = IF queue[0].track > track THEN track + 1 ELSE track - 1
  /\ dpc' = "sort"
  /\ UNCHANGED <<queue, len, ri, rl, done, cpuVars, sys>>

AtTrack == sys = "up" /\ dpc = "act" /\ len > 0 /\ queue[0].track = track

\* exec_io, while the request has time to run.
Serve ==
  /\ AtTrack /\ queue[0].time > 0
  /\ queue' = [queue EXCEPT ![0].time = @ - 1]
  /\ dpc' = "sort"
  /\ UNCHANGED <<len, track, ri, rl, done, cpuVars, sys>>

\* exec_io, when it has none: q_remove, then disk_finish.
RemoveBegin ==
  /\ AtTrack /\ queue[0].time = 0
  /\ done' = queue[0].id
  /\ ri' = 0 /\ dpc' = "shift"
  /\ UNCHANGED <<queue, len, track, rl, cpuVars, sys>>

\* MUTANT: the shift stops one entry early.
RemoveShiftShort ==
  /\ sys = "up" /\ dpc = "shift"
  /\ IF ri < len - 2
     THEN /\ queue' = [queue EXCEPT ![ri] = queue[ri + 1]]
          /\ ri' = ri + 1 /\ dpc' = dpc
     ELSE /\ queue' = queue /\ ri' = 0 /\ dpc' = "load"
  /\ UNCHANGED <<len, track, rl, done, cpuVars, sys>>

\* q_remove: one turn of the loop.
RemoveShift ==
  /\ sys = "up" /\ dpc = "shift"
  /\ IF ri < len - 1
     THEN /\ queue' = [queue EXCEPT ![ri] = queue[ri + 1]]
          /\ ri' = ri + 1 /\ dpc' = dpc
     ELSE /\ queue' = queue /\ ri' = 0 /\ dpc' = "load"
  /\ UNCHANGED <<len, track, rl, done, cpuVars, sys>>

\* q_remove: --len, a load and a store.
RemoveLoad ==
  /\ sys = "up" /\ dpc = "load"
  /\ rl' = U8(len + 255) /\ dpc' = "store"
  /\ UNCHANGED <<queue, len, track, ri, done, cpuVars, sys>>

RemoveStore ==
  /\ sys = "up" /\ dpc = "store"
  /\ len' = rl /\ dpc' = "zero"
  /\ UNCHANGED <<queue, track, ri, rl, done, cpuVars, sys>>

RemoveZero ==
  /\ sys = "up" /\ dpc = "zero"
  /\ queue' = [queue EXCEPT ![rl] = ZeroReq]
  /\ rl' = 0 /\ dpc' = "finish"
  /\ UNCHANGED <<len, track, ri, done, cpuVars, sys>>

\* interrupt_control(disk_finish), under cpu_s, has woken the process.
Finished ==
  /\ sys = "up" /\ dpc = "finish" /\ cpc = "idle"
  /\ done' = 0 /\ dpc' = "sort"
  /\ UNCHANGED <<queue, len, track, ri, rl, cpuVars, sys>>

-----------------------------------------------------------------------------
PutSteps == PutEntry \/ PutLoad \/ PutStore
DiskThread == \/ Sort \/ Idle \/ move_header \/ Serve
              \/ RemoveBegin \/ RemoveShift \/ RemoveLoad \/ RemoveStore \/ RemoveZero

-----------------------------------------------------------------------------
\* Types of all variables (disk.h and the threads' locals).
DiskTypeOK ==
  /\ queue \in [Slots -> Request] /\ len \in 0 .. 255 /\ track \in Tracks
  /\ dpc \in {"sort", "act", "shift", "load", "store", "zero", "finish"}
  /\ ri \in 0 .. MAX_PCB /\ rl \in 0 .. 255 /\ done \in Procs \cup {0}
  /\ cpc \in {"idle", "put", "load", "store"}
  /\ creq \in Request /\ cl \in 0 .. 255
  /\ sys \in {"up", "down"}

InQueue(p) == \E i \in 0 .. len - 1 : queue[i].id = p
BeingPut(p) == cpc # "idle" /\ creq.id = p
BeingDone(p) == dpc \in {"shift", "load", "store", "zero", "finish"} /\ done = p

\* The CPU thread is in q_put while the disk thread is in q_remove.
Overlap == /\ cpc \in {"put", "load", "store"}
           /\ dpc \in {"shift", "load", "store", "zero"}
=============================================================================
