----------------------------- MODULE DiskProofs -----------------------------
(***************************************************************************)
(* Theorems about the disk and its queue, for any number of processes,     *)
(* entries of the queue, tracks and requests, and any service time.        *)
(***************************************************************************)
EXTENDS DiskRace, SetLemmas

\* How many entries q_remove still has to keep.
Kept == CASE dpc = "load" -> len - 1
          [] dpc = "store" -> rl
          [] OTHER -> len

\* The entries that hold a request which waits for its turn: during a removal
\* not the hole that the shift has reached.
Entries == {i \in Slots : i < Kept /\ (dpc = "shift" => i # ri)}

Queued(p) == \E i \in Entries : queue[i].id = p

\* What both threads may rely on even after a race: no index leaves the queue.
PlaceInv ==
  /\ len <= MAX_PCB
  /\ dpc \in {"shift", "load"} => len > 0
  /\ dpc \in {"store", "zero"} => rl < MAX_PCB
  /\ cpc = "load" => len < MAX_PCB
  /\ cpc \in {"load", "store"} => cl < MAX_PCB

\* The two threads' loaded values are those of the queue.
LoadedInv ==
  /\ ~Overlap
  /\ dpc = "shift" => ri < len
  /\ dpc = "store" => rl = len - 1
  /\ dpc = "zero" => rl = len
  /\ cpc \in {"load", "store"} => cl = len /\ len < MAX_PCB /\ queue[len] = creq
  /\ cpc # "idle" => creq.id \in Procs /\ creq.time = DISK_SLICE

\* A process is blocked exactly when one request of it is on its way into the
\* queue, in it or on its way out.
OwnerInv ==
  /\ \A i, j \in Entries : queue[i].id = queue[j].id => i = j
  /\ \A i \in Entries : queue[i].id \in blocked
  /\ \A p \in blocked : Queued(p) \/ BeingPut(p) \/ BeingDone(p)
  /\ \A p \in Procs : BeingPut(p) => p \in blocked /\ ~Queued(p) /\ ~BeingDone(p)
  /\ \A p \in Procs : BeingDone(p) => p \in blocked /\ ~Queued(p)
  /\ dpc \in {"shift", "load", "store", "zero", "finish"} => done \in Procs

\* Only the first request can have been served in part, and only while the head
\* stands on its track.
ServiceInv ==
  \A i \in Entries :
    \/ queue[i].time = DISK_SLICE
    \/ i = 0 /\ dpc \in {"sort", "act"} /\ queue[0].track = track

\* The inductive invariant.
IInv == TypeOK /\ PlaceInv /\ (raced \/ (LoadedInv /\ OwnerInv /\ ServiceInv))

-----------------------------------------------------------------------------
(* sort_disk. *)

\* Scan is what its definition says: the equation has a solution.
LEMMA ScanIs ==
  ASSUME \A i \in Slots : Seek(i) \in Nat
  PROVE  /\ Scan[0] = [idx |-> 0, diff |-> Seek(0)]
         /\ \A i \in 1 .. MAX_PCB - 1 :
              Scan[i] = IF Seek(i) < Scan[i - 1].diff
                        THEN [idx |-> i, diff |-> Seek(i)] ELSE Scan[i - 1]
<1> DEFINE N == MAX_PCB - 1
           d == [i \in 0 .. N |-> Seek(i)]
           Row(c, i) == IF i = 0 THEN [idx |-> 0, diff |-> Seek(0)] ELSE Visit(i, c[i - 1])
<1>1. N \in Nat /\ (\A i \in 0 .. N : d[i] \in Nat) /\ Slots = 0 .. N
  BY DiskConstants DEF Slots
<1>2. PICK c \in [0 .. N -> [idx : Nat, diff : Nat]] : Minima(c, d, N)
  <2> HIDE DEF d, N
  <2> QED BY <1>1, LoopRuns
<1>3. \A i \in Slots : c[i] = Row(c, i)
  <2> TAKE i \in Slots
  <2>1. CASE i = 0
    <3>1. c[0] = [idx |-> 0, diff |-> d[0]] /\ d[0] = Seek(0)
      BY <1>1, <1>2 DEF Minima
    <3> QED BY <2>1, <3>1
  <2>2. CASE i # 0
    <3>1. i \in 1 .. N /\ i \in 0 .. N
      BY <1>1, <2>2
    <3>2. d[i] = Seek(i)
      BY <3>1
    <3> HIDE DEF N, d
    <3> QED BY <1>2, <2>2, <3>1, <3>2 DEF Minima, Visit
  <2> QED BY <2>1, <2>2
<1>4. c = [i \in Slots |-> Row(c, i)]
  <2> HIDE DEF Row, N
  <2> QED BY <1>1, <1>2, <1>3
<1>5. Scan = CHOOSE e : e = [i \in Slots |-> Row(e, i)]
  BY DEF Scan
<1>6. Scan = [i \in Slots |-> Row(Scan, i)]
  <2> HIDE DEF Row
  <2> QED BY <1>4, <1>5, Zenon
<1>7. \A i \in Slots : Scan[i] = Row(Scan, i)
  <2> HIDE DEF Row
  <2> QED BY <1>6, Zenon
<1>8. 0 \in Slots /\ \A i \in 1 .. N : i \in Slots /\ i # 0
  BY <1>1
<1> QED BY <1>7, <1>8 DEF Visit

\* The distance between two tracks is a number.
LEMMA SeeksAreNat ==
  ASSUME TypeOK
  PROVE  \A i \in Slots : Seek(i) \in Nat /\ Seek(i) = abs_diff(track, queue[i].track)
<1>1. Tracks \subseteq Nat
  BY DiskConstants DEF Tracks
<1>2. track \in Nat /\ \A i \in Slots : queue[i].track \in Nat
  <2>1. queue \in [Slots -> Request] /\ track \in Tracks
    BY DEF TypeOK, DiskTypeOK
  <2>2. \A i \in Slots : queue[i] \in Request
    BY <2>1
  <2> QED BY <1>1, <2>1, <2>2 DEF Request
<1>3. \A a, b \in Nat : abs_diff(a, b) \in Nat
  BY DEF abs_diff
<1> QED BY <1>2, <1>3 DEF Seek

\* What the loop of sort_disk ends with is the first closest of the entries.
LEMMA ClosestIs ==
  ASSUME TypeOK, NEW n \in 1 .. MAX_PCB
  PROVE  /\ Closest(n) \in 0 .. n - 1
         /\ \A j \in 0 .. n - 1 :
              LET c == Closest(n)
                  dc == abs_diff(track, queue[c].track)
                  dj == abs_diff(track, queue[j].track)
              IN  dc < dj \/ (dc = dj /\ c <= j)
<1> DEFINE N == MAX_PCB - 1
           d == [i \in 0 .. N |-> Seek(i)]
<1>1. \A i \in Slots : Seek(i) \in Nat
  BY SeeksAreNat
<1>2. N \in Nat /\ d \in [0 .. N -> Nat] /\ n - 1 \in 0 .. N /\ 0 \in 0 .. N
  BY <1>1, DiskConstants DEF Slots
<1>3. Scan[0] = [idx |-> 0, diff |-> d[0]]
  BY <1>1, <1>2, ScanIs
<1>4. \A i \in 1 .. N : Scan[i] = IF d[i] < Scan[i - 1].diff
                                 THEN [idx |-> i, diff |-> d[i]] ELSE Scan[i - 1]
  BY <1>1, ScanIs
<1> DEFINE c == Closest(n)
<1>5. /\ c \in 0 .. n - 1
      /\ \A j \in 0 .. n - 1 : d[c] < d[j] \/ (d[c] = d[j] /\ c <= j)
  <2> HIDE DEF d, N
  <2>1. Minima(Scan, d, N)
    BY <1>3, <1>4 DEF Minima
  <2> QED BY <1>2, <2>1, LoopFinds DEF Closest
<1>6. \A j \in 0 .. n - 1 : d[j] = abs_diff(track, queue[j].track)
  BY <1>2 DEF Seek
<1> HIDE DEF d
<1>7. ASSUME NEW j \in 0 .. n - 1
      PROVE  LET dc == abs_diff(track, queue[Closest(n)].track)
                 dj == abs_diff(track, queue[j].track)
             IN  dc < dj \/ (dc = dj /\ Closest(n) <= j)
  <2>1. d[c] = abs_diff(track, queue[c].track) /\ d[j] = abs_diff(track, queue[j].track)
    BY <1>5, <1>6
  <2> QED BY <1>5, <2>1
<1> QED BY <1>5, <1>7

\* sort_disk exchanges two entries below len, or leaves the queue as it is.
LEMMA SortSwaps ==
  ASSUME TypeOK, PlaceInv, Sort
  PROVE  \E c \in Slots :
           /\ queue' = [queue EXCEPT ![0] = queue[c], ![c] = queue[0]]
           /\ c < len \/ c = 0
           /\ \A j \in 0 .. len - 1 :
                abs_diff(track, queue[c].track) <= abs_diff(track, queue[j].track)
           /\ len > 0 /\ queue[0].track = track => c = 0
<1>0. \A i \in Slots : abs_diff(track, queue[i].track) \in Nat
  BY SeeksAreNat
<1>1. CASE len > 1
  <2>1. len \in 1 .. MAX_PCB
    BY <1>1, DiskConstants DEF TypeOK, DiskTypeOK, PlaceInv
  <2> DEFINE c == Closest(len)
  <2>2. /\ c \in 0 .. len - 1
        /\ \A j \in 0 .. len - 1 :
             LET dc == abs_diff(track, queue[c].track)
                 dj == abs_diff(track, queue[j].track)
             IN  dc < dj \/ (dc = dj /\ c <= j)
    BY <2>1, ClosestIs
  <2>3. queue' = [queue EXCEPT ![0] = queue[c], ![c] = queue[0]]
    BY <1>1 DEF Sort, Sorted
  <2> HIDE DEF c
  <2>4. c \in Slots /\ c < len /\ 0 \in 0 .. len - 1 /\ 0 .. len - 1 \subseteq Slots
    BY <2>1, <2>2, DiskConstants DEF Slots
  <2>5. \A j \in 0 .. len - 1 :
          abs_diff(track, queue[c].track) <= abs_diff(track, queue[j].track)
    BY <1>0, <2>2, <2>4
  <2>6. queue[0].track = track => c = 0
    <3> SUFFICES ASSUME queue[0].track = track PROVE c = 0
      OBVIOUS
    <3>1. track \in Nat
      BY DEF TypeOK, DiskTypeOK, Tracks
    <3>2. abs_diff(track, queue[0].track) = 0
      BY <3>1 DEF abs_diff
    <3>3. abs_diff(track, queue[c].track) = 0 /\ c <= 0
      BY <1>0, <2>2, <2>4, <3>2
    <3> QED BY <2>2, <3>3
  <2> QED BY <2>3, <2>4, <2>5, <2>6
<1>2. CASE ~(len > 1)
  <2>1. queue' = queue /\ 0 \in Slots
    BY <1>2, DiskConstants DEF Sort, Slots
  <2>2. queue' = [queue EXCEPT ![0] = queue[0], ![0] = queue[0]]
    BY <2>1 DEF TypeOK, DiskTypeOK
  <2>3. \A j \in 0 .. len - 1 : j = 0
    BY <1>2 DEF TypeOK, DiskTypeOK
  <2>4. abs_diff(track, queue[0].track) <= abs_diff(track, queue[0].track)
    <3>1. \A x \in Nat : x <= x
      OBVIOUS
    <3> QED BY <1>0, <2>1, <3>1
  <2>5. \A j \in 0 .. len - 1 :
          abs_diff(track, queue[0].track) <= abs_diff(track, queue[j].track)
    BY <2>3, <2>4
  <2> QED BY <2>1, <2>2, <2>5
<1> QED BY <1>1, <1>2

-----------------------------------------------------------------------------
(* The invariant holds at first and is kept. *)

LEMMA InitOK == RaceInit => IInv
<1> SUFFICES ASSUME RaceInit PROVE IInv
  OBVIOUS
<1> USE DiskConstants, DiskPrograms DEF RaceInit, Init, DiskInit
<1>1. TypeOK
  BY DEF TypeOK, DiskTypeOK, Request, Tracks, Slots, ZeroReq
<1>2. PlaceInv
  BY DEF PlaceInv
<1>3. LoadedInv
  BY DEF LoadedInv, Overlap
<1>4. Entries = {}
  BY DEF Entries, Kept, Slots
<1>5. OwnerInv /\ ServiceInv
  BY <1>4 DEF OwnerInv, ServiceInv, BeingPut, BeingDone, Queued
<1> QED BY <1>1, <1>2, <1>3, <1>5 DEF IInv

LEMMA U8Facts ==
  /\ \A n \in 0 .. 254 : U8(n + 1) = n + 1
  /\ \A n \in 1 .. 255 : U8(n + 255) = n - 1
  /\ \A n \in Nat : U8(n) \in 0 .. 255
BY DEF U8

\* Every index stays in the queue and every variable in its type, race or not.
LEMMA PlaceStep ==
  ASSUME TypeOK, PlaceInv, Next
  PROVE  TypeOK' /\ PlaceInv'
<1> USE DiskConstants DEF TypeOK, DiskTypeOK, PlaceInv, Slots
<1>1. ASSUME NEW p \in Procs, NEW t \in Tracks, disk_request(p, t)
      PROVE  TypeOK' /\ PlaceInv'
  <2>1. creq' \in Request
    BY <1>1 DEF disk_request, simulate_io, Request
  <2> QED BY <1>1, <2>1 DEF disk_request, simulate_io, dskVars
<1>2. ASSUME PutEntry, UNCHANGED <<blocked, left>> PROVE TypeOK' /\ PlaceInv'
  BY <1>2 DEF PutEntry, dskVars
<1>3. ASSUME PutLoad, UNCHANGED <<blocked, left>> PROVE TypeOK' /\ PlaceInv'
  BY <1>3 DEF PutLoad, dskVars
<1>4. ASSUME PutStore, UNCHANGED <<blocked, left>> PROVE TypeOK' /\ PlaceInv'
  <2>0. cl \in 0 .. 254
    BY <1>4 DEF PutStore
  <2>1. len' = cl + 1
    BY <1>4, <2>0, U8Facts DEF PutStore
  <2>2. creq' \in Request
    BY <1>4 DEF PutStore, ZeroReq, Request, Tracks
  <2>3. len' \in 0 .. 255 /\ len' <= MAX_PCB /\ len' > 0
    BY <2>0, <2>1, <1>4 DEF PutStore
  <2> QED BY <1>4, <2>2, <2>3 DEF PutStore, dskVars
<1>5. ASSUME Sort, UNCHANGED <<blocked, left>> PROVE TypeOK' /\ PlaceInv'
  <2>1. PICK c \in Slots : queue' = [queue EXCEPT ![0] = queue[c], ![c] = queue[0]]
    BY <1>5, SortSwaps
  <2>2. queue' \in [Slots -> Request]
    BY <2>1
  <2> QED BY <1>5, <2>2 DEF Sort, cpuVars
<1>6. ASSUME Idle, UNCHANGED <<blocked, left>> PROVE TypeOK' /\ PlaceInv'
  BY <1>6 DEF Idle, cpuVars
<1>7. ASSUME move_header, UNCHANGED <<blocked, left>> PROVE TypeOK' /\ PlaceInv'
  <2>1. queue[0].track \in Tracks
    BY DEF Request
  <2>2. track' \in Tracks
    BY <1>7, <2>1 DEF move_header, Tracks
  <2> QED BY <1>7, <2>2 DEF move_header, cpuVars
<1>8. ASSUME Serve, UNCHANGED <<blocked, left>> PROVE TypeOK' /\ PlaceInv'
  <2> DEFINE q == queue[0]
  <2>0. 0 \in Slots
    OBVIOUS
  <2>1. q \in Request /\ q.time > 0
    BY <1>8, <2>0 DEF Serve
  <2> HIDE DEF q
  <2>2. [q EXCEPT !.time = @ - 1] \in Request
    <3>1. q.time - 1 \in 0 .. DISK_SLICE
      BY <2>1 DEF Request
    <3> QED BY <2>1, <3>1 DEF Request
  <2>3. queue' \in [Slots -> Request]
    BY <1>8, <2>2 DEF Serve, q
  <2> QED BY <1>8, <2>3 DEF Serve, AtTrack, cpuVars
<1>9. ASSUME RemoveBegin, UNCHANGED <<blocked, left>> PROVE TypeOK' /\ PlaceInv'
  BY <1>9 DEF RemoveBegin, AtTrack, cpuVars, Request
<1>10. ASSUME RemoveShift, UNCHANGED <<blocked, left>> PROVE TypeOK' /\ PlaceInv'
  <2>1. ri < len - 1 => ri + 1 \in Slots /\ ri \in Slots
    OBVIOUS
  <2>2. queue' \in [Slots -> Request]
    BY <1>10, <2>1 DEF RemoveShift
  <2> QED BY <1>10, <2>2 DEF RemoveShift, cpuVars
<1>11. ASSUME RemoveLoad, UNCHANGED <<blocked, left>> PROVE TypeOK' /\ PlaceInv'
  <2>0. len \in 1 .. 255
    BY <1>11 DEF RemoveLoad
  <2>1. rl' = len - 1
    BY <1>11, <2>0, U8Facts DEF RemoveLoad
  <2>2. rl' \in 0 .. 255 /\ rl' < MAX_PCB
    BY <2>0, <2>1
  <2> QED BY <1>11, <2>2 DEF RemoveLoad, cpuVars
<1>12. ASSUME RemoveStore, UNCHANGED <<blocked, left>> PROVE TypeOK' /\ PlaceInv'
  BY <1>12 DEF RemoveStore, cpuVars
<1>13. ASSUME RemoveZero, UNCHANGED <<blocked, left>> PROVE TypeOK' /\ PlaceInv'
  <2>1. ZeroReq \in Request
    BY DEF ZeroReq, Request, Tracks
  <2>2. queue' \in [Slots -> Request]
    BY <1>13, <2>1 DEF RemoveZero
  <2> QED BY <1>13, <2>2 DEF RemoveZero, cpuVars
<1>14. ASSUME disk_finish PROVE TypeOK' /\ PlaceInv'
  BY <1>14 DEF disk_finish, Finished, cpuVars
<1>15. ASSUME Put PROVE TypeOK' /\ PlaceInv'
  BY <1>2, <1>3, <1>4, <1>15 DEF Put, PutSteps
<1>16. ASSUME Disk PROVE TypeOK' /\ PlaceInv'
  BY <1>5, <1>6, <1>7, <1>8, <1>9, <1>10, <1>11, <1>12, <1>13, <1>14, <1>16
    DEF Disk, DiskThread
<1> QED BY <1>1, <1>15, <1>16 DEF Next

-----------------------------------------------------------------------------
(* Until q_put and q_remove first overlap. *)

Good == LoadedInv /\ OwnerInv /\ ServiceInv

\* A step that leaves the waiting requests, those on their way and the blocked
\* processes alone, or only moves a request, keeps their bookkeeping.
LEMMA OwnerSame ==
  ASSUME OwnerInv, Entries' = Entries,
         \A i \in Entries : queue'[i].id = queue[i].id,
         blocked' = blocked,
         \A p : BeingPut(p)' <=> BeingPut(p), \A p : BeingDone(p)' <=> BeingDone(p),
         dpc' \in {"shift", "load", "store", "zero", "finish"} => done' \in Procs
  PROVE  OwnerInv'
<1>1. \A p : Queued(p)' <=> Queued(p)
  BY DEF Queued
<1> QED BY <1>1 DEF OwnerInv

\* disk_request: the process is in none of the three places yet.
LEMMA RequestStep ==
  ASSUME TypeOK, PlaceInv, Good, ~Overlap', NEW p \in Procs, NEW t \in Tracks,
         disk_request(p, t)
  PROVE  Good'
<1>1. /\ queue' = queue /\ len' = len /\ track' = track
      /\ dpc' = dpc /\ ri' = ri /\ rl' = rl /\ done' = done
      /\ cpc = "idle" /\ cpc' = "put" /\ creq'.id = p /\ creq'.time = DISK_SLICE
      /\ p \notin blocked /\ blocked' = blocked \cup {p}
  BY DEF disk_request, simulate_io, dskVars
<1>2. Entries' = Entries
  BY <1>1 DEF Entries, Kept
<1>3. LoadedInv'
  BY <1>1 DEF Good, LoadedInv
<1>4. ServiceInv'
  BY <1>1, <1>2 DEF Good, ServiceInv
<1>5. OwnerInv'
  <2>1. \A r : Queued(r)' <=> Queued(r)
    BY <1>1, <1>2 DEF Queued
  <2>2. \A r : BeingDone(r)' <=> BeingDone(r)
    BY <1>1 DEF BeingDone
  <2>3. \A r : BeingPut(r)' <=> r = p
    BY <1>1 DEF BeingPut
  <2>4. ~Queued(p)
    BY <1>1 DEF Good, OwnerInv, Queued
  <2>5. ~BeingDone(p)
    BY <1>1 DEF Good, OwnerInv
  <2>6. \A r \in blocked : Queued(r) \/ BeingDone(r)
    BY <1>1 DEF Good, OwnerInv, BeingPut
  <2>7. \A r \in blocked' : Queued(r)' \/ BeingPut(r)' \/ BeingDone(r)'
    BY <1>1, <2>1, <2>2, <2>3, <2>6
  <2>8. \A r \in Procs : BeingPut(r)' => r \in blocked' /\ ~Queued(r)' /\ ~BeingDone(r)'
    BY <1>1, <2>1, <2>2, <2>3, <2>4, <2>5
  <2>9. \A r \in Procs : BeingDone(r)' => r \in blocked' /\ ~Queued(r)'
    BY <1>1, <2>1, <2>2 DEF Good, OwnerInv
  <2> QED BY <1>1, <1>2, <2>7, <2>8, <2>9 DEF Good, OwnerInv
<1> QED BY <1>3, <1>4, <1>5 DEF Good

\* q_put writes behind the waiting requests, loads len, and then counts the
\* request in.
LEMMA PutStep ==
  ASSUME TypeOK, PlaceInv, Good, ~Overlap', Put
  PROVE  Good'
<1>0. /\ blocked' = blocked /\ track' = track /\ dpc' = dpc
      /\ ri' = ri /\ rl' = rl /\ done' = done
  BY DEF Put, PutSteps, PutEntry, PutLoad, PutStore, dskVars
<1>1. cpc \in {"put", "load", "store"} /\ dpc \in {"sort", "act", "finish"}
  BY DEF Put, PutSteps, PutEntry, PutLoad, PutStore, Good, LoadedInv, Overlap,
         TypeOK, DiskTypeOK
<1>2. Entries = {i \in Slots : i < len} /\ Entries' = {i \in Slots : i < len'}
  BY <1>0, <1>1 DEF Entries, Kept
<1>3. \A r : BeingDone(r)' <=> BeingDone(r)
  BY <1>0 DEF BeingDone
<1>4. ASSUME PutEntry PROVE Good'
  <2>1. len' = len /\ creq' = creq /\ cpc' \in {"put", "load"} /\ cpc = "put"
    BY <1>4 DEF PutEntry
  <2>2. \A i \in Entries : queue'[i] = queue[i]
    BY <1>2, <1>4 DEF PutEntry, TypeOK, DiskTypeOK
  <2>3. cpc' = "load" => cl' = len' /\ len' < MAX_PCB /\ queue'[len'] = creq'
    <3> SUFFICES ASSUME cpc' = "load" PROVE cl' = len' /\ len' < MAX_PCB /\ queue'[len'] = creq'
      OBVIOUS
    <3>1. len < MAX_PCB /\ queue' = [queue EXCEPT ![len] = creq] /\ cl' = len
      BY <1>4 DEF PutEntry
    <3>2. len \in Slots
      BY <3>1, DiskConstants DEF TypeOK, DiskTypeOK, Slots
    <3> QED BY <2>1, <3>1, <3>2 DEF TypeOK, DiskTypeOK
  <2>4. LoadedInv'
    BY <1>0, <1>1, <2>1, <2>3 DEF Good, LoadedInv
  <2>5. \A r : BeingPut(r)' <=> BeingPut(r)
    BY <2>1 DEF BeingPut
  <2>6. OwnerInv'
    BY <1>0, <1>2, <1>3, <2>1, <2>2, <2>5, OwnerSame DEF Good, OwnerInv
  <2>7. ServiceInv'
    BY <1>0, <1>2, <2>1, <2>2 DEF Good, ServiceInv
  <2> QED BY <2>4, <2>6, <2>7 DEF Good
<1>5. ASSUME PutLoad PROVE Good'
  <2>1. /\ len' = len /\ creq' = creq /\ queue' = queue
        /\ cpc = "load" /\ cpc' = "store" /\ cl' = len
    BY <1>5 DEF PutLoad, Good, LoadedInv
  <2>4. LoadedInv'
    BY <1>0, <1>1, <2>1 DEF Good, LoadedInv
  <2>5. \A r : BeingPut(r)' <=> BeingPut(r)
    BY <2>1 DEF BeingPut
  <2>6. OwnerInv'
    BY <1>0, <1>2, <1>3, <2>1, <2>5, OwnerSame DEF Good, OwnerInv
  <2>7. ServiceInv'
    BY <1>0, <1>2, <2>1 DEF Good, ServiceInv
  <2> QED BY <2>4, <2>6, <2>7 DEF Good
<1>6. ASSUME PutStore PROVE Good'
  <2>1. cl = len /\ len \in 0 .. 254 /\ len < MAX_PCB /\ queue[len] = creq
    BY <1>6, DiskConstants DEF PutStore, Good, LoadedInv, TypeOK, DiskTypeOK
  <2>2. len' = len + 1 /\ queue' = queue /\ cpc = "store" /\ cpc' = "idle"
    BY <1>6, <2>1, U8Facts DEF PutStore
  <2>3. len \in Slots /\ len \notin Entries /\ Entries' = Entries \cup {len}
    BY <1>2, <2>1, <2>2, DiskConstants DEF Slots
  <2> DEFINE p == creq.id
  <2>4. p \in Procs /\ creq.time = DISK_SLICE /\ BeingPut(p)
    BY <2>2 DEF Good, LoadedInv, BeingPut
  <2>5. p \in blocked /\ ~Queued(p) /\ ~BeingDone(p)
    BY <2>4 DEF Good, OwnerInv
  <2>6. \A r : BeingPut(r) <=> r = p
    BY <2>2 DEF BeingPut
  <2>7. \A r : ~BeingPut(r)'
    BY <2>2 DEF BeingPut
  <2>8. \A r : Queued(r)' <=> Queued(r) \/ r = p
    BY <2>1, <2>2, <2>3 DEF Queued
  <2> HIDE DEF p
  <2>9. LoadedInv'
    BY <1>0, <1>1, <2>2 DEF Good, LoadedInv, Overlap
  <2>10. ServiceInv'
    BY <1>0, <2>1, <2>2, <2>3, <2>4 DEF Good, ServiceInv
  <2>11. OwnerInv'
    <3>1. \A i \in Entries : queue[i].id # p
      BY <2>5 DEF Queued
    <3>2. queue[len].id = p
      BY <2>1 DEF p
    <3>3. \A i, j \in Entries' : queue'[i].id = queue'[j].id => i = j
      BY <2>2, <2>3, <3>1, <3>2 DEF Good, OwnerInv
    <3>4. \A i \in Entries' : queue'[i].id \in blocked'
      BY <1>0, <2>2, <2>3, <2>5, <3>2 DEF Good, OwnerInv
    <3>5. \A r \in blocked' : Queued(r)' \/ BeingPut(r)' \/ BeingDone(r)'
      BY <1>0, <1>3, <2>6, <2>8 DEF Good, OwnerInv
    <3>6. \A r \in Procs : BeingDone(r)' => r \in blocked' /\ ~Queued(r)'
      BY <1>0, <1>3, <2>5, <2>8 DEF Good, OwnerInv
    <3> QED BY <1>0, <2>7, <3>3, <3>4, <3>5, <3>6 DEF Good, OwnerInv
  <2> QED BY <2>9, <2>10, <2>11 DEF Good
<1> QED BY <1>4, <1>5, <1>6 DEF Put, PutSteps

-----------------------------------------------------------------------------
\* sort_disk exchanges two waiting requests; it does not displace one in
\* service.
LEMMA SortStep ==
  ASSUME TypeOK, PlaceInv, Good, ~Overlap', Sort, UNCHANGED <<blocked, left>>
  PROVE  Good'
<1>1. /\ blocked' = blocked /\ len' = len /\ track' = track /\ dpc = "sort" /\ dpc' = "act"
      /\ ri' = ri /\ rl' = rl /\ done' = done /\ cpc' = cpc /\ creq' = creq /\ cl' = cl
  BY DEF Sort, cpuVars
<1>2. Entries = {i \in Slots : i < len} /\ Entries' = {i \in Slots : i < len}
  BY <1>1 DEF Entries, Kept
<1>3. PICK c \in Slots :
        /\ queue' = [queue EXCEPT ![0] = queue[c], ![c] = queue[0]]
        /\ c < len \/ c = 0
        /\ len > 0 /\ queue[0].track = track => c = 0
  BY SortSwaps
<1>4. 0 \in Slots
  BY DiskConstants DEF Slots
<1>5. /\ queue'[0] = queue[c] /\ queue'[c] = queue[0]
      /\ \A i \in Slots \ {0, c} : queue'[i] = queue[i]
  BY <1>3, <1>4 DEF TypeOK, DiskTypeOK
<1> DEFINE f == [i \in Slots |-> IF i = 0 THEN c ELSE IF i = c THEN 0 ELSE i]
<1>6. /\ \A i \in Entries : f[i] \in Entries
      /\ \A i \in Entries : queue'[i] = queue[f[i]]
      /\ \A i \in Entries : \E j \in Entries : f[j] = i
      /\ \A i, j \in Entries : f[i] = f[j] => i = j
  <2>1. len \in Nat
    BY DEF TypeOK, DiskTypeOK
  <2>2. c = 0 \/ (0 \in Entries /\ c \in Entries)
    BY <1>2, <1>3, <1>4, <2>1, DiskConstants DEF Slots
  <2>3. Entries \subseteq Slots
    BY <1>2
  <2>4. \A i \in Entries : f[i] \in Entries
    BY <2>2, <2>3
  <2>5. \A i \in Entries : queue'[i] = queue[f[i]]
    BY <1>5, <2>3
  <2>6. \A i \in Entries : f[f[i]] = i
    BY <2>3, <1>4
  <2> HIDE DEF f
  <2> QED BY <2>4, <2>5, <2>6
<1> HIDE DEF f
<1>7. \A r : Queued(r)' <=> Queued(r)
  BY <1>1, <1>2, <1>6 DEF Queued
<1>8. \A r : (BeingPut(r)' <=> BeingPut(r)) /\ (BeingDone(r)' <=> BeingDone(r))
  BY <1>1 DEF BeingPut, BeingDone
<1>9. OwnerInv'
  <2>1. \A i, j \in Entries' : queue'[i].id = queue'[j].id => i = j
    BY <1>2, <1>6 DEF Good, OwnerInv
  <2>2. \A i \in Entries' : queue'[i].id \in blocked'
    BY <1>1, <1>2, <1>6 DEF Good, OwnerInv
  <2> QED BY <1>1, <1>7, <1>8, <2>1, <2>2 DEF Good, OwnerInv
<1>10. LoadedInv'
  <2>1. cpc \in {"load", "store"} => queue'[len] = queue[len]
    <3> SUFFICES ASSUME cpc \in {"load", "store"} PROVE queue'[len] = queue[len]
      OBVIOUS
    <3>1. len < MAX_PCB /\ len \in Nat
      BY DEF Good, LoadedInv, TypeOK, DiskTypeOK
    <3>2. len \in Slots
      BY <3>1, DiskConstants DEF Slots
    <3>3. CASE len = 0
      BY <1>3, <1>4, <1>5, <3>3, <3>1 DEF Slots
    <3>4. CASE len # 0
      <4>1. len # c
        BY <1>3, <3>1, <3>4
      <4> QED BY <1>5, <3>2, <3>4, <4>1
    <3> QED BY <3>3, <3>4
  <2> QED BY <1>1, <2>1 DEF Good, LoadedInv
<1>11. ServiceInv'
  <2> SUFFICES ASSUME NEW i \in Entries'
               PROVE  (queue[i].time = DISK_SLICE)' \/ (i = 0 /\ queue'[0].track = track)
    BY <1>1 DEF ServiceInv
  <2>1. i \in Entries /\ f[i] \in Entries /\ queue'[i] = queue[f[i]]
    BY <1>2, <1>6
  <2>2. CASE queue[f[i]].time = DISK_SLICE
    BY <2>1, <2>2
  <2>3. CASE f[i] = 0 /\ queue[0].track = track
    <3>1. len > 0 /\ len \in Nat
      BY <1>2, <2>1, <2>3 DEF TypeOK, DiskTypeOK
    <3>2. c = 0
      BY <1>3, <2>3, <3>1
    <3>3. i = 0
      BY <1>2, <2>1, <2>3, <3>2 DEF f
    <3> QED BY <1>5, <2>3, <3>2, <3>3
  <2> QED BY <2>1, <2>2, <2>3 DEF Good, ServiceInv
<1> QED BY <1>9, <1>10, <1>11 DEF Good

\* The head moves only while no request is in service.
LEMMA MoveStep ==
  ASSUME TypeOK, PlaceInv, Good, ~Overlap', Idle \/ move_header, UNCHANGED <<blocked, left>>
  PROVE  Good'
<1>1. /\ blocked' = blocked /\ len' = len /\ queue' = queue /\ dpc = "act" /\ dpc' = "sort"
      /\ ri' = ri /\ rl' = rl /\ done' = done /\ cpc' = cpc /\ creq' = creq /\ cl' = cl
  BY DEF Idle, move_header, cpuVars
<1>2. Entries' = Entries
  BY <1>1 DEF Entries, Kept
<1>3. \A r : (BeingPut(r)' <=> BeingPut(r)) /\ (BeingDone(r)' <=> BeingDone(r))
  BY <1>1 DEF BeingPut, BeingDone
<1>4. OwnerInv'
  BY <1>1, <1>2, <1>3, OwnerSame DEF Good
<1>5. LoadedInv'
  BY <1>1 DEF Good, LoadedInv
<1>6. track' = track \/ queue[0].track # track
  BY DEF Idle, move_header
<1>7. ServiceInv'
  BY <1>1, <1>2, <1>6 DEF Good, ServiceInv
<1> QED BY <1>4, <1>5, <1>7 DEF Good

\* exec_io serves the first request.
LEMMA ServeStep ==
  ASSUME TypeOK, PlaceInv, Good, ~Overlap', Serve, UNCHANGED <<blocked, left>>
  PROVE  Good'
<1>1. /\ blocked' = blocked /\ len' = len /\ track' = track /\ dpc = "act" /\ dpc' = "sort"
      /\ ri' = ri /\ rl' = rl /\ done' = done /\ cpc' = cpc /\ creq' = creq /\ cl' = cl
      /\ len > 0 /\ queue[0].track = track
  BY DEF Serve, AtTrack, cpuVars
<1>2. Entries' = Entries /\ Entries \subseteq Slots
  BY <1>1 DEF Entries, Kept
<1>3. 0 \in Slots
  BY DiskConstants DEF Slots
<1>4. queue' = [queue EXCEPT ![0] = [queue[0] EXCEPT !.time = @ - 1]]
  BY DEF Serve
<1>5. \A i \in Slots \ {0} : queue'[i] = queue[i]
  BY <1>4 DEF TypeOK, DiskTypeOK
<1>6. queue'[0].id = queue[0].id /\ queue'[0].track = queue[0].track
  <2> DEFINE q == queue[0]
  <2>1. q \in Request /\ queue'[0] = [q EXCEPT !.time = q.time - 1]
    BY <1>3, <1>4 DEF TypeOK, DiskTypeOK
  <2> HIDE DEF q
  <2>2. queue'[0].id = q.id /\ queue'[0].track = q.track
    BY <2>1 DEF Request
  <2> QED BY <2>2 DEF q
<1>7. \A r : (BeingPut(r)' <=> BeingPut(r)) /\ (BeingDone(r)' <=> BeingDone(r))
  BY <1>1 DEF BeingPut, BeingDone
<1>8. OwnerInv'
  <2>1. \A i \in Entries : queue'[i].id = queue[i].id
    BY <1>2, <1>5, <1>6
  <2> QED BY <1>1, <1>2, <1>7, <2>1, OwnerSame DEF Good
<1>9. LoadedInv'
  <2>1. cpc \in {"load", "store"} => queue'[len] = queue[len]
    <3> SUFFICES ASSUME cpc \in {"load", "store"} PROVE queue'[len] = queue[len]
      OBVIOUS
    <3>1. len < MAX_PCB /\ len \in Nat
      BY DEF Good, LoadedInv, TypeOK, DiskTypeOK
    <3> QED BY <1>1, <1>5, <3>1, DiskConstants DEF Slots
  <2> QED BY <1>1, <2>1 DEF Good, LoadedInv
<1>10. ServiceInv'
  BY <1>1, <1>2, <1>5, <1>6 DEF Good, ServiceInv
<1> QED BY <1>8, <1>9, <1>10 DEF Good

-----------------------------------------------------------------------------
\* exec_io takes the first request out: the hole is at 0.
LEMMA RemoveBeginStep ==
  ASSUME TypeOK, PlaceInv, Good, ~Overlap', RemoveBegin, UNCHANGED <<blocked, left>>
  PROVE  Good'
<1>1. /\ blocked' = blocked /\ len' = len /\ track' = track /\ queue' = queue
      /\ dpc = "act" /\ dpc' = "shift" /\ done' = queue[0].id /\ ri' = 0
      /\ cpc' = cpc /\ creq' = creq /\ cl' = cl /\ len > 0
  BY DEF RemoveBegin, AtTrack, cpuVars
<1>2. len \in Nat /\ 0 \in Slots
  BY DiskConstants DEF TypeOK, DiskTypeOK, Slots
<1>3. 0 \in Entries /\ Entries' = Entries \ {0} /\ Entries \subseteq Slots
  BY <1>1, <1>2 DEF Entries, Kept
<1>4. cpc = "idle" /\ cpc' = "idle"
  BY <1>1 DEF Overlap, TypeOK, DiskTypeOK
<1> DEFINE p == queue[0].id
<1>5. p \in blocked /\ p \in Procs
  BY <1>3 DEF Good, OwnerInv, TypeOK
<1>6. \A i \in Entries' : queue[i].id # p
  BY <1>3 DEF Good, OwnerInv
<1>7. \A r : Queued(r) <=> Queued(r)' \/ r = p
  BY <1>1, <1>3 DEF Queued
<1>8. \A r : r = p => ~Queued(r)'
  BY <1>1, <1>6 DEF Queued
<1>9. \A r : ~BeingPut(r) /\ ~BeingPut(r)' /\ ~BeingDone(r) /\ (BeingDone(r)' <=> r = p)
  BY <1>1, <1>4 DEF BeingPut, BeingDone
<1> HIDE DEF p
<1>10. OwnerInv'
  <2>1. \A i, j \in Entries' : queue'[i].id = queue'[j].id => i = j
    BY <1>1, <1>3 DEF Good, OwnerInv
  <2>2. \A i \in Entries' : queue'[i].id \in blocked'
    BY <1>1, <1>3 DEF Good, OwnerInv
  <2>3. \A r \in blocked' : Queued(r)' \/ BeingDone(r)'
    BY <1>1, <1>7, <1>9 DEF Good, OwnerInv
  <2>4. done' = p
    BY <1>1 DEF p
  <2>5. \A r \in Procs : BeingDone(r)' => r \in blocked' /\ ~Queued(r)'
    <3>1. \A r : BeingDone(r)' => r = p
      BY <1>9
    <3>2. \A r : r = p => r \in blocked'
      BY <1>1, <1>5
    <3> QED BY <1>8, <3>1, <3>2
  <2>6. \A r \in Procs : ~BeingPut(r)'
    BY <1>9
  <2>7. done' \in Procs
    BY <1>5, <2>4
  <2> HIDE DEF p
  <2> QED BY <2>1, <2>2, <2>3, <2>5, <2>6, <2>7 DEF OwnerInv
<1>11. LoadedInv'
  BY <1>1, <1>2, <1>4 DEF LoadedInv
<1>12. ServiceInv'
  BY <1>1, <1>3 DEF Good, ServiceInv
<1> QED BY <1>10, <1>11, <1>12 DEF Good

\* One turn of the loop moves the request behind the hole into it.
LEMMA RemoveShiftStep ==
  ASSUME TypeOK, PlaceInv, Good, ~Overlap', RemoveShift, UNCHANGED <<blocked, left>>
  PROVE  Good'
<1>1. /\ blocked' = blocked /\ len' = len /\ track' = track /\ dpc = "shift"
      /\ done' = done /\ cpc' = cpc /\ creq' = creq /\ cl' = cl
  BY DEF RemoveShift, cpuVars
<1>2. len \in Nat /\ ri \in Nat /\ ri < len /\ len <= MAX_PCB
  BY <1>1, DiskConstants DEF TypeOK, DiskTypeOK, PlaceInv, Good, LoadedInv
<1>3. Entries = {i \in Slots : i < len /\ i # ri}
  BY <1>1 DEF Entries, Kept
<1>4. cpc = "idle"
  BY <1>1 DEF Good, LoadedInv, Overlap, TypeOK, DiskTypeOK
<1>5. CASE ri < len - 1
  <2>1. /\ queue' = [queue EXCEPT ![ri] = queue[ri + 1]]
        /\ ri' = ri + 1 /\ dpc' = "shift"
    BY <1>1, <1>5 DEF RemoveShift
  <2>2. Entries' = {i \in Slots : i < len /\ i # ri + 1}
    BY <1>1, <2>1 DEF Entries, Kept
  <2>3. /\ ri \in Entries' /\ ri + 1 \in Entries /\ ri \in Slots /\ ri \notin Entries
        /\ ri + 1 \notin Entries'
        /\ Entries' \ {ri} = Entries \ {ri + 1}
        /\ Entries' \subseteq Slots
    BY <1>2, <1>3, <1>5, <2>2, DiskConstants DEF Slots
  <2>4. queue'[ri] = queue[ri + 1] /\ \A i \in Entries' \ {ri} : queue'[i] = queue[i]
    BY <2>1, <2>3 DEF TypeOK, DiskTypeOK
  <2> DEFINE f == [i \in Slots |-> IF i = ri THEN ri + 1 ELSE i]
  <2>5. /\ \A i \in Entries' : f[i] \in Entries /\ queue'[i] = queue[f[i]]
        /\ \A i \in Entries : \E j \in Entries' : f[j] = i
        /\ \A i, j \in Entries' : f[i] = f[j] => i = j
    <3>1. \A i \in Entries' : f[i] = IF i = ri THEN ri + 1 ELSE i
      BY <2>3
    <3>2. \A i \in Entries' \ {ri} : i \in Entries \ {ri + 1}
      BY <2>3
    <3>3. \A i \in Entries \ {ri + 1} : i \in Entries' \ {ri}
      BY <2>3
    <3> HIDE DEF f
    <3>4. \A i \in Entries' : f[i] \in Entries /\ queue'[i] = queue[f[i]]
      BY <2>3, <2>4, <3>1, <3>2
    <3>5. \A i \in Entries : \E j \in Entries' : f[j] = i
      BY <2>3, <3>1, <3>3
    <3>6. \A i, j \in Entries' : f[i] = f[j] => i = j
      BY <2>3, <3>1, <3>2
    <3> QED BY <3>4, <3>5, <3>6
  <2> HIDE DEF f
  <2>6. \A r : Queued(r)' <=> Queued(r)
    BY <2>5 DEF Queued
  <2>7. \A r : (BeingPut(r)' <=> BeingPut(r)) /\ (BeingDone(r)' <=> BeingDone(r))
    BY <1>1, <2>1 DEF BeingPut, BeingDone
  <2>8. OwnerInv'
    <3>1. \A i, j \in Entries' : queue'[i].id = queue'[j].id => i = j
      BY <2>5 DEF Good, OwnerInv
    <3>2. \A i \in Entries' : queue'[i].id \in blocked'
      BY <1>1, <2>5 DEF Good, OwnerInv
    <3> QED BY <1>1, <2>1, <2>6, <2>7, <3>1, <3>2 DEF Good, OwnerInv
  <2>9. LoadedInv'
    BY <1>1, <1>2, <1>4, <1>5, <2>1 DEF LoadedInv
  <2>10. ServiceInv'
    BY <1>1, <2>5 DEF Good, ServiceInv
  <2> QED BY <2>8, <2>9, <2>10 DEF Good
<1>6. CASE ~(ri < len - 1)
  <2>1. queue' = queue /\ dpc' = "load"
    BY <1>1, <1>6 DEF RemoveShift
  <2>2. Entries' = {i \in Slots : i < len - 1}
    BY <1>1, <2>1 DEF Entries, Kept
  <2>3. Entries' = Entries
    BY <1>2, <1>3, <1>6, <2>2 DEF Slots
  <2>4. \A r : (BeingPut(r)' <=> BeingPut(r)) /\ (BeingDone(r)' <=> BeingDone(r))
    BY <1>1, <2>1 DEF BeingPut, BeingDone
  <2>5. OwnerInv'
    BY <1>1, <2>1, <2>3, <2>4, OwnerSame DEF Good, OwnerInv
  <2>6. LoadedInv'
    BY <1>1, <1>4, <2>1 DEF LoadedInv
  <2>7. ServiceInv'
    BY <1>1, <2>1, <2>3 DEF Good, ServiceInv
  <2> QED BY <2>5, <2>6, <2>7 DEF Good
<1> QED BY <1>5, <1>6

\* The rest of q_remove counts the request out and clears the entry behind the
\* others.
LEMMA RemoveEndStep ==
  ASSUME TypeOK, PlaceInv, Good, ~Overlap', RemoveLoad \/ RemoveStore \/ RemoveZero,
         UNCHANGED <<blocked, left>>
  PROVE  Good'
<1>1. /\ blocked' = blocked /\ track' = track /\ ri' = ri
      /\ done' = done /\ cpc' = cpc /\ creq' = creq /\ cl' = cl
      /\ dpc \in {"load", "store", "zero"} /\ dpc' \in {"store", "zero", "finish"}
  BY DEF RemoveLoad, RemoveStore, RemoveZero, cpuVars
<1>2. cpc = "idle"
  BY <1>1 DEF Good, LoadedInv, Overlap, TypeOK, DiskTypeOK
<1>3. \A r : (BeingPut(r)' <=> BeingPut(r)) /\ (BeingDone(r)' <=> BeingDone(r))
  BY <1>1 DEF BeingPut, BeingDone
<1>4. len \in 0 .. 255
  BY DEF TypeOK, DiskTypeOK
<1>5. /\ Entries' = Entries /\ \A i \in Entries : queue'[i] = queue[i]
      /\ dpc' = "store" => rl' = len' - 1
      /\ dpc' = "zero" => rl' = len'
  <2>1. CASE RemoveLoad
    <3>1. len \in 1 .. 255
      BY <1>4, <2>1 DEF RemoveLoad, PlaceInv
    <3>2. rl' = len - 1 /\ len' = len /\ queue' = queue /\ dpc = "load" /\ dpc' = "store"
      BY <2>1, <3>1, U8Facts DEF RemoveLoad
    <3> QED BY <3>2 DEF Entries, Kept
  <2>2. CASE RemoveStore
    <3>1. rl' = rl /\ len' = rl /\ queue' = queue /\ dpc = "store" /\ dpc' = "zero"
      BY <2>2 DEF RemoveStore
    <3> QED BY <3>1 DEF Entries, Kept
  <2>3. CASE RemoveZero
    <3>1. len' = len /\ rl = len /\ dpc = "zero" /\ dpc' = "finish"
      BY <2>3 DEF RemoveZero, Good, LoadedInv
    <3>2. Entries' = Entries /\ Entries = {i \in Slots : i < len}
      BY <3>1 DEF Entries, Kept
    <3>3. \A i \in Entries : queue'[i] = queue[i]
      BY <1>4, <2>3, <3>1, <3>2 DEF RemoveZero, TypeOK, DiskTypeOK
    <3> QED BY <3>1, <3>2, <3>3
  <2> QED BY <2>1, <2>2, <2>3
<1>6. OwnerInv'
  BY <1>1, <1>3, <1>5, OwnerSame DEF Good, OwnerInv
<1>7. LoadedInv'
  BY <1>1, <1>2, <1>5 DEF LoadedInv
<1>8. ServiceInv'
  BY <1>1, <1>5 DEF Good, ServiceInv
<1> QED BY <1>6, <1>7, <1>8 DEF Good

\* disk_finish unblocks the process whose request has left.
LEMMA FinishStep ==
  ASSUME TypeOK, PlaceInv, Good, ~Overlap', disk_finish
  PROVE  Good'
<1>1. /\ blocked' = blocked \ {done} /\ len' = len /\ track' = track /\ queue' = queue
      /\ dpc = "finish" /\ dpc' = "sort" /\ rl' = rl /\ ri' = ri
      /\ cpc = "idle" /\ cpc' = cpc /\ creq' = creq /\ cl' = cl
  BY DEF disk_finish, Finished, cpuVars
<1>2. Entries' = Entries
  BY <1>1 DEF Entries, Kept
<1>3. \A r : Queued(r)' <=> Queued(r)
  BY <1>1, <1>2 DEF Queued
<1>4. \A r : ~BeingPut(r) /\ ~BeingPut(r)' /\ ~BeingDone(r)' /\ (BeingDone(r) <=> r = done)
  BY <1>1 DEF BeingPut, BeingDone
<1>5. ~Queued(done)
  BY <1>1, <1>4 DEF Good, OwnerInv
<1>6. OwnerInv'
  <2>1. \A i, j \in Entries' : queue'[i].id = queue'[j].id => i = j
    BY <1>1, <1>2 DEF Good, OwnerInv
  <2>2. \A i \in Entries' : queue'[i].id \in blocked'
    BY <1>1, <1>2, <1>5 DEF Good, OwnerInv, Queued
  <2>3. \A r \in blocked' : Queued(r)'
    BY <1>1, <1>3, <1>4 DEF Good, OwnerInv
  <2> QED BY <1>1, <1>4, <2>1, <2>2, <2>3 DEF OwnerInv
<1>7. LoadedInv'
  BY <1>1 DEF Good, LoadedInv
<1>8. ServiceInv'
  BY <1>1, <1>2 DEF Good, ServiceInv
<1> QED BY <1>6, <1>7, <1>8 DEF Good

-----------------------------------------------------------------------------
(* The theorems. *)

LEMMA GoodStep ==
  ASSUME TypeOK, PlaceInv, Good, ~Overlap', Next
  PROVE  Good'
<1>1. ASSUME DiskThread, UNCHANGED <<blocked, left>> PROVE Good'
  BY <1>1, SortStep, MoveStep, ServeStep, RemoveBeginStep, RemoveShiftStep, RemoveEndStep
    DEF DiskThread
<1>2. Disk => Good'
  BY <1>1, FinishStep DEF Disk
<1> QED BY <1>2, RequestStep, PutStep DEF Next

LEMMA StepOK == IInv /\ [RaceNext]_raceVars => IInv'
<1> SUFFICES ASSUME IInv, [RaceNext]_raceVars PROVE IInv'
  OBVIOUS
<1>1. CASE RaceNext
  <2>1. TypeOK' /\ PlaceInv'
    BY <1>1, PlaceStep DEF RaceNext, IInv
  <2>2. ~raced' => Good'
    BY <1>1, GoodStep DEF RaceNext, IInv, Good
  <2> QED BY <2>1, <2>2 DEF IInv, Good
<1>2. CASE UNCHANGED raceVars
  <2> USE <1>2 DEF raceVars, vars, diskVars, dskVars, cpuVars
  <2>1. TypeOK'
    BY DEF IInv, TypeOK, DiskTypeOK
  <2>2. PlaceInv'
    BY DEF IInv, PlaceInv
  <2>3. Entries' = Entries
    BY DEF Entries, Kept
  <2>4. \A r : Queued(r)' <=> Queued(r)
    BY <2>3 DEF Queued
  <2>5. \A r : (BeingPut(r)' <=> BeingPut(r)) /\ (BeingDone(r)' <=> BeingDone(r))
    BY DEF BeingPut, BeingDone
  <2>6. LoadedInv => LoadedInv'
    BY DEF LoadedInv, Overlap
  <2>7. OwnerInv => OwnerInv'
    BY <2>3, <2>5, OwnerSame DEF OwnerInv
  <2>8. ServiceInv => ServiceInv'
    BY <2>3 DEF ServiceInv
  <2> QED BY <2>1, <2>2, <2>6, <2>7, <2>8 DEF IInv
<1> QED BY <1>1, <1>2

\* The invariant is inductive (RaceInit and every step of disk.c keep it).
THEOREM DiskInductive == RaceSpec => []IInv
<1>1. RaceInit => IInv
  BY InitOK
<1>2. IInv /\ [RaceNext]_raceVars => IInv'
  BY StepOK
<1> QED BY <1>1, <1>2, PTL DEF RaceSpec

\* Every variable keeps its type, also after q_put and q_remove have overlapped:
\* no index of q_remove leaves the array, and neither the length nor the track
\* of the head leaves its range.
THEOREM DiskTypeCorrect == RaceSpec => []TypeOK
<1>1. IInv => TypeOK
  BY DEF IInv
<1> QED BY <1>1, DiskInductive, PTL

\* While q_put and q_remove are not running and have never overlapped, the queue
\* of disk.c holds exactly one request of each blocked process.
THEOREM QueueIsBlocked == RaceSpec => []QueueExact
<1>1. IInv => QueueExact
  <2> SUFFICES ASSUME IInv, ~raced, dpc \in {"sort", "act"}, cpc = "idle"
               PROVE  /\ {queue[i].id : i \in 0 .. len - 1} = blocked
                      /\ len = Cardinality(blocked)
    BY DEF QueueExact
  <2>1. len \in Nat /\ len <= MAX_PCB
    BY DEF IInv, TypeOK, DiskTypeOK, PlaceInv
  <2> DEFINE E == 0 .. len - 1
  <2>2. Entries = E
    BY <2>1, DiskConstants DEF Entries, Kept, Slots
  <2>3. \A p \in blocked : Queued(p)
    BY DEF IInv, OwnerInv, BeingPut, BeingDone
  <2> DEFINE f == [i \in E |-> queue[i].id]
  <2>4. /\ \A i \in E : queue[i].id \in blocked
        /\ \A i, j \in E : queue[i].id = queue[j].id => i = j
        /\ \A p \in blocked : \E i \in E : queue[i].id = p
    BY <2>2, <2>3 DEF IInv, OwnerInv, Queued
  <2>5. IsFiniteSet(E) /\ Cardinality(E) = len
    BY <2>1, FS_Interval
  <2> HIDE DEF E
  <2>6. f \in [E -> blocked]
    BY <2>4
  <2>7. (\A x, y \in E : f[x] = f[y] => x = y) /\ (\A z \in blocked : \E x \in E : f[x] = z)
    BY <2>4
  <2> HIDE DEF f
  <2>8. Cardinality(blocked) = len
    BY <2>5, <2>6, <2>7, SameSize
  <2> QED BY <2>4, <2>8 DEF E
<1> QED BY <1>1, DiskInductive, PTL

\* Until they overlap only the request at the head of the queue has been served
\* in part: sort_disk does not take the disk away from it.
THEOREM NothingElseServed == RaceSpec => []OneInService
<1>1. IInv => OneInService
  <2> SUFFICES ASSUME IInv, ~raced, NEW i \in 1 .. len - 1, dpc \in {"sort", "act"}
               PROVE  queue[i].time = DISK_SLICE
    BY DEF OneInService
  <2>1. len \in Nat /\ len <= MAX_PCB
    BY DEF IInv, TypeOK, DiskTypeOK, PlaceInv
  <2>2. i \in Entries /\ i # 0
    BY <2>1, DiskConstants DEF Entries, Kept, Slots
  <2> QED BY <2>2 DEF IInv, ServiceInv
<1> QED BY <1>1, DiskInductive, PTL

\* Shortest seek first: sort_disk puts a closest request first and exchanges
\* entries only, with or without a race.
THEOREM SortIsSSTF == RaceSpec => ClosestFirst
<1> DEFINE A == dpc = "sort" /\ dpc' = "act" /\ len > 0 =>
       /\ \A i \in 0 .. len - 1 :
            abs_diff(track, queue'[0].track) <= abs_diff(track, queue[i].track)
       /\ \A r \in {queue[i] : i \in Slots} :
            Cardinality({i \in Slots : queue'[i] = r}) =
              Cardinality({i \in Slots : queue[i] = r})
<1>1. IInv /\ [RaceNext]_raceVars => [A]_vars
  <2> SUFFICES ASSUME IInv, RaceNext, dpc = "sort", dpc' = "act", len > 0
               PROVE  A
    BY DEF raceVars
  <2>1. Sort
    <3>1. Next
      BY DEF RaceNext
    <3>2. \A p \in Procs, t \in Tracks : ~disk_request(p, t)
      BY DEF disk_request, simulate_io, dskVars
    <3>3. ~Put
      BY DEF Put, PutSteps, PutEntry, PutLoad, PutStore, dskVars
    <3>4. Disk
      BY <3>1, <3>2, <3>3 DEF Next
    <3> QED BY <3>4 DEF Disk, disk_finish, Finished, DiskThread, Idle, AtTrack, move_header,
              Serve, RemoveBegin, RemoveShift, RemoveLoad, RemoveStore, RemoveZero
  <2>2. PICK c \in Slots :
          /\ queue' = [queue EXCEPT ![0] = queue[c], ![c] = queue[0]]
          /\ \A j \in 0 .. len - 1 :
               abs_diff(track, queue[c].track) <= abs_diff(track, queue[j].track)
    BY <2>1, SortSwaps DEF IInv
  <2>3. 0 \in Slots /\ IsFiniteSet(Slots)
    BY DiskConstants, FS_Interval DEF Slots
  <2>4. /\ queue'[0] = queue[c] /\ queue'[c] = queue[0]
        /\ \A i \in Slots \ {0, c} : queue'[i] = queue[i]
    BY <2>2, <2>3 DEF IInv, TypeOK, DiskTypeOK
  <2>5. \A r : Cardinality({i \in Slots : queue'[i] = r}) =
                 Cardinality({i \in Slots : queue[i] = r})
    <3> TAKE r
    <3> DEFINE A0 == {i \in Slots : queue[i] = r}
               B0 == {i \in Slots : queue'[i] = r}
    <3>1. /\ 0 \in B0 <=> c \in A0
          /\ c \in B0 <=> 0 \in A0
          /\ \A i : i \notin {0, c} => (i \in B0 <=> i \in A0)
      BY <2>3, <2>4
    <3>2. IsFiniteSet(A0)
      BY <2>3, FS_Subset
    <3> HIDE DEF A0, B0
    <3>3. Cardinality(B0) = Cardinality(A0)
      BY <3>1, <3>2, SwapCount
    <3> QED BY <3>3 DEF A0, B0
  <2> QED BY <2>2, <2>4, <2>5
<1> QED BY <1>1, DiskInductive, PTL DEF RaceSpec, ClosestFirst
=============================================================================
