---------------------------- MODULE ChicOSProofs ----------------------------
(***************************************************************************)
(* Theorems about the kernel with its disk, for any size of the table, any *)
(* programs and users' submissions: until q_put and q_remove overlap the   *)
(* disk does what Kernel takes for granted, its queue cannot overflow, and *)
(* it holds a request of every blocked process.                            *)
(***************************************************************************)
EXTENDS ChicOS, KernelProofs

-----------------------------------------------------------------------------
(* The requests the disk has not finished, wherever they are. *)

\* How many entries q_remove still has to keep.
Kept == CASE place = "load" -> len - 1
          [] place = "store" -> rl
          [] OTHER -> len

\* Entries that hold a request which waits for its turn: during a removal not
\* the hole that the shift has reached.
Entries == {i \in Slots : i < Kept /\ (place = "shift" => i # ri)}

\* The places of a request that q_put has not counted in, and of the one that
\* q_remove has taken out.
PUT == -1
DONE == -2
InPut == IF put # "idle" THEN {PUT} ELSE {}
InDone == IF place \in {"shift", "load", "store", "zero", "finish"} THEN {DONE} ELSE {}

Places == Entries \cup InPut \cup InDone
PidAt(x) == IF x = PUT THEN creq.id ELSE IF x = DONE THEN done ELSE queue[x].id

\* Requests not yet reported: p_unblock reports one when it looks its pid up.
Issued == IF dpc = "write" THEN Places \ {DONE} ELSE Places
IssuedBy(p) == {x \in Issued : PidAt(x) = p}

-----------------------------------------------------------------------------
(* The invariant. *)

\* One program is created per quantum or submission: pids stay below the bound.
CreatedSoFar ==
  IF cpc # "sleep" THEN quantum - 1
  ELSE IF quantum < QUANTUM_MAX THEN quantum ELSE LOAD_MAX
CreatedInv ==
  /\ quantum <= QUANTUM_MAX /\ submitted <= MaxUser
  /\ last_pid <= submitted + CreatedSoFar

\* The two threads' loaded values are those of the queue.
LoadedInv ==
  /\ ~D!Overlap /\ len <= MAX_PCB
  /\ place = "shift" => ri < len
  /\ place = "load" => len > 0
  /\ place = "store" => rl = len - 1
  /\ place = "zero" => rl = len
  /\ put \in {"load", "store"} => cl = len /\ len < MAX_PCB /\ queue[len] = creq
  /\ dpc = "write" => place = "finish"

\* The requests in the disk were issued.
IssuedInv == \A p \in Pids : Cardinality(IssuedBy(p)) <= io[p]

\* A request or a cell of a ring belongs to a stopped process each.  It need not
\* be its own: a write to a moved slot lets the wrong process go on, and the
\* rings then hold processes that do not wait.
StoppedInv ==
  IsFiniteSet(Cells) /\ Cardinality(Places) + Cardinality(Cells) <= Cardinality(Stopped)

\* No process above the hole of a compaction has the pid of its stale copy.
HoleInv ==
  cpc = "shift" =>
    \A l \in Slots : Hole < l /\ Occupied(l) => stack[Hole].pid < stack[l].pid

\* Without such a write it is: a blocked process has one request and every
\* request belongs to a blocked process.
ServedInv ==
  stale \/ (/\ \A p \in Pids : IsBlocked(p) => \E x \in Places : PidAt(x) = p
            /\ \A x \in Places : IsBlocked(PidAt(x))
            /\ \A x, y \in Places : PidAt(x) = PidAt(y) => x = y)

CoreInv == /\ IInv /\ CreatedInv /\ D!DiskTypeOK /\ LoadedInv /\ IssuedInv
           /\ StoppedInv /\ SelectInv /\ HoleInv /\ ServedInv

\* And the rings of the semaphores hold processes that wait.
WaitersInv == stale \/ RingsInv

\* The inductive invariant.
ChicInv == raced \/ (CoreInv /\ WaitersInv)

-----------------------------------------------------------------------------
(* Facts of one state. *)

\* A process that exists has a pid within the bound.
LEMMA PidRange ==
  ASSUME IInv, CreatedInv, NEW k \in Slots, Occupied(k)
  PROVE  stack[k].pid \in Pids
<1>1. stack[k].pid \in Nat /\ stack[k].pid < curr /\ curr <= last_pid
  BY TypedTable DEF IInv, TableInv, CreateInv, TypeOK, Tables, Process
<1>2. /\ LOAD_MAX \in Nat /\ MaxUser \in Nat /\ quantum \in Nat /\ submitted \in Nat
      /\ last_pid \in Nat /\ curr \in Nat
  BY KernelConstants DEF KernelConstants, IInv, TypeOK
<1>3. CreatedSoFar <= LOAD_MAX /\ CreatedSoFar \in Int
  BY <1>2 DEF CreatedSoFar, CreatedInv, QUANTUM_MAX
<1>4. last_pid <= LOAD_MAX + MaxUser
  BY <1>2, <1>3 DEF CreatedInv
<1> QED BY <1>1, <1>2, <1>4 DEF Pids

\* Among the live slots a pid stands once, and p_find finds it there.
LEMMA Unique ==
  ASSUME IInv, HoleInv, NEW k \in Slots \ {Hole}, Occupied(k)
  PROVE  p_find(stack[k].pid) = k
<1>0. Slots \subseteq Nat /\ k \in Nat
  BY DEF Slots
<1>1. \A j \in Slots : stack[j].pid \in Nat
  BY TypedTable DEF Tables, Process
<1>2. \A j \in Slots : j < k => stack[j].pid # stack[k].pid
  <2> SUFFICES ASSUME NEW j \in Slots, j < k PROVE stack[j].pid # stack[k].pid
    OBVIOUS
  <2>1. CASE ~Occupied(j)
    BY <1>0, <2>1 DEF IInv, TableInv
  <2>2. CASE Occupied(j) /\ j # Hole
    BY <1>1, <2>2 DEF IInv, PidsAscend
  <2>3. CASE j = Hole
    <3>1. cpc = "shift"
      BY <2>3, <1>0, KernelConstants DEF Hole, NULL, Slots, KernelConstants
    <3> QED BY <1>1, <2>3, <3>1 DEF HoleInv
  <2> QED BY <2>1, <2>2, <2>3
<1>3. /\ p_find(stack[k].pid) \in Slots
      /\ stack[p_find(stack[k].pid)].pid = stack[k].pid
      /\ \A j \in Slots : j < p_find(stack[k].pid) => stack[j].pid # stack[k].pid
  BY KernelConstants, PFind DEF KernelConstants
<1> DEFINE f == p_find(stack[k].pid)
<1> HIDE DEF f
<1>4. f \in Nat /\ ~(f < k) /\ ~(k < f)
  BY <1>0, <1>2, <1>3 DEF f
<1> QED BY <1>0, <1>4 DEF f

\* The places of requests are finitely many.
LEMMA PlacesFinite ==
  /\ IsFiniteSet(Places) /\ Cardinality(Places) \in Nat
  /\ \A p : IsFiniteSet(IssuedBy(p)) /\ Cardinality(IssuedBy(p)) \in Nat
  /\ PUT \notin Slots /\ DONE \notin Slots /\ PUT # DONE
<1>1. IsFiniteSet(Slots)
  BY KernelConstants, FS_Interval DEF Slots, KernelConstants
<1>2. IsFiniteSet(Entries)
  BY <1>1, FS_Subset DEF Entries
<1>3. IsFiniteSet(InPut) /\ IsFiniteSet(InDone)
  BY FS_Singleton, FS_EmptySet DEF InPut, InDone
<1>4. IsFiniteSet(Places)
  BY <1>2, <1>3, FS_Union DEF Places
<1>5. \A p : IssuedBy(p) \in SUBSET Places
  BY DEF IssuedBy, Issued
<1>6. \A p : IsFiniteSet(IssuedBy(p))
  BY <1>4, <1>5, FS_Subset
<1>7. PUT \notin Slots /\ DONE \notin Slots /\ PUT # DONE
  BY DEF PUT, DONE, Slots
<1> QED BY <1>4, <1>6, <1>7, FS_CardinalityType

\* While a request is in q_put the queue has room for it.
LEMMA QueueHasRoom ==
  ASSUME CoreInv, put # "idle", place \notin {"shift", "load", "store"}
  PROVE  len < MAX_PCB - 1 /\ len \in 0 .. 254
<1>1. len \in 0 .. 255 /\ len <= MAX_PCB /\ MAX_PCB \in 2 .. 256
  BY KernelConstants DEF CoreInv, D!DiskTypeOK, LoadedInv, KernelConstants
<1>2. Entries = 0 .. len - 1 /\ InPut = {PUT}
  <2>1. Entries = {i \in Slots : i < len}
    BY DEF Entries, Kept
  <2> QED BY <1>1, <2>1 DEF InPut, Slots
<1>3. IsFiniteSet(0 .. len - 1) /\ Cardinality(0 .. len - 1) = len
  BY <1>1, FS_Interval
<1>4. PUT \notin 0 .. len - 1
  BY DEF PUT
<1>5. /\ IsFiniteSet((0 .. len - 1) \cup {PUT})
      /\ Cardinality((0 .. len - 1) \cup {PUT}) = len + 1
  BY <1>3, <1>4, FS_AddElement
<1>6. (0 .. len - 1) \cup {PUT} \in SUBSET Places
  BY <1>2 DEF Places
<1>7. len + 1 <= Cardinality(Places)
  BY <1>5, <1>6, PlacesFinite, FS_Subset
<1>8. Cardinality(Cells) \in Nat
  BY FS_CardinalityType DEF CoreInv, StoppedInv
<1>9. Cardinality(Places) <= MAX_PCB - 1
  BY <1>1, <1>8, StoppedFinite, PlacesFinite DEF CoreInv, StoppedInv
<1> QED BY <1>1, <1>7, <1>9, PlacesFinite



-----------------------------------------------------------------------------
(* Steps of the kernel that leave the disk alone. *)

\* The requests of the disk are where they were.
LEMMA DiskUntouched ==
  ASSUME CoreInv, TypeOK', UNCHANGED <<diskVars, io, dpc>>
  PROVE  /\ Places' = Places /\ \A x : PidAt(x)' = PidAt(x)
         /\ D!DiskTypeOK' /\ LoadedInv' /\ IssuedInv'
<1>1. /\ queue' = queue /\ len' = len /\ track' = track /\ place' = place /\ ri' = ri
      /\ rl' = rl /\ done' = done /\ put' = put /\ creq' = creq /\ cl' = cl
      /\ io' = io /\ dpc' = dpc
  BY DEF diskVars
<1>2. D!DiskTypeOK' /\ LoadedInv'
  BY <1>1 DEF CoreInv, D!DiskTypeOK, LoadedInv, D!Overlap, TypeOK
<1>3. Entries' = Entries /\ InPut' = InPut /\ InDone' = InDone
  BY <1>1 DEF Entries, Kept, InPut, InDone
<1>4. Places' = Places
  BY <1>3 DEF Places
<1>5. \A x : PidAt(x)' = PidAt(x)
  BY <1>1 DEF PidAt
<1>6. Issued' = Issued
  BY <1>1, <1>4 DEF Issued
<1>7. \A p : IssuedBy(p)' = IssuedBy(p)
  BY <1>5, <1>6 DEF IssuedBy
<1>8. IssuedInv'
  BY <1>1, <1>7 DEF CoreInv, IssuedInv
<1> QED BY <1>2, <1>4, <1>5, <1>8

\* The invariants that relate the requests to the processes survive a step that
\* neither stops nor resumes one.
LEMMA StoppedStays ==
  ASSUME CoreInv, Places' = Places, \A x : PidAt(x)' = PidAt(x),
         SameStops, waiters' = waiters, stale => stale'
  PROVE  StoppedInv' /\ ServedInv'
<1>1. Cells' = Cells
  BY DEF Cells
<1>2. StoppedInv'
  BY <1>1 DEF CoreInv, StoppedInv, SameStops
<1>3. ServedInv'
  BY DEF CoreInv, ServedInv, SameStops
<1> QED BY <1>2, <1>3

\* The processes above the hole stay where they are.
LEMMA HoleStays ==
  ASSUME CoreInv, SameProcs(stack, stack'), cj' = cj, cpc = "shift" <=> cpc' = "shift"
  PROVE  Hole' = Hole /\ HoleInv'
<1>1. Hole' = Hole
  BY DEF Hole
<1>2. CASE cpc' = "shift"
  <2>1. cj - 1 = Hole /\ (cj - 1 \in Slots)
    <3>1. cj \in 1 .. MAX_PCB
      BY <1>2 DEF CoreInv, IInv, PlaceInv
    <3> QED BY <1>2, <3>1, KernelConstants DEF Hole, Slots, KernelConstants
  <2>2. \A k \in Slots : /\ Occupied(k)' <=> Occupied(k)
                         /\ stack'[k].pid = stack[k].pid
    BY DEF SameProcs, Occupied
  <2> QED BY <1>1, <1>2, <2>1, <2>2 DEF CoreInv, HoleInv
<1>3. CASE cpc' # "shift"
  BY <1>1, <1>3 DEF HoleInv
<1> QED BY <1>1, <1>2, <1>3

\* The number of processes created so far stays below its bound.
LEMMA CreatedStep ==
  ASSUME CoreInv, CpuThread \/ RenderThread
  PROVE  CreatedInv'
<1>1. /\ LOAD_MAX \in Nat /\ MaxUser \in Nat /\ quantum \in Nat /\ submitted \in Nat
      /\ last_pid \in Nat
      /\ load \in Loads /\ CreatedInv
  BY KernelConstants DEF KernelConstants, CoreInv, IInv, TypeOK
<1>2. CASE Tick
  BY <1>1, <1>2 DEF Tick, At, CreatedInv, CreatedSoFar, QUANTUM_MAX, pcbVars, rndVars
<1>3. CASE Load
  <2>1. cpc = "load" /\ cpc' = "sleep" /\ quantum' = quantum /\ submitted' = submitted
    BY <1>3 DEF Load, At, rndVars
  <2>2. last_pid' = last_pid \/ (last_pid' = last_pid + 1 /\ quantum <= Len(load))
    BY <1>3 DEF Load, pcbVars
  <2>3. Len(load) <= LOAD_MAX /\ Len(load) \in Nat
    BY <1>1, KernelConstants DEF KernelConstants
  <2> QED BY <1>1, <2>1, <2>2, <2>3 DEF CreatedInv, CreatedSoFar, QUANTUM_MAX
<1>4. ASSUME NEW prog \in UserPrograms, Submit(prog)
      PROVE  CreatedInv'
  <2>1. /\ submitted < MaxUser /\ submitted' = submitted + 1
        /\ cpc' = cpc /\ quantum' = quantum
        /\ last_pid' = last_pid \/ last_pid' = last_pid + 1
    BY <1>4 DEF Submit, cpuVars
  <2> QED BY <1>1, <2>1 DEF CreatedInv, CreatedSoFar
<1>5. CASE ~Tick /\ ~Load /\ ~\E prog \in UserPrograms : Submit(prog)
  <2>1. /\ quantum' = quantum /\ submitted' = submitted /\ last_pid' = last_pid
        /\ cpc' = "sleep" <=> cpc = "sleep"
    BY <1>5 DEF CpuThread, RenderThread, NoRunning, ReapScan, Shift, ReapDone, Select,
                SelectFault, Dispatch, Kill, ExecNull, ExecCompute, ExecOther, ExecP, ExecV,
                Hang, ExecDisk, ExecDiskMiss, LoadBroken, SubmitBroken, SubmitAppend,
                SubmitLog, DrawFault, Fault, At, CanRun, pcbVars, cpuVars, rndVars
  <2> QED BY <2>1 DEF CoreInv, CreatedInv, CreatedSoFar
<1> QED BY <1>2, <1>3, <1>4, <1>5

\* The requests stay where they are.
RequestsStay ==
  /\ Places' = Places /\ \A x : PidAt(x)' = PidAt(x)
  /\ stale => stale'

\* Steps that write no table, or only statuses of processes that run.
LEMMA CalmActions ==
  ASSUME CoreInv, RequestsStay, CalmStep
  PROVE  StoppedInv' /\ ServedInv' /\ HoleInv'
<1>1. /\ Calm(stack, stack') /\ cj' = cj /\ (cpc = "shift" <=> cpc' = "shift")
      /\ Hole' = Hole /\ waiters' = waiters
  BY CalmSteps DEF CoreInv
<1>2. HoleInv'
  BY <1>1, HoleStays DEF Calm
<1>3. StoppedInv' /\ ServedInv'
  BY <1>1, CalmTable, StoppedStays DEF RequestsStay
<1> QED BY <1>2, <1>3

\* The compaction begins: the processes above the hole are younger.
LEMMA ReapActions ==
  ASSUME CoreInv, RequestsStay, ReapScan, stack[ci].status = "KILL"
  PROVE  StoppedInv' /\ ServedInv' /\ HoleInv'
<1>1. /\ SameStops /\ stack' = stack /\ waiters' = waiters
      /\ cpc' = "shift" /\ ci \in Slots /\ Occupied(ci) /\ Hole = NULL /\ Hole' = ci
  BY ReapStops DEF CoreInv
<1>2. ci \in Nat /\ NULL \notin Slots
  BY <1>1 DEF NULL, Slots
<1>3. HoleInv'
  BY <1>1, <1>2 DEF CoreInv, IInv, PidsAscend, HoleInv, Occupied
<1> QED BY <1>1, <1>3, StoppedStays DEF RequestsStay

\* One copy of the compaction, and its end.
LEMMA ShiftActions ==
  ASSUME CoreInv, RequestsStay, Shift
  PROVE  StoppedInv' /\ ServedInv' /\ HoleInv'
<1>1. SameStops /\ waiters' = waiters
  BY CopyStops, EndStops DEF CoreInv
<1>2. HoleInv'
  <2>1. CASE ~(cj < MAX_PCB)
    <3>1. cpc' = "reap"
      BY <2>1, EndStops DEF CoreInv
    <3> QED BY <3>1 DEF HoleInv
  <2>2. CASE cj < MAX_PCB
    <3>1. /\ cpc' = "shift"
          /\ cj \in Slots /\ cj - 1 \in Slots /\ cj \in Nat
          /\ Hole = cj - 1 /\ Hole' = cj /\ cj - 1 < cj /\ cj - 1 # cj
          /\ \A k \in Slots : stack'[k] = IF k = cj - 1 THEN stack[cj] ELSE stack[k]
          /\ \A k \in Slots :
               Occupied(k)' <=> IF k = cj - 1 THEN Occupied(cj) ELSE Occupied(k)
      BY <2>2, CopyStops DEF CoreInv
    <3> SUFFICES ASSUME NEW l \in Slots, cj < l, Occupied(l)'
                 PROVE  stack'[cj].pid < stack'[l].pid
      BY <3>1 DEF HoleInv
    <3>2. l # cj - 1 /\ Occupied(l) /\ stack'[l] = stack[l] /\ stack'[cj] = stack[cj]
      BY <3>1 DEF Slots
    <3>3. CASE Occupied(cj)
      BY <3>1, <3>2, <3>3 DEF CoreInv, IInv, PidsAscend
    <3>4. CASE ~Occupied(cj)
      <4>1. stack[l].pid \in Nat
        BY TypedTable DEF CoreInv, Tables, Process
      <4>2. l # 0
        BY <3>1
      <4>3. stack[cj].pid = 0 /\ stack[l].pid # 0
        BY <3>1, <3>2, <3>4, <4>2 DEF CoreInv, IInv, TableInv
      <4> QED BY <3>2, <4>1, <4>3
    <3> QED BY <3>3, <3>4
  <2> QED BY <2>1, <2>2
<1> QED BY <1>1, <1>2, StoppedStays DEF RequestsStay

\* p_create fills an empty slot, also in the middle of a compaction, with the
\* youngest process.
LEMMA CreateActions ==
  ASSUME CoreInv, RequestsStay, SubmitAppend \/ (Load /\ ~UNCHANGED pcbVars)
  PROVE  StoppedInv' /\ ServedInv' /\ HoleInv'
<1>1. /\ SameStops /\ waiters' = waiters
      /\ cj' = cj /\ (cpc = "shift" <=> cpc' = "shift") /\ Hole' = Hole
      /\ curr \in Slots /\ curr \in Nat
      /\ stack'[curr].pid = curr
      /\ \A k \in Slots : k # curr => stack'[k] = stack[k]
      /\ \A k \in Slots : Occupied(k)' <=> k = curr \/ Occupied(k)
  BY CreateStops DEF CoreInv
<1>2. HoleInv'
  <2> SUFFICES ASSUME cpc = "shift", NEW l \in Slots, Hole < l, Occupied(l)'
               PROVE  stack'[Hole].pid < stack'[l].pid
    BY <1>1 DEF HoleInv
  <2>1. Hole \in Slots /\ Hole \in Nat /\ l \in Nat
    <3>1. cj \in 1 .. MAX_PCB
      BY DEF CoreInv, IInv, PlaceInv
    <3> QED BY <3>1, KernelConstants DEF Hole, Slots, KernelConstants
  <2>2. l = curr \/ (l < curr /\ Occupied(l))
    BY <1>1 DEF CoreInv, IInv, TableInv
  <2>3. Hole # curr /\ stack'[Hole] = stack[Hole] /\ Hole < curr
    BY <1>1, <2>1, <2>2
  <2>4. stack[Hole].pid < curr
    BY <1>1, <2>1, <2>3 DEF CoreInv, IInv, TableInv
  <2>5. CASE l = curr
    BY <1>1, <2>3, <2>4, <2>5
  <2>6. CASE l # curr
    BY <1>1, <2>2, <2>3, <2>6 DEF CoreInv, HoleInv
  <2> QED BY <2>5, <2>6
<1> QED BY <1>1, <1>2, StoppedStays DEF RequestsStay

-----------------------------------------------------------------------------
(* semaphoreP and semaphoreV. *)

\* P stops the process that runs, and uses at most one cell for it.
LEMMA WaitStops ==
  ASSUME CoreInv, RequestsStay, Executing, cpc' = "load", NEW z \in Sems,
         waiters' = [waiters EXCEPT ![z] = waiter_push(@, stack[csel].pid)],
         stack' = Forward(Mark(stack, csel, "WAITING"))
  PROVE  StoppedInv' /\ ServedInv' /\ HoleInv'
<1>1. /\ Cardinality(Stopped') = Cardinality(Stopped) + 1
      /\ IsFiniteSet(Cells') /\ Cardinality(Cells') <= Cardinality(Cells) + 1
      /\ \A p : IsBlocked(p)' <=> IsBlocked(p)
  BY WaitCounts DEF CoreInv, StoppedInv
<1>2. StoppedInv'
  <2>1. /\ Cardinality(Places) + Cardinality(Cells) <= Cardinality(Stopped)
        /\ IsFiniteSet(Cells)
    BY DEF CoreInv, StoppedInv
  <2>2. /\ Cardinality(Places) \in Nat /\ Cardinality(Cells) \in Nat
        /\ Cardinality(Cells') \in Nat /\ Cardinality(Stopped) \in Nat
    BY <1>1, <2>1, PlacesFinite, StoppedFinite, FS_CardinalityType DEF CoreInv
  <2> QED BY <1>1, <2>1, <2>2 DEF StoppedInv, RequestsStay
<1>3. ServedInv'
  BY <1>1 DEF CoreInv, ServedInv, RequestsStay
<1>4. HoleInv'
  BY DEF HoleInv
<1> QED BY <1>2, <1>3, <1>4

\* V empties a cell and lets at most one process go on.
LEMMA WakeStops ==
  ASSUME CoreInv, RequestsStay, Executing, cpc' = "load", NEW z \in Sems,
         waiters[z] # <<>>, NEW k0, waiters' = [waiters EXCEPT ![z] = Tail(@)],
         stack' = Forward(Mark(stack, k0, "READY")),
         stale \/ stack[k0].status = "WAITING"
  PROVE  StoppedInv' /\ ServedInv' /\ HoleInv'
<1>1. /\ Cardinality(Stopped') >= Cardinality(Stopped) - 1 /\ Cardinality(Stopped') \in Nat
      /\ IsFiniteSet(Cells') /\ Cardinality(Cells') = Cardinality(Cells) - 1
      /\ \A p : IsBlocked(p)' => IsBlocked(p)
      /\ stale \/ \A p : IsBlocked(p) => IsBlocked(p)'
  BY WakeCounts DEF CoreInv, StoppedInv
<1>2. StoppedInv'
  <2>1. /\ Cardinality(Places) + Cardinality(Cells) <= Cardinality(Stopped)
        /\ IsFiniteSet(Cells)
    BY DEF CoreInv, StoppedInv
  <2>2. /\ Cardinality(Places) \in Nat /\ Cardinality(Cells) \in Nat
        /\ Cardinality(Stopped) \in Nat
    BY <2>1, PlacesFinite, StoppedFinite, FS_CardinalityType DEF CoreInv
  <2> QED BY <1>1, <2>1, <2>2 DEF StoppedInv, RequestsStay
<1>3. ServedInv'
  BY <1>1 DEF CoreInv, ServedInv, RequestsStay
<1>4. HoleInv'
  BY DEF HoleInv
<1> QED BY <1>2, <1>3, <1>4

\* semaphoreP and semaphoreV, with or without a process to stop or to wake.
LEMMA SemaphoreActions ==
  ASSUME CoreInv, WaitersInv, RequestsStay, ExecP \/ ExecV
  PROVE  StoppedInv' /\ ServedInv' /\ HoleInv'
<1>1. /\ Executing /\ cpc \in {"exec", "run"} /\ cpc' = "load" /\ cj' = cj
      /\ IInv /\ sems \subseteq Sems
  BY DEF ExecP, ExecV, CanRun, At, Executing, CoreInv, IInv, TypeOK
<1>2. CASE stack' = Forward(stack) /\ waiters' = waiters
  <2>1. Calm(stack, stack') /\ Hole' = Hole
    BY <1>1, <1>2, ForwardCalm DEF Hole
  <2>2. HoleInv'
    BY <1>1 DEF HoleInv
  <2> QED BY <1>2, <2>1, <2>2, CalmTable, StoppedStays DEF RequestsStay
<1>3. CASE ExecP /\ ~(stack' = Forward(stack) /\ waiters' = waiters)
  <2>1. PICK z \in sems :
          /\ waiters' = [waiters EXCEPT ![z] = waiter_push(@, stack[csel].pid)]
          /\ stack' = Forward(Mark(stack, csel, "WAITING"))
    BY <1>1, <1>3, PWaits
  <2> QED BY <1>1, <2>1, WaitStops
<1>4. CASE ExecV /\ ~(stack' = Forward(stack) /\ waiters' = waiters)
  <2>1. PICK z \in sems :
          /\ waiters[z] # <<>> /\ waiters' = [waiters EXCEPT ![z] = Tail(@)]
          /\ stack' = Forward(Mark(stack, p_find(Head(waiters[z])), "READY"))
    BY <1>1, <1>4, VWakes
  <2> DEFINE k0 == p_find(Head(waiters[z]))
  <2>2. stale \/ stack[k0].status = "WAITING"
    <3>1. z \in Sems /\ waiters[z] \in Seq(Nat)
      BY <1>1 DEF IInv, TypeOK
    <3> QED BY <1>1, <2>1, <3>1, PoppedWaits DEF WaitersInv
  <2>3. stack' = Forward(Mark(stack, k0, "READY"))
    BY <2>1
  <2> HIDE DEF k0
  <2> QED BY <1>1, <2>1, <2>2, <2>3, WakeStops
<1> QED BY <1>2, <1>3, <1>4

\* A disk_request changes the count of issued requests, so no other step does.
LEMMA RequestCounts ==
  ASSUME CoreInv, ExecDisk
  PROVE  Running.pid \in Pids /\ io' = [io EXCEPT ![Running.pid] = @ + 1] /\ io' # io
<1>1. Executing
  BY DEF ExecDisk, CanRun, At, Executing
<1>2. Running.pid \in Pids
  BY <1>1, KernelConstants, ExecFacts, PidRange DEF CoreInv, Running
<1>3. io \in [Pids -> Nat] /\ io' = [io EXCEPT ![Running.pid] = @ + 1]
  BY DEF ExecDisk, CoreInv, IInv, TypeOK
<1>4. io'[Running.pid] = io[Running.pid] + 1 /\ io[Running.pid] \in Nat
  BY <1>2, <1>3
<1> QED BY <1>2, <1>3, <1>4

\* Every step of the kernel but disk_request.
LEMMA KernelStepInv ==
  ASSUME CoreInv, WaitersInv, KernelStep, stale => stale'
  PROVE  CoreInv'
<1>1. CpuThread \/ RenderThread
  BY DEF KernelStep
<1>2. ~ExecDisk /\ io' = io /\ UNCHANGED diskVars
  BY RequestCounts DEF KernelStep
<1>3. dpc' = dpc
  BY <1>1 DEF CpuThread, RenderThread, Tick, NoRunning, ReapScan, Shift, ReapDone, Select,
              SelectFault, Dispatch, Kill, ExecNull, ExecCompute, ExecOther, ExecP, ExecV,
              Hang, ExecDisk, ExecDiskMiss, Load, LoadBroken, Submit, SubmitBroken,
              SubmitAppend, SubmitLog, DrawFault, Fault, dskVars
<1>4. IInv' /\ TypeOK'
  <2>1. IInv'
    BY <1>1, KernelConstants, NextInv DEF CoreInv, Next
  <2> QED BY <2>1 DEF IInv
<1>5. /\ Places' = Places /\ \A x : PidAt(x)' = PidAt(x)
      /\ D!DiskTypeOK' /\ LoadedInv' /\ IssuedInv'
  BY <1>2, <1>3, <1>4, DiskUntouched
<1>6. CreatedInv' /\ SelectInv'
  BY <1>1, CreatedStep, SelectStep DEF CoreInv, Next
<1>7. RequestsStay
  BY <1>5 DEF RequestsStay
<1>8. StoppedInv' /\ ServedInv' /\ HoleInv'
  <2>1. CASE RenderThread
    BY <1>7, <2>1, CalmActions, CreateActions
       DEF CalmStep, RenderThread, SubmitBroken, DrawFault
  <2>2. CASE CpuThread
    <3>1. CASE ReapScan
      BY <1>7, <3>1, CalmActions, ReapActions DEF CalmStep
    <3>2. CASE Shift
      BY <1>7, <3>2, ShiftActions
    <3>3. CASE ExecP \/ ExecV
      BY <1>7, <3>3, SemaphoreActions
    <3>4. CASE Load
      BY <1>7, <3>4, CalmActions, CreateActions DEF CalmStep
    <3>5. CASE \/ Tick \/ NoRunning \/ ReapDone \/ Select \/ Fault \/ Dispatch \/ Kill
               \/ ExecCompute \/ ExecOther \/ Hang
      BY <1>7, <3>5, CalmActions DEF CalmStep
    <3> QED BY <1>2, <2>2, <3>1, <3>2, <3>3, <3>4, <3>5
            DEF CpuThread, SelectFault, ExecNull, ExecDiskMiss, LoadBroken
  <2> QED BY <1>1, <2>1, <2>2
<1> QED BY <1>4, <1>5, <1>6, <1>8 DEF CoreInv

-----------------------------------------------------------------------------
(* Steps of the disk that leave the kernel alone. *)

\* A step that moves requests from place to place, or drops some, holds no more
\* of them than before, neither of all processes nor of one.
LEMMA RequestsMove ==
  ASSUME NEW g \in [Places' -> Places],
         \A y, z \in Places' : g[y] = g[z] => y = z,
         \A y \in Places' : PidAt(y)' = PidAt(g[y]),
         \A y \in Issued' : g[y] \in Issued
  PROVE  /\ IsFiniteSet(Places') /\ Cardinality(Places') <= Cardinality(Places)
         /\ \A p : IsFiniteSet(IssuedBy(p)') /\
                   Cardinality(IssuedBy(p)') <= Cardinality(IssuedBy(p))
<1> DEFINE P == Places'
           I == Issued'
           B(p) == IssuedBy(p)'
<1>1. IsFiniteSet(P) /\ Cardinality(P) <= Cardinality(Places)
  <2>1. g \in [P -> Places] /\ \A y, z \in P : g[y] = g[z] => y = z
    OBVIOUS
  <2> HIDE DEF P
  <2> QED BY <2>1, PlacesFinite, NotMore
<1>2. \A p : \A y \in B(p) : y \in P /\ g[y] \in IssuedBy(p)
  BY DEF IssuedBy, Issued
<1>3. ASSUME NEW p
      PROVE  IsFiniteSet(B(p)) /\ Cardinality(B(p)) <= Cardinality(IssuedBy(p))
  <2> DEFINE S == B(p)
             T == IssuedBy(p)
             f == [y \in S |-> g[y]]
  <2>1. f \in [S -> T] /\ \A y, z \in S : f[y] = f[z] => y = z
    BY <1>2
  <2>2. IsFiniteSet(T)
    BY PlacesFinite
  <2> HIDE DEF S, T, f
  <2>3. IsFiniteSet(S) /\ Cardinality(S) <= Cardinality(T)
    BY <2>1, <2>2, NotMore
  <2> QED BY <2>3 DEF S, T
<1> QED BY <1>1, <1>3

\* A step of the disk that loses no request and makes up none.
LEMMA DiskMoves ==
  ASSUME CoreInv, UNCHANGED vars, stale => stale', D!DiskTypeOK', LoadedInv',
         NEW g \in [Places' -> Places],
         \A y, z \in Places' : g[y] = g[z] => y = z,
         \A y \in Places' : PidAt(y)' = PidAt(g[y]),
         \A x \in Places : \E y \in Places' : g[y] = x,
         dpc = "write" => \A y \in Places' : g[y] = DONE => y = DONE
  PROVE  CoreInv'
<1>1. UNCHANGED <<stack, curr, last, last_pid, cpc, ci, cj, csel, quantum, load, cpu_s,
                  rpc, rnew, submitted, dpc, dptr, io, value, waiters, sems, mutex, sys>>
  BY DEF vars, pcbVars, cpuVars, rndVars, dskVars, semVars
<1>2. IInv'
  BY KernelConstants, NextInv DEF CoreInv
<1>3. CreatedInv' /\ SelectInv' /\ HoleInv'
  BY <1>1 DEF CoreInv, CreatedInv, CreatedSoFar, SelectInv, HoleInv, Hole, Occupied
<1>4. \A y \in Issued' : g[y] \in Issued
  BY <1>1 DEF Issued
<1>5. /\ IsFiniteSet(Places') /\ Cardinality(Places') <= Cardinality(Places)
      /\ \A p : IsFiniteSet(IssuedBy(p)') /\
                Cardinality(IssuedBy(p)') <= Cardinality(IssuedBy(p))
  BY <1>4, RequestsMove
<1>6. IssuedInv'
  <2> SUFFICES ASSUME NEW p \in Pids PROVE Cardinality(IssuedBy(p)') <= io[p]
    BY <1>1 DEF IssuedInv
  <2>1. /\ Cardinality(IssuedBy(p)') \in Nat /\ Cardinality(IssuedBy(p)) \in Nat
        /\ io[p] \in Nat /\ Cardinality(IssuedBy(p)) <= io[p]
    BY <1>5, PlacesFinite, FS_CardinalityType DEF CoreInv, IssuedInv, IInv, TypeOK
  <2> QED BY <1>5, <2>1
<1>7. StoppedInv'
  <2>1. Stopped' = Stopped /\ Cells' = Cells
    BY <1>1 DEF Stopped, Cells, Hole, Occupied
  <2>2. /\ Cardinality(Places') \in Nat /\ Cardinality(Places) \in Nat
        /\ Cardinality(Cells) \in Nat /\ Cardinality(Stopped) \in Nat
    BY <1>5, PlacesFinite, StoppedFinite, FS_CardinalityType DEF CoreInv, StoppedInv
  <2> QED BY <1>5, <2>1, <2>2 DEF CoreInv, StoppedInv
<1>8. ServedInv'
  <2>1. \A p : IsBlocked(p)' <=> IsBlocked(p)
    BY <1>1 DEF IsBlocked, Hole, Occupied
  <2> SUFFICES ASSUME ~stale PROVE ServedInv'
    BY DEF ServedInv
  <2>2. ServedInv
    BY DEF CoreInv
  <2>3. ASSUME NEW p \in Pids, IsBlocked(p)' PROVE \E y \in Places' : PidAt(y)' = p
    BY <2>1, <2>2, <2>3 DEF ServedInv
  <2>4. ASSUME NEW y \in Places' PROVE IsBlocked(PidAt(y))'
    <3>1. PICK p : p = PidAt(y)'
      OBVIOUS
    <3>2. g[y] \in Places /\ IsBlocked(p)
      BY <2>2, <3>1 DEF ServedInv
    <3>3. IsBlocked(p)'
      BY <2>1, <3>2
    <3> QED BY <3>1, <3>3 DEF IsBlocked
  <2>5. ASSUME NEW y \in Places', NEW z \in Places', PidAt(y)' = PidAt(z)' PROVE y = z
    <3>1. PidAt(g[y]) = PidAt(g[z]) /\ g[y] \in Places /\ g[z] \in Places
      BY <2>5
    <3> QED BY <2>2, <3>1 DEF ServedInv
  <2> QED BY <2>3, <2>4, <2>5 DEF ServedInv
<1> QED BY <1>2, <1>3, <1>6, <1>7, <1>8 DEF CoreInv

\* A step of the disk after which every request is where it was.
LEMMA DiskStays ==
  ASSUME CoreInv, UNCHANGED vars, stale => stale', D!DiskTypeOK', LoadedInv',
         Places' = Places, \A x \in Places : PidAt(x)' = PidAt(x)
  PROVE  CoreInv'
<1> DEFINE g == [y \in Places' |-> y]
<1>1. /\ g \in [Places' -> Places]
      /\ \A y, z \in Places' : g[y] = g[z] => y = z
      /\ \A y \in Places' : PidAt(y)' = PidAt(g[y])
      /\ \A x \in Places : \E y \in Places' : g[y] = x
      /\ \A y \in Places' : g[y] = DONE => y = DONE
  OBVIOUS
<1> HIDE DEF g
<1> QED BY <1>1, DiskMoves

\* The types of the disk's variables.
LEMMA DiskTypes ==
  ASSUME CoreInv
  PROVE  /\ queue \in [Slots -> D!Request] /\ len \in 0 .. 255 /\ len <= MAX_PCB
         /\ ri \in 0 .. MAX_PCB /\ rl \in 0 .. 255 /\ done \in Pids
         /\ creq \in D!Request /\ D!ZeroReq \in D!Request /\ MAX_PCB \in 2 .. 256
         /\ \A i \in Slots : queue[i].id \in Pids
<1>1. D!Slots = Slots
  BY DEF D!Slots, Slots
<1>2. 0 \in Pids
  BY KernelConstants DEF Pids, KernelConstants
<1>3. D!ZeroReq \in D!Request
  BY KernelConstants, ChicConstants DEF D!ZeroReq, D!Request, D!Tracks, KernelConstants
<1>4. /\ queue \in [Slots -> D!Request] /\ len \in 0 .. 255 /\ len <= MAX_PCB
      /\ ri \in 0 .. MAX_PCB /\ rl \in 0 .. 255 /\ done \in Pids \cup {0}
      /\ creq \in D!Request
  BY <1>1 DEF CoreInv, D!DiskTypeOK, LoadedInv
<1>5. MAX_PCB \in 2 .. 256
  BY KernelConstants DEF KernelConstants
<1>6. \A i \in Slots : queue[i].id \in Pids
  BY <1>2, <1>4 DEF D!Request
<1> QED BY <1>2, <1>3, <1>4, <1>5, <1>6

-----------------------------------------------------------------------------
(* q_put. *)

\* While the CPU thread is in q_put the disk thread is not in q_remove.
LEMMA PutFacts ==
  ASSUME CoreInv, put # "idle"
  PROVE  /\ place \in {"sort", "act", "finish"}
         /\ len < MAX_PCB - 1 /\ len < MAX_PCB /\ len \in 0 .. 254 /\ len \in Slots
         /\ Entries = {i \in Slots : i < len}
<1>1. place \in {"sort", "act", "finish"}
  BY DEF CoreInv, LoadedInv, D!Overlap, D!DiskTypeOK
<1>2. len < MAX_PCB - 1 /\ len \in 0 .. 254
  BY <1>1, QueueHasRoom
<1>3. len < MAX_PCB /\ len \in Slots
  <2>1. MAX_PCB \in 2 .. 256
    BY DiskTypes
  <2> QED BY <1>2, <2>1 DEF Slots
<1> QED BY <1>1, <1>2, <1>3 DEF Entries, Kept

\* queue[len] = p: the entry is not one that the disk looks at yet, and there
\* is one.
LEMMA PutEntryInv ==
  ASSUME CoreInv, D!PutEntry, UNCHANGED <<pcbVars, cpuVars, cpu_s, rndVars, dskVars, semVars>>,
         ~D!Overlap', stale => stale'
  PROVE  CoreInv' /\ sys' = sys
<1>1. put = "put" /\ place \in {"sort", "act", "finish"} /\ len < MAX_PCB /\ len \in Slots
  BY PutFacts DEF D!PutEntry
<1>2. /\ queue' = [queue EXCEPT ![len] = creq] /\ put' = "load" /\ sys' = sys
      /\ cl' = len /\ len' = len /\ creq' = creq /\ place' = place /\ done' = done
      /\ track' = track /\ ri' = ri /\ rl' = rl
  BY <1>1 DEF D!PutEntry, D!dskVars
<1>3. UNCHANGED vars /\ dpc' = dpc
  BY <1>2 DEF vars, dskVars
<1>4. /\ queue' \in [Slots -> D!Request]
      /\ \A i \in Slots : queue'[i] = IF i = len THEN creq ELSE queue[i]
  BY <1>1, <1>2, DiskTypes
<1>5. D!DiskTypeOK'
  <2>1. D!Slots = Slots
    BY DEF D!Slots, Slots
  <2> QED BY <1>2, <1>4, <2>1 DEF CoreInv, D!DiskTypeOK
<1>6. LoadedInv'
  BY <1>1, <1>2, <1>3, <1>4 DEF CoreInv, LoadedInv
<1>7. Places' = Places
  <2>1. Entries' = Entries
    BY <1>2 DEF Entries, Kept
  <2>2. InPut' = InPut /\ InDone' = InDone
    BY <1>1, <1>2 DEF InPut, InDone
  <2> QED BY <2>1, <2>2 DEF Places
<1>8. \A x \in Places : PidAt(x)' = PidAt(x)
  <2> TAKE x \in Places
  <2>1. CASE x = PUT \/ x = DONE
    BY <1>2, <2>1 DEF PidAt
  <2>2. CASE x # PUT /\ x # DONE
    <3>1. x \in Entries
      BY <2>2 DEF Places, InPut, InDone
    <3>2. x \in Slots /\ x # len
      BY <1>1, <3>1, PutFacts DEF Slots
    <3> QED BY <1>4, <2>2, <3>2 DEF PidAt
  <2> QED BY <2>1, <2>2
<1> QED BY <1>2, <1>3, <1>5, <1>6, <1>7, <1>8, DiskStays

\* len++ loads len, which nobody has changed.
LEMMA PutLoadInv ==
  ASSUME CoreInv, D!PutLoad, UNCHANGED <<pcbVars, cpuVars, cpu_s, rndVars, dskVars, semVars>>,
         ~D!Overlap', stale => stale'
  PROVE  CoreInv' /\ sys' = sys
<1>1. /\ put = "load" /\ put' = "store" /\ cl' = cl /\ sys' = sys
      /\ queue' = queue /\ len' = len /\ creq' = creq /\ place' = place /\ done' = done
      /\ track' = track /\ ri' = ri /\ rl' = rl
  BY DEF D!PutLoad, D!dskVars, CoreInv, LoadedInv
<1>2. UNCHANGED vars /\ dpc' = dpc
  BY <1>1 DEF vars, dskVars
<1>3. D!DiskTypeOK'
  BY <1>1 DEF CoreInv, D!DiskTypeOK
<1>4. LoadedInv'
  BY <1>1, <1>2 DEF CoreInv, LoadedInv
<1>5. Entries' = Entries /\ InPut' = InPut /\ InDone' = InDone
  BY <1>1 DEF Entries, Kept, InPut, InDone
<1>6. Places' = Places
  BY <1>5 DEF Places
<1>7. \A x \in Places : PidAt(x)' = PidAt(x)
  BY <1>1 DEF PidAt
<1> QED BY <1>1, <1>2, <1>3, <1>4, <1>6, <1>7, DiskStays

\* The new length counts the entry in.
LEMMA PutStoreInv ==
  ASSUME CoreInv, D!PutStore, UNCHANGED <<pcbVars, cpuVars, cpu_s, rndVars, dskVars, semVars>>,
         ~D!Overlap', stale => stale'
  PROVE  CoreInv' /\ sys' = sys
<1>1. /\ put = "store" /\ place \in {"sort", "act", "finish"} /\ len < MAX_PCB - 1
      /\ len \in 0 .. 254 /\ len \in Slots /\ cl = len /\ queue[len] = creq
  BY PutFacts DEF D!PutStore, CoreInv, LoadedInv
<1>2. /\ len' = D!U8(cl + 1) /\ put' = "idle" /\ creq' = D!ZeroReq /\ cl' = 0 /\ sys' = sys
      /\ queue' = queue /\ place' = place /\ done' = done
      /\ track' = track /\ ri' = ri /\ rl' = rl
  BY DEF D!PutStore, D!dskVars
<1>3. len' = len + 1
  BY <1>1, <1>2, ModSmall DEF D!U8
<1>4. UNCHANGED vars /\ dpc' = dpc
  BY <1>2 DEF vars, dskVars
<1>5. D!DiskTypeOK'
  BY <1>1, <1>2, <1>3, DiskTypes DEF CoreInv, D!DiskTypeOK
<1>6. LoadedInv'
  BY <1>1, <1>2, <1>3, <1>4, DiskTypes DEF CoreInv, LoadedInv
<1>7. /\ Places = {i \in Slots : i < len} \cup {PUT} \cup InDone
      /\ Places' = {i \in Slots : i < len + 1} \cup InDone
  <2>1. Entries' = {i \in Slots : i < len + 1}
    BY <1>1, <1>2, <1>3 DEF Entries, Kept
  <2>2. InPut = {PUT} /\ InPut' = {} /\ InDone' = InDone
    BY <1>1, <1>2 DEF InPut, InDone
  <2> QED BY <1>1, <2>1, <2>2, PutFacts DEF Places
<1> DEFINE P == Places'
           Q == Places
           g == [y \in P |-> IF y = len THEN PUT ELSE y]
<1>8. InDone \in SUBSET {DONE} /\ len \in Nat /\ len # PUT /\ len # DONE /\ PUT # DONE
      /\ \A i \in Slots : i \in Nat /\ i # PUT /\ i # DONE
  BY <1>1 DEF InDone, Slots, PUT, DONE
<1>9. g \in [P -> Q] /\ \A y, z \in P : g[y] = g[z] => y = z
  <2>1. \A y \in P : (y = len \/ (y \in Slots /\ y < len) \/ y \in InDone) /\ y # PUT
    BY <1>7, <1>8
  <2>2. \A y \in P : IF y = len THEN g[y] = PUT ELSE g[y] = y /\ y \in Q
    BY <1>7, <2>1
  <2>3. PUT \in Q
    BY <1>7
  <2> QED BY <2>1, <2>2, <2>3
<1>10. \A x \in Q : \E y \in P : g[y] = x
  <2> TAKE x \in Q
  <2>1. CASE x = PUT
    <3>1. len \in P /\ g[len] = PUT
      BY <1>1, <1>7, <1>8
    <3> QED BY <2>1, <3>1
  <2>2. CASE x # PUT
    <3>1. x \in P /\ x # len
      BY <1>7, <1>8, <2>2
    <3> QED BY <3>1
  <2> QED BY <2>1, <2>2
<1>11. \A y \in P : PidAt(y)' = PidAt(g[y])
  <2> TAKE y \in P
  <2>1. CASE y = len
    BY <1>1, <1>2, <1>8, <2>1 DEF PidAt
  <2>2. CASE y # len
    <3>1. g[y] = y /\ y # PUT
      BY <1>7, <1>8, <2>2
    <3> QED BY <1>2, <3>1 DEF PidAt
  <2> QED BY <2>1, <2>2
<1>12. \A y \in P : g[y] = DONE => y = DONE
  BY <1>8
<1> HIDE DEF g
<1> QED BY <1>2, <1>4, <1>5, <1>6, <1>9, <1>10, <1>11, <1>12, DiskMoves

-----------------------------------------------------------------------------
(* The disk thread. *)

\* What the loop of sort_disk ends with is one of the entries.
LEMMA ClosestEntry ==
  ASSUME CoreInv, len > 1
  PROVE  D!Closest(len) \in 0 .. len - 1
<1> DEFINE N == MAX_PCB - 1
           d == [i \in 0 .. N |-> D!Seek(i)]
           Row(c, i) == IF i = 0 THEN [idx |-> 0, diff |-> D!Seek(0)]
                                 ELSE D!Visit(i, c[i - 1])
<1>1. len \in 0 .. 255 /\ len <= MAX_PCB /\ MAX_PCB \in 2 .. 256
  BY DiskTypes
<1>2. track \in Nat /\ \A i \in Slots : queue[i].track \in Nat
  BY KernelConstants, DiskTypes
     DEF CoreInv, D!DiskTypeOK, D!Tracks, D!Request, KernelConstants
<1>3. N \in Nat /\ len - 1 \in 0 .. N /\ Slots = 0 .. N /\ D!Slots = 0 .. N
  BY <1>1 DEF Slots, D!Slots
<1>4. \A i \in 0 .. N : d[i] \in Nat
  BY <1>2, <1>3 DEF D!Seek, D!abs_diff
<1>5. PICK c \in [0 .. N -> [idx : Nat, diff : Nat]] : Minima(c, d, N)
  <2>1. N \in Nat
    BY <1>3
  <2> HIDE DEF d, N
  <2> QED BY <1>4, <2>1, LoopRuns
<1>6. \A i \in D!Slots : c[i] = Row(c, i)
  <2> TAKE i \in D!Slots
  <2>1. CASE i = 0
    <3>1. c[0] = [idx |-> 0, diff |-> d[0]] /\ d[0] = D!Seek(0)
      BY <1>3, <1>5 DEF Minima
    <3> QED BY <2>1, <3>1
  <2>2. CASE i # 0
    <3>1. i \in 1 .. N /\ i \in 0 .. N
      BY <1>3, <2>2
    <3>2. d[i] = D!Seek(i)
      BY <3>1
    <3> HIDE DEF N, d
    <3> QED BY <1>5, <2>2, <3>1, <3>2 DEF Minima, D!Visit
  <2> QED BY <2>1, <2>2
<1>7. c = [i \in D!Slots |-> Row(c, i)]
  <2> HIDE DEF Row, N
  <2> QED BY <1>3, <1>5, <1>6
<1>8. D!Scan = CHOOSE e : e = [i \in D!Slots |-> Row(e, i)]
  BY DEF D!Scan
<1>9. D!Scan = [i \in D!Slots |-> Row(D!Scan, i)]
  <2> HIDE DEF Row
  <2> QED BY <1>7, <1>8, Zenon
<1>10. \A i \in D!Slots : D!Scan[i] = Row(D!Scan, i)
  <2> HIDE DEF Row
  <2> QED BY <1>9, Zenon
<1>11. D!Scan[0] = [idx |-> 0, diff |-> d[0]]
  <2>1. 0 \in D!Slots /\ 0 \in 0 .. N
    BY <1>3
  <2> HIDE DEF N
  <2> QED BY <1>10, <2>1
<1>12. \A i \in 1 .. N : D!Scan[i] = IF d[i] < D!Scan[i - 1].diff
                                    THEN [idx |-> i, diff |-> d[i]] ELSE D!Scan[i - 1]
  <2> TAKE i \in 1 .. N
  <2>1. i \in D!Slots /\ i \in 0 .. N /\ i # 0
    BY <1>3
  <2>2. d[i] = D!Seek(i)
    BY <2>1
  <2> HIDE DEF N, d
  <2> QED BY <1>10, <2>1, <2>2 DEF D!Visit
<1>13. d \in [0 .. N -> Nat]
  BY <1>4
<1> HIDE DEF d, N
<1>14. Minima(D!Scan, d, N)
  BY <1>11, <1>12 DEF Minima
<1>15. D!Scan[len - 1].idx \in 0 .. len - 1
  BY <1>3, <1>13, <1>14, LoopFinds
<1> QED BY <1>15 DEF D!Closest

\* sort_disk exchanges two requests that wait.
LEMMA SortInv ==
  ASSUME CoreInv, D!Sort, UNCHANGED <<pcbVars, cpuVars, cpu_s, rndVars, dskVars, semVars>>,
         ~D!Overlap', stale => stale'
  PROVE  CoreInv' /\ sys' = sys
<1>1. /\ place = "sort" /\ place' = "act" /\ sys' = sys /\ len' = len /\ done' = done
      /\ track' = track /\ ri' = ri /\ rl' = rl /\ put' = put /\ creq' = creq /\ cl' = cl
  BY DEF D!Sort, D!cpuVars
<1>2. UNCHANGED vars /\ dpc' = dpc /\ dpc # "write"
  BY <1>1 DEF vars, dskVars, CoreInv, LoadedInv
<1>3. /\ Places = {i \in Slots : i < len} \cup InPut
      /\ Places' = Places
  BY <1>1 DEF Places, Entries, Kept, InPut, InDone
<1>4. CASE ~(len > 1)
  <2>1. queue' = queue
    BY <1>4 DEF D!Sort
  <2>2. D!DiskTypeOK' /\ LoadedInv'
    BY <1>1, <1>2, <2>1 DEF CoreInv, D!DiskTypeOK, LoadedInv
  <2>3. \A x \in Places : PidAt(x)' = PidAt(x)
    BY <1>1, <2>1 DEF PidAt
  <2> QED BY <1>1, <1>2, <1>3, <2>2, <2>3, DiskStays
<1>5. CASE len > 1
  <2> DEFINE c == D!Closest(len)
  <2>1. /\ queue' = [queue EXCEPT ![0] = queue[c], ![c] = queue[0]]
    BY <1>5 DEF D!Sort, D!Sorted
  <2>2. c \in 0 .. len - 1
    BY <1>5, ClosestEntry
  <2> HIDE DEF c
  <2>3. c \in Slots /\ 0 \in Slots /\ c < len /\ 0 < len /\ len \in Nat
    <3>1. len \in 0 .. 255 /\ len <= MAX_PCB /\ MAX_PCB \in 2 .. 256
      BY DiskTypes
    <3> QED BY <1>5, <2>2, <3>1 DEF Slots
  <2>4. /\ queue' \in [Slots -> D!Request]
        /\ \A i \in Slots : queue'[i] = IF i = c THEN queue[0]
                                        ELSE IF i = 0 THEN queue[c] ELSE queue[i]
    BY <2>1, <2>3, DiskTypes
  <2>5. D!DiskTypeOK'
    <3>1. D!Slots = Slots
      BY DEF D!Slots, Slots
    <3> QED BY <1>1, <2>4, <3>1 DEF CoreInv, D!DiskTypeOK
  <2>6. LoadedInv'
    <3>1. put \in {"load", "store"} => queue'[len] = creq
      <4> SUFFICES ASSUME put \in {"load", "store"} PROVE queue'[len] = creq
        OBVIOUS
      <4>1. len \in Slots /\ queue[len] = creq
        BY PutFacts DEF CoreInv, LoadedInv
      <4> QED BY <2>3, <2>4, <4>1
    <3> QED BY <1>1, <1>2, <3>1 DEF CoreInv, LoadedInv, D!Overlap
  <2> DEFINE P == Places'
             Q == Places
             g == [y \in P |-> IF y = c THEN 0 ELSE IF y = 0 THEN c ELSE y]
  <2>7. /\ g \in [P -> Q] /\ \A y, z \in P : g[y] = g[z] => y = z
        /\ \A x \in Q : \E y \in P : g[y] = x
    <3>1. P = Q /\ c \in P /\ 0 \in P
      BY <1>3, <2>3
    <3>2. g \in [P -> Q]
      BY <3>1
    <3>3. \A y, z \in P : g[y] = g[z] => y = z
      OBVIOUS
    <3>4. \A x \in Q : \E y \in P : g[y] = x
      <4> TAKE x \in Q
      <4> DEFINE y == IF x = c THEN 0 ELSE IF x = 0 THEN c ELSE x
      <4>1. y \in P /\ g[y] = x
        BY <3>1
      <4> QED BY <4>1
    <3> QED BY <3>2, <3>3, <3>4
  <2>8. \A y \in P : PidAt(y)' = PidAt(g[y])
    <3> TAKE y \in P
    <3>1. PUT \notin Slots /\ DONE \notin Slots
      BY PlacesFinite
    <3>2. CASE y \in Slots
      <4>1. g[y] \in Slots /\ queue'[y] = queue[g[y]]
        BY <2>3, <2>4, <3>2
      <4> QED BY <3>1, <3>2, <4>1 DEF PidAt
    <3>3. CASE y \notin Slots
      <4>1. y = PUT /\ g[y] = y
        BY <1>3, <2>3, <3>3 DEF InPut
      <4> QED BY <1>1, <4>1 DEF PidAt
    <3> QED BY <3>2, <3>3
  <2> HIDE DEF g
  <2> QED BY <1>1, <1>2, <2>5, <2>6, <2>7, <2>8, DiskMoves
<1> QED BY <1>4, <1>5

\* Nothing to do, a move of the head, a time slice of service.
LEMMA ActInv ==
  ASSUME CoreInv, D!Idle \/ D!move_header \/ D!Serve,
         UNCHANGED <<pcbVars, cpuVars, cpu_s, rndVars, dskVars, semVars>>,
         ~D!Overlap', stale => stale'
  PROVE  CoreInv' /\ sys' = sys
<1>1. /\ place = "act" /\ place' = "sort" /\ sys' = sys /\ len' = len /\ done' = done
      /\ ri' = ri /\ rl' = rl /\ put' = put /\ creq' = creq /\ cl' = cl
  BY DEF D!Idle, D!move_header, D!Serve, D!AtTrack, D!cpuVars
<1>2. UNCHANGED vars /\ dpc' = dpc /\ dpc # "write"
  BY <1>1 DEF vars, dskVars, CoreInv, LoadedInv
<1>3. Places' = Places
  BY <1>1 DEF Places, Entries, Kept, InPut, InDone
<1>4. /\ queue' \in [Slots -> D!Request] /\ track' \in D!Tracks
      /\ \A i \in Slots : queue'[i].id = queue[i].id
      /\ \A i \in Slots : i >= len => queue'[i] = queue[i]
  <2>1. queue \in [Slots -> D!Request] /\ track \in D!Tracks /\ 0 \in Slots
    <3>1. MAX_PCB \in 2 .. 256
      BY DiskTypes
    <3> QED BY <3>1, DiskTypes DEF Slots, CoreInv, D!DiskTypeOK
  <2>2. CASE D!Idle
    BY <2>1, <2>2 DEF D!Idle
  <2>3. CASE D!move_header
    <3>1. queue[0].track \in D!Tracks /\ TOTAL_TRACKS \in Nat
      BY <2>1, KernelConstants DEF D!Request, KernelConstants
    <3>2. /\ queue[0].track # track /\ queue' = queue
          /\ track' = IF queue[0].track > track THEN track + 1 ELSE track - 1
      BY <2>3 DEF D!move_header
    <3>3. track' \in D!Tracks
      BY <2>1, <3>1, <3>2 DEF D!Tracks
    <3> QED BY <2>1, <3>2, <3>3
  <2>4. CASE D!Serve
    <3>1. /\ queue' = [queue EXCEPT ![0].time = @ - 1] /\ track' = track
          /\ queue[0].time > 0 /\ len > 0
      BY <2>4 DEF D!Serve, D!AtTrack
    <3> DEFINE r == [queue[0] EXCEPT !.time = @ - 1]
    <3>2. queue[0].time - 1 \in 0 .. DISK_SLICE
      <4>1. queue[0].time \in 0 .. DISK_SLICE
        BY <2>1 DEF D!Request
      <4> QED BY <3>1, <4>1, ChicConstants
    <3>3. r \in D!Request /\ r.id = queue[0].id
      BY <2>1, <3>2 DEF D!Request
    <3> HIDE DEF r
    <3>4. queue' = [queue EXCEPT ![0] = r]
      BY <2>1, <3>1 DEF r
    <3>5. len \in 0 .. 255
      BY DiskTypes
    <3>6. /\ queue' \in [Slots -> D!Request]
          /\ \A i \in Slots : queue'[i] = IF i = 0 THEN r ELSE queue[i]
      BY <2>1, <3>3, <3>4
    <3>7. \A i \in Slots : i >= len => i # 0
      BY <3>1, <3>5 DEF Slots
    <3> QED BY <2>1, <3>1, <3>3, <3>6, <3>7
  <2> QED BY <2>2, <2>3, <2>4
<1>5. D!DiskTypeOK'
  <2>1. D!Slots = Slots
    BY DEF D!Slots, Slots
  <2> QED BY <1>1, <1>4, <2>1 DEF CoreInv, D!DiskTypeOK
<1>6. LoadedInv'
  <2>1. put \in {"load", "store"} => queue'[len] = creq
    <3> SUFFICES ASSUME put \in {"load", "store"} PROVE queue'[len] = creq
      OBVIOUS
    <3>1. len \in Slots /\ queue[len] = creq /\ len \in 0 .. 254
      BY PutFacts DEF CoreInv, LoadedInv
    <3> QED BY <1>4, <3>1
  <2> QED BY <1>1, <1>2, <2>1 DEF CoreInv, LoadedInv, D!Overlap
<1>7. \A x \in Places : PidAt(x)' = PidAt(x)
  <2> TAKE x \in Places
  <2>1. x = PUT \/ x = DONE \/ x \in Slots
    BY DEF Places, Entries, InPut, InDone
  <2> QED BY <1>1, <1>4, <2>1 DEF PidAt
<1> QED BY <1>1, <1>2, <1>3, <1>5, <1>6, <1>7, DiskStays

\* q_remove takes the first request out.
LEMMA RemoveBeginInv ==
  ASSUME CoreInv, D!RemoveBegin, UNCHANGED <<pcbVars, cpuVars, cpu_s, rndVars, dskVars, semVars>>,
         ~D!Overlap', stale => stale'
  PROVE  CoreInv' /\ sys' = sys
<1>1. /\ place = "act" /\ place' = "shift" /\ sys' = sys /\ len' = len /\ len > 0
      /\ done' = queue[0].id /\ queue' = queue /\ track' = track
      /\ ri' = 0 /\ rl' = rl /\ put' = put /\ creq' = creq /\ cl' = cl
  BY DEF D!RemoveBegin, D!AtTrack, D!cpuVars
<1>2. UNCHANGED vars /\ dpc' = dpc /\ dpc # "write" /\ put = "idle"
  BY <1>1 DEF vars, dskVars, CoreInv, LoadedInv, D!Overlap, D!DiskTypeOK
<1>3. 0 \in Slots /\ len \in Nat /\ 0 < len
  <2>1. MAX_PCB \in 2 .. 256 /\ len \in 0 .. 255
    BY DiskTypes
  <2> QED BY <1>1, <2>1 DEF Slots
<1>4. D!DiskTypeOK' /\ LoadedInv'
  <2>1. done' \in Pids /\ 0 \in 0 .. MAX_PCB
    BY <1>1, <1>3, DiskTypes
  <2>2. D!DiskTypeOK'
    BY <1>1, <2>1 DEF CoreInv, D!DiskTypeOK
  <2> QED BY <1>1, <1>2, <1>3, <2>2 DEF CoreInv, LoadedInv, D!Overlap
<1>5. /\ Places = {i \in Slots : i < len}
      /\ Places' = {i \in Slots : i < len /\ i # 0} \cup {DONE}
  BY <1>1, <1>2 DEF Places, Entries, Kept, InPut, InDone
<1>6. DONE \notin Slots /\ PUT \notin Slots /\ PUT # DONE
  BY PlacesFinite
<1> DEFINE P == Places'
           Q == Places
           g == [y \in P |-> IF y = DONE THEN 0 ELSE y]
<1>7. /\ g \in [P -> Q] /\ \A y, z \in P : g[y] = g[z] => y = z
      /\ \A x \in Q : \E y \in P : g[y] = x
  <2>1. g \in [P -> Q]
    BY <1>3, <1>5
  <2>2. \A y, z \in P : g[y] = g[z] => y = z
    BY <1>5
  <2>3. \A x \in Q : \E y \in P : g[y] = x
    <3> TAKE x \in Q
    <3>1. CASE x = 0
      <4>1. DONE \in P /\ g[DONE] = 0
        BY <1>5
      <4> QED BY <3>1, <4>1
    <3>2. CASE x # 0
      <4>1. x \in P /\ x # DONE
        BY <1>5, <1>6, <3>2
      <4> QED BY <4>1
    <3> QED BY <3>1, <3>2
  <2> QED BY <2>1, <2>2, <2>3
<1>8. \A y \in P : PidAt(y)' = PidAt(g[y])
  <2> TAKE y \in P
  <2>1. CASE y = DONE
    <3>1. g[y] = 0 /\ 0 # PUT /\ 0 # DONE
      BY <1>3, <1>6, <2>1
    <3> QED BY <1>1, <1>6, <2>1, <3>1 DEF PidAt
  <2>2. CASE y # DONE
    <3>1. g[y] = y /\ y # PUT
      BY <1>5, <1>6, <2>2
    <3> QED BY <1>1, <2>2, <3>1 DEF PidAt
  <2> QED BY <2>1, <2>2
<1> HIDE DEF g
<1> QED BY <1>1, <1>2, <1>4, <1>7, <1>8, DiskMoves

\* One turn of its loop moves a request one entry down.
LEMMA RemoveShiftInv ==
  ASSUME CoreInv, D!RemoveShift, ri < len - 1,
         UNCHANGED <<pcbVars, cpuVars, cpu_s, rndVars, dskVars, semVars>>,
         ~D!Overlap', stale => stale'
  PROVE  CoreInv' /\ sys' = sys
<1>1. /\ place = "shift" /\ place' = "shift" /\ sys' = sys /\ len' = len
      /\ queue' = [queue EXCEPT ![ri] = queue[ri + 1]] /\ ri' = ri + 1
      /\ done' = done /\ track' = track
      /\ rl' = rl /\ put' = put /\ creq' = creq /\ cl' = cl
  BY DEF D!RemoveShift, D!cpuVars
<1>2. UNCHANGED vars /\ dpc' = dpc /\ dpc # "write" /\ put = "idle"
  BY <1>1 DEF vars, dskVars, CoreInv, LoadedInv, D!Overlap, D!DiskTypeOK
<1>3. /\ ri \in Slots /\ ri + 1 \in Slots /\ ri \in Nat /\ len \in Nat /\ ri + 1 < len
      /\ ri + 1 \in 0 .. MAX_PCB /\ ri # ri + 1 /\ ri < len
  <2>1. len \in 0 .. 255 /\ len <= MAX_PCB /\ MAX_PCB \in 2 .. 256 /\ ri \in 0 .. MAX_PCB
    BY DiskTypes
  <2> QED BY <2>1 DEF Slots
<1>4. /\ queue' \in [Slots -> D!Request]
      /\ \A i \in Slots : queue'[i] = IF i = ri THEN queue[ri + 1] ELSE queue[i]
  BY <1>1, <1>3, DiskTypes
<1>5. D!DiskTypeOK' /\ LoadedInv'
  <2>1. D!Slots = Slots
    BY DEF D!Slots, Slots
  <2>2. D!DiskTypeOK'
    BY <1>1, <1>3, <1>4, <2>1 DEF CoreInv, D!DiskTypeOK
  <2> QED BY <1>1, <1>2, <1>3, <2>2 DEF CoreInv, LoadedInv, D!Overlap
<1>6. /\ Places = {i \in Slots : i < len /\ i # ri} \cup {DONE}
      /\ Places' = {i \in Slots : i < len /\ i # ri + 1} \cup {DONE}
  BY <1>1, <1>2 DEF Places, Entries, Kept, InPut, InDone
<1>7. DONE \notin Slots /\ PUT \notin Slots /\ PUT # DONE
  BY PlacesFinite
<1> DEFINE P == Places'
           Q == Places
           g == [y \in P |-> IF y = ri THEN ri + 1 ELSE y]
<1>8. /\ g \in [P -> Q] /\ \A y, z \in P : g[y] = g[z] => y = z
      /\ \A x \in Q : \E y \in P : g[y] = x
  <2>1. g \in [P -> Q]
    BY <1>3, <1>6
  <2>2. \A y, z \in P : g[y] = g[z] => y = z
    <3>1. ri + 1 # DONE
      BY <1>3, <1>7
    <3>2. \A y \in P : y # ri + 1
      BY <1>6, <3>1
    <3> QED BY <3>2
  <2>3. \A x \in Q : \E y \in P : g[y] = x
    <3> TAKE x \in Q
    <3>1. CASE x = ri + 1
      <4>1. ri \in P /\ g[ri] = ri + 1
        BY <1>3, <1>6
      <4> QED BY <3>1, <4>1
    <3>2. CASE x # ri + 1
      <4>1. x \in P /\ x # ri
        BY <1>3, <1>6, <1>7, <3>2
      <4> QED BY <4>1
    <3> QED BY <3>1, <3>2
  <2> QED BY <2>1, <2>2, <2>3
<1>9. \A y \in P : PidAt(y)' = PidAt(g[y])
  <2> TAKE y \in P
  <2>1. CASE y = DONE
    <3>1. g[y] = DONE
      BY <1>3, <1>7, <2>1
    <3> QED BY <1>1, <1>7, <2>1, <3>1 DEF PidAt
  <2>2. CASE y # DONE
    <3>1. y \in Slots /\ g[y] \in Slots /\ queue'[y] = queue[g[y]]
      BY <1>3, <1>4, <1>6, <2>2
    <3>2. y # PUT /\ g[y] # PUT /\ g[y] # DONE
      BY <1>7, <3>1
    <3> QED BY <2>2, <3>1, <3>2 DEF PidAt
  <2> QED BY <2>1, <2>2
<1> HIDE DEF g
<1> QED BY <1>1, <1>2, <1>5, <1>8, <1>9, DiskMoves

\* The end of the loop, --len in its two halves, and clearing the last entry.
LEMMA RemoveEndInv ==
  ASSUME CoreInv,
         \/ D!RemoveShift /\ ~(ri < len - 1)
         \/ D!RemoveLoad \/ D!RemoveStore \/ D!RemoveZero,
         UNCHANGED <<pcbVars, cpuVars, cpu_s, rndVars, dskVars, semVars>>,
         ~D!Overlap', stale => stale'
  PROVE  CoreInv' /\ sys' = sys
<1>1. /\ place \in {"shift", "load", "store", "zero"} /\ sys' = sys
      /\ done' = done /\ track' = track /\ put' = put /\ creq' = creq /\ cl' = cl
  BY DEF D!RemoveShift, D!RemoveLoad, D!RemoveStore, D!RemoveZero, D!cpuVars
<1>2. UNCHANGED vars /\ dpc' = dpc /\ dpc # "write" /\ put = "idle"
  BY <1>1 DEF vars, dskVars, CoreInv, LoadedInv, D!Overlap, D!DiskTypeOK
<1>3. /\ len \in 0 .. 255 /\ len <= MAX_PCB /\ MAX_PCB \in 2 .. 256 /\ ri \in 0 .. MAX_PCB
      /\ rl \in 0 .. 255 /\ \A i \in Slots : i \in Nat
  BY DiskTypes DEF Slots
<1>4. CASE D!RemoveShift /\ ~(ri < len - 1)
  <2>1. /\ place = "shift" /\ place' = "load" /\ queue' = queue /\ len' = len
        /\ ri' = 0 /\ rl' = rl /\ ri < len
    BY <1>4 DEF D!RemoveShift, CoreInv, LoadedInv
  <2>2. ri = len - 1 /\ len > 0 /\ 0 \in 0 .. MAX_PCB
    BY <1>3, <1>4, <2>1
  <2>3. D!DiskTypeOK' /\ LoadedInv'
    BY <1>1, <1>2, <1>3, <2>1, <2>2 DEF CoreInv, D!DiskTypeOK, LoadedInv, D!Overlap
  <2>4. Entries' = Entries
    <3>1. \A i \in Slots : i < len - 1 <=> i < len /\ i # ri
      BY <1>3, <2>2
    <3> QED BY <2>1, <3>1 DEF Entries, Kept
  <2>5. Places' = Places
    BY <1>1, <2>1, <2>4 DEF Places, InPut, InDone
  <2>6. \A x \in Places : PidAt(x)' = PidAt(x)
    BY <1>1, <2>1 DEF PidAt
  <2> QED BY <1>1, <1>2, <2>3, <2>5, <2>6, DiskStays
<1>5. CASE D!RemoveLoad
  <2>1. /\ place = "load" /\ place' = "store" /\ queue' = queue /\ len' = len
        /\ ri' = ri /\ rl' = (len + 255) % 256 /\ len > 0
    BY <1>5 DEF D!RemoveLoad, D!U8, CoreInv, LoadedInv
  <2>2. rl' = len - 1 /\ rl' \in 0 .. 255
    <3>1. len \in 1 .. 255
      BY <1>3, <2>1
    <3> QED BY <2>1, <3>1, LastDown
  <2>3. D!DiskTypeOK' /\ LoadedInv'
    BY <1>1, <1>2, <2>1, <2>2 DEF CoreInv, D!DiskTypeOK, LoadedInv, D!Overlap
  <2>4. Entries' = Entries
    BY <2>1, <2>2 DEF Entries, Kept
  <2>5. Places' = Places
    BY <1>1, <2>1, <2>4 DEF Places, InPut, InDone
  <2>6. \A x \in Places : PidAt(x)' = PidAt(x)
    BY <1>1, <2>1 DEF PidAt
  <2> QED BY <1>1, <1>2, <2>3, <2>5, <2>6, DiskStays
<1>6. CASE D!RemoveStore
  <2>1. /\ place = "store" /\ place' = "zero" /\ queue' = queue /\ len' = rl
        /\ ri' = ri /\ rl' = rl /\ rl = len - 1
    BY <1>6 DEF D!RemoveStore, CoreInv, LoadedInv
  <2>2. len' <= MAX_PCB
    BY <1>3, <2>1
  <2>3. D!DiskTypeOK' /\ LoadedInv'
    BY <1>1, <1>2, <2>1, <2>2 DEF CoreInv, D!DiskTypeOK, LoadedInv, D!Overlap
  <2>4. Entries' = Entries
    BY <2>1 DEF Entries, Kept
  <2>5. Places' = Places
    BY <1>1, <2>1, <2>4 DEF Places, InPut, InDone
  <2>6. \A x \in Places : PidAt(x)' = PidAt(x)
    BY <1>1, <2>1 DEF PidAt
  <2> QED BY <1>1, <1>2, <2>3, <2>5, <2>6, DiskStays
<1>7. CASE D!RemoveZero
  <2>1. /\ place = "zero" /\ place' = "finish" /\ len' = len
        /\ queue' = [queue EXCEPT ![rl] = D!ZeroReq] /\ ri' = ri /\ rl' = 0 /\ rl = len
    BY <1>7 DEF D!RemoveZero, CoreInv, LoadedInv
  <2>2. /\ queue' \in [Slots -> D!Request]
        /\ \A i \in Slots : i # len => queue'[i] = queue[i]
    BY <2>1, DiskTypes
  <2>3. D!DiskTypeOK' /\ LoadedInv'
    <3>1. D!Slots = Slots
      BY DEF D!Slots, Slots
    <3>2. D!DiskTypeOK'
      BY <1>1, <1>3, <2>1, <2>2, <3>1 DEF CoreInv, D!DiskTypeOK
    <3> QED BY <1>1, <1>2, <1>3, <2>1, <3>2 DEF CoreInv, LoadedInv, D!Overlap
  <2>4. Entries' = Entries
    BY <2>1 DEF Entries, Kept
  <2>5. Places' = Places
    BY <1>1, <2>1, <2>4 DEF Places, InPut, InDone
  <2>6. \A x \in Places : PidAt(x)' = PidAt(x)
    <3> TAKE x \in Places
    <3>1. x = DONE \/ (x \in Slots /\ x < len)
      BY <1>2, <2>1 DEF Places, Entries, Kept, InPut, InDone
    <3>2. x = DONE \/ (x \in Slots /\ x # len)
      BY <1>3, <3>1
    <3>3. PUT \notin Slots /\ DONE \notin Slots /\ PUT # DONE
      BY PlacesFinite
    <3> QED BY <1>1, <2>2, <3>2, <3>3 DEF PidAt
  <2> QED BY <1>1, <1>2, <2>3, <2>5, <2>6, DiskStays
<1> QED BY <1>4, <1>5, <1>6, <1>7

\* Every step of the disk on its own keeps the simulator up.
LEMMA DiskStepInv ==
  ASSUME CoreInv, DiskStep, ~D!Overlap', stale => stale'
  PROVE  CoreInv' /\ sys' = sys
<1>1. UNCHANGED <<pcbVars, cpuVars, cpu_s, rndVars, dskVars, semVars>>
  BY DEF DiskStep
<1>2. CASE D!PutSteps
  BY <1>1, <1>2, PutEntryInv, PutLoadInv, PutStoreInv DEF D!PutSteps
<1>3. CASE D!DiskThread
  BY <1>1, <1>3, SortInv, ActInv, RemoveBeginInv, RemoveShiftInv, RemoveEndInv
     DEF D!DiskThread
<1> QED BY <1>2, <1>3 DEF DiskStep

-----------------------------------------------------------------------------
(* Where the kernel and the disk meet. *)

\* disk_request: the process that runs stops, and its request is in q_put.
LEMMA RequestInv ==
  ASSUME CoreInv, disk_request, ~D!Overlap', stale => stale'
  PROVE  CoreInv'
<1>1. ExecDisk /\ Executing /\ put = "idle" /\ IInv
  BY DEF disk_request, Entered, ExecDisk, CanRun, At, Executing, CoreInv
<1> DEFINE pid == Running.pid
<1>2. PICK c \in Fetch :
        /\ c.t <= TOTAL_TRACKS /\ put' = "put" /\ cl' = cl
        /\ creq' = [id |-> pid, track |-> c.t, time |-> DISK_SLICE]
        /\ queue' = queue /\ len' = len /\ track' = track /\ place' = place
        /\ ri' = ri /\ rl' = rl /\ done' = done
  BY DEF disk_request, D!simulate_io, D!dskVars
<1>3. pid \in Pids /\ io' = [io EXCEPT ![pid] = @ + 1] /\ io \in [Pids -> Nat]
  BY <1>1, RequestCounts DEF IInv, TypeOK
<1>4. cpc' = "load" /\ dpc' = dpc /\ dpc = "idle" /\ waiters' = waiters
  BY <1>1 DEF ExecDisk, semVars, IInv, LockInv, TypeOK
<1>5. IInv' /\ TypeOK' /\ CreatedInv' /\ SelectInv' /\ HoleInv'
  <2>1. CpuThread
    BY <1>1 DEF CpuThread
  <2>2. IInv'
    BY <1>1, <2>1, KernelConstants, NextInv DEF Next
  <2> QED BY <1>4, <2>1, <2>2, CreatedStep DEF SelectInv, HoleInv, IInv
<1>6. D!DiskTypeOK'
  <2>1. creq' \in D!Request
    <3>1. c.t \in Nat
      BY <1>1, KernelConstants, FetchType
    <3>2. c.t \in D!Tracks
      BY <1>2, <3>1, KernelConstants DEF D!Tracks, KernelConstants
    <3>3. DISK_SLICE \in 0 .. DISK_SLICE
      BY ChicConstants
    <3> QED BY <1>2, <1>3, <3>2, <3>3 DEF D!Request
  <2> QED BY <1>2, <1>5, <2>1 DEF CoreInv, D!DiskTypeOK, TypeOK
<1>7. LoadedInv'
  BY <1>2, <1>4 DEF CoreInv, LoadedInv
<1>8. PUT \notin Places /\ Places' = Places \cup {PUT}
  <2>1. Entries' = Entries /\ InDone' = InDone
    BY <1>2 DEF Entries, Kept, InDone
  <2>2. InPut = {} /\ InPut' = {PUT}
    BY <1>1, <1>2 DEF InPut
  <2>3. PUT \notin Entries /\ PUT \notin InDone
    BY PlacesFinite DEF Entries, InDone
  <2> QED BY <2>1, <2>2, <2>3 DEF Places
<1>9. PidAt(PUT)' = pid /\ \A x : x # PUT => PidAt(x)' = PidAt(x)
  BY <1>2 DEF PidAt
<1>10. \A p : IssuedBy(p)' = IF p = pid THEN IssuedBy(p) \cup {PUT} ELSE IssuedBy(p)
  <2>1. Issued = Places /\ Issued' = Places \cup {PUT}
    BY <1>4, <1>8 DEF Issued
  <2> QED BY <1>8, <1>9, <2>1 DEF IssuedBy
<1>11. IssuedInv'
  <2> SUFFICES ASSUME NEW p \in Pids PROVE Cardinality(IssuedBy(p)') <= io'[p]
    BY DEF IssuedInv
  <2>1. /\ IsFiniteSet(IssuedBy(p)) /\ Cardinality(IssuedBy(p)) \in Nat
        /\ Cardinality(IssuedBy(p)) <= io[p] /\ io[p] \in Nat
    BY <1>3, PlacesFinite DEF CoreInv, IssuedInv
  <2>2. CASE p = pid
    <3>1. Cardinality(IssuedBy(p)') <= Cardinality(IssuedBy(p)) + 1
      BY <1>10, <2>1, <2>2, AddOne
    <3>2. Cardinality(IssuedBy(p)') \in Nat
      <4>1. IsFiniteSet(IssuedBy(p)')
        BY <1>10, <2>1, <2>2, FS_AddElement
      <4> QED BY <4>1, FS_CardinalityType
    <3> QED BY <1>3, <2>1, <2>2, <3>1, <3>2
  <2>3. CASE p # pid
    BY <1>3, <1>10, <2>1, <2>3
  <2> QED BY <2>2, <2>3
<1>12. /\ SameProcs(stack, stack')
       /\ \A k \in Slots : stack'[k].status = IF k = csel THEN "BLOCKED"
                                              ELSE stack[k].status
  <2>1. p_find(Running.pid) = csel
    BY <1>1, FindRunning DEF CoreInv
  <2> QED BY <1>1, <2>1, KernelConstants, BlockTable
<1>13. /\ csel \in Slots \ {Hole} /\ Occupied(csel) /\ Hole' = Hole
       /\ stack[csel].status \notin Stops
  <2>1. csel \in Slots /\ Occupied(csel) /\ cpc \in {"exec", "run"}
    BY <1>1, KernelConstants, ExecFacts
  <2>2. stack[csel].status \notin Stops /\ Hole # csel
    BY <1>1, <2>1, FindRunning DEF CoreInv, SelectInv
  <2> QED BY <1>4, <2>1, <2>2 DEF Hole
<1>14. \A k \in Slots : Occupied(k)' <=> Occupied(k)
  BY <1>12 DEF SameProcs, Occupied
<1>15. StoppedInv'
  <2>1. Stopped' = Stopped \cup {csel} /\ csel \notin Stopped
    BY <1>12, <1>13, <1>14 DEF Stopped, Stops
  <2>2. Cardinality(Stopped') = Cardinality(Stopped) + 1
    BY <1>1, <2>1, StoppedFinite, FS_AddElement
  <2>3. Cardinality(Places') = Cardinality(Places) + 1
    BY <1>8, PlacesFinite, FS_AddElement
  <2>4. Cells' = Cells
    BY <1>4 DEF Cells
  <2>5. /\ Cardinality(Places) \in Nat /\ Cardinality(Cells) \in Nat
        /\ Cardinality(Stopped) \in Nat
    BY <1>1, PlacesFinite, StoppedFinite, FS_CardinalityType DEF CoreInv, StoppedInv
  <2> QED BY <2>2, <2>3, <2>4, <2>5 DEF CoreInv, StoppedInv
<1>16. ServedInv'
  <2> SUFFICES ASSUME ~stale PROVE ServedInv'
    BY DEF ServedInv
  <2>0. ServedInv
    BY DEF CoreInv
  <2>1. \A p : IsBlocked(p)' <=> p = pid \/ IsBlocked(p)
    <3>1. \A k \in Slots : /\ stack'[k].pid = stack[k].pid
                           /\ stack'[k].status = "BLOCKED" <=>
                                k = csel \/ stack[k].status = "BLOCKED"
      BY <1>12 DEF SameProcs
    <3> QED BY <1>13, <1>14, <3>1 DEF IsBlocked, Running
  <2>2. ~IsBlocked(pid)
    <3> SUFFICES ASSUME NEW k \in Slots \ {Hole}, Occupied(k), stack[k].status = "BLOCKED",
                        stack[k].pid = stack[csel].pid
                 PROVE  FALSE
      BY DEF IsBlocked, Running
    <3>1. p_find(stack[k].pid) = k /\ p_find(stack[csel].pid) = csel
      BY <1>1, <1>13, Unique DEF CoreInv
    <3> QED BY <1>13, <3>1 DEF Stops
  <2> HIDE DEF pid
  <2>3. ASSUME NEW p \in Pids, IsBlocked(p)' PROVE \E x \in Places' : PidAt(x)' = p
    <3>1. CASE p = pid
      BY <1>8, <1>9, <3>1
    <3>2. CASE p # pid
      <4>1. PICK x \in Places : PidAt(x) = p
        BY <2>0, <2>1, <2>3, <3>2 DEF ServedInv
      <4> QED BY <1>8, <1>9, <4>1
    <3> QED BY <3>1, <3>2
  <2>4. \A x \in Places : PidAt(x)' = PidAt(x) /\ IsBlocked(PidAt(x)) /\ PidAt(x) # pid
    BY <1>8, <1>9, <2>0, <2>2 DEF ServedInv
  <2>5. ASSUME NEW x \in Places' PROVE IsBlocked(PidAt(x))'
    <3>1. PICK p : p = PidAt(x)'
      OBVIOUS
    <3>2. IsBlocked(p)'
      BY <1>8, <1>9, <2>1, <2>4, <3>1
    <3> QED BY <3>1, <3>2 DEF IsBlocked
  <2>6. ASSUME NEW x \in Places', NEW y \in Places', PidAt(x)' = PidAt(y)' PROVE x = y
    <3>1. CASE x = PUT \/ y = PUT
      BY <1>8, <1>9, <2>4, <2>6, <3>1
    <3>2. CASE x # PUT /\ y # PUT
      BY <1>8, <2>0, <2>4, <2>6, <3>2 DEF ServedInv
    <3> QED BY <3>1, <3>2
  <2> QED BY <2>3, <2>5, <2>6 DEF ServedInv
<1> QED BY <1>5, <1>6, <1>7, <1>11, <1>15, <1>16 DEF CoreInv

\* What the disk is about to report was issued and not reported before.
LEMMA DoneIsIssued ==
  ASSUME CoreInv, dpc = "idle", place = "finish"
  PROVE  done \in Pids /\ io[done] > 0 /\ DONE \in IssuedBy(done)
<1>1. done \in Pids
  BY DiskTypes
<1>2. DONE \in IssuedBy(done)
  BY PlacesFinite DEF IssuedBy, Issued, Places, InDone, PidAt
<1>3. /\ IsFiniteSet(IssuedBy(done)) /\ Cardinality(IssuedBy(done)) \in Nat
      /\ Cardinality(IssuedBy(done)) <= io[done]
  BY <1>1, PlacesFinite DEF CoreInv, IssuedInv
<1>4. Cardinality(IssuedBy(done)) # 0
  BY <1>2, <1>3, FS_EmptySet
<1>5. io[done] \in Nat
  BY <1>1 DEF CoreInv, IInv, TypeOK
<1> QED BY <1>1, <1>2, <1>3, <1>4, <1>5

\* So its lookup is one that Kernel allows.
LEMMA LookupIsFind ==
  ASSUME CoreInv, FinishLookup \/ FinishLookupFault
  PROVE  \E pid \in Pids : FinishFind(pid) \/ FinishFault(pid)
<1>1. dpc = "idle" /\ place = "finish"
  BY DEF FinishLookup, FinishLookupFault, p_unblock, UnblockFault
<1>2. done \in Pids /\ io[done] > 0
  BY <1>1, DoneIsIssued
<1>3. FinishFind(done) \/ FinishFault(done)
  BY <1>2 DEF FinishLookup, FinishLookupFault, FinishedPid, FinishFind, FinishFault
<1> QED BY <1>2, <1>3

\* p_unblock looks the process up and counts its request off.
LEMMA LookupInv ==
  ASSUME CoreInv, FinishLookup, stale => stale'
  PROVE  CoreInv'
<1>1. /\ dpc = "idle" /\ dpc' = "write" /\ place = "finish" /\ put = "idle" /\ sys' = sys
      /\ stack' = stack /\ UNCHANGED <<curr, last, last_pid, cpc, ci, cj, csel, quantum, load,
                                       rpc, rnew, submitted, value, waiters, sems, mutex>>
  BY DEF FinishLookup, Entered, p_unblock, pcbVars, cpuVars, rndVars, semVars
<1>2. /\ queue' = queue /\ len' = len /\ track' = track /\ place' = place /\ ri' = ri
      /\ rl' = rl /\ done' = done /\ put' = put /\ creq' = creq /\ cl' = cl
  BY DEF FinishLookup, diskVars
<1>3. done \in Pids /\ io[done] > 0 /\ DONE \in IssuedBy(done) /\ io \in [Pids -> Nat]
  BY <1>1, DoneIsIssued DEF CoreInv, IInv, TypeOK
<1>4. io' = [io EXCEPT ![done] = io[done] - 1]
  BY <1>3 DEF FinishLookup, FinishedPid
<1>5. IInv'
  <2>1. Next
    BY LookupIsFind DEF Next, DiskThread
  <2> QED BY <2>1, KernelConstants, NextInv DEF CoreInv
<1>6. CreatedInv' /\ SelectInv' /\ HoleInv'
  BY <1>1 DEF CoreInv, CreatedInv, CreatedSoFar, SelectInv, HoleInv, Hole, Occupied
<1>7. D!DiskTypeOK' /\ LoadedInv'
  BY <1>1, <1>2 DEF CoreInv, D!DiskTypeOK, LoadedInv, D!Overlap
<1>8. Places' = Places /\ \A x : PidAt(x)' = PidAt(x)
  <2>1. Entries' = Entries /\ InPut' = InPut /\ InDone' = InDone
    BY <1>2 DEF Entries, Kept, InPut, InDone
  <2> QED BY <1>2, <2>1 DEF Places, PidAt
<1>9. \A p : IssuedBy(p)' = IssuedBy(p) \ {DONE}
  BY <1>1, <1>8 DEF IssuedBy, Issued
<1>10. IssuedInv'
  <2> SUFFICES ASSUME NEW p \in Pids PROVE Cardinality(IssuedBy(p)') <= io'[p]
    BY DEF IssuedInv
  <2>1. /\ IsFiniteSet(IssuedBy(p)) /\ Cardinality(IssuedBy(p)) \in Nat
        /\ Cardinality(IssuedBy(p)) <= io[p] /\ io[p] \in Nat
    BY <1>3, PlacesFinite DEF CoreInv, IssuedInv
  <2>2. Cardinality(IssuedBy(p)') = IF DONE \in IssuedBy(p) THEN Cardinality(IssuedBy(p)) - 1
                                    ELSE Cardinality(IssuedBy(p))
    BY <1>9, <2>1, FS_RemoveElement
  <2>3. CASE p = done
    BY <1>3, <1>4, <2>1, <2>2, <2>3
  <2>4. CASE p # done
    BY <1>3, <1>4, <2>1, <2>2, <2>4
  <2> QED BY <2>3, <2>4
<1>11. StoppedInv' /\ ServedInv'
  <2>1. Stopped' = Stopped
    BY <1>1 DEF Stopped, Hole, Occupied
  <2>2. \A p : IsBlocked(p)' <=> IsBlocked(p)
    BY <1>1 DEF IsBlocked, Hole, Occupied
  <2> QED BY <1>1, <1>8, <2>1, <2>2, StoppedStays DEF SameStops
<1> QED BY <1>5, <1>6, <1>7, <1>10, <1>11 DEF CoreInv

\* A process that is not in the table: the simulator goes down.
LEMMA LookupFaultInv ==
  ASSUME CoreInv, FinishLookupFault, stale => stale'
  PROVE  CoreInv'
<1>1. Fault /\ UNCHANGED diskVars
  BY DEF FinishLookupFault, UnblockFault
<1>2. /\ stack' = stack /\ dpc' = dpc /\ io' = io
      /\ UNCHANGED <<last_pid, cpc, cj, csel, quantum, submitted>>
  BY <1>1 DEF Fault, pcbVars, cpuVars, rndVars, dskVars
<1>3. IInv' /\ TypeOK'
  <2>1. Next
    BY LookupIsFind DEF Next, DiskThread
  <2> QED BY <2>1, KernelConstants, NextInv DEF CoreInv, IInv
<1>4. /\ Places' = Places /\ \A x : PidAt(x)' = PidAt(x)
      /\ D!DiskTypeOK' /\ LoadedInv' /\ IssuedInv'
  BY <1>1, <1>2, <1>3, DiskUntouched
<1>5. CreatedInv' /\ SelectInv'
  BY <1>2 DEF CoreInv, CreatedInv, CreatedSoFar, SelectInv
<1>6. StoppedInv' /\ ServedInv' /\ HoleInv'
  BY <1>1, <1>4, CalmActions DEF RequestsStay, CalmStep
<1> QED BY <1>3, <1>4, <1>5, <1>6 DEF CoreInv

\* The second half of p_unblock, and the end of disk_finish: unless it wrote to
\* a slot that the process had left, the process that goes on is the one whose
\* request is gone.
LEMMA FinishInv ==
  ASSUME CoreInv, Finish, ~stale' => ~stale /\ dptr = p_find(done)
  PROVE  CoreInv'
<1>1. /\ dpc = "write" /\ dpc' = "idle" /\ sys' = sys /\ stack' = Mark(stack, dptr, "READY")
      /\ UNCHANGED <<curr, last, last_pid, cpc, ci, cj, csel, quantum, load,
                     rpc, rnew, submitted, io, value, waiters, sems, mutex>>
  BY DEF Finish, FinishWrite, cpuVars, rndVars, semVars
<1>2. /\ place = "finish" /\ place' = "sort" /\ put = "idle" /\ done' = 0
      /\ queue' = queue /\ len' = len /\ track' = track /\ ri' = ri
      /\ rl' = rl /\ put' = put /\ creq' = creq /\ cl' = cl
  BY DEF Finish, D!Finished, D!cpuVars
<1>3. IInv'
  <2>1. Next
    BY DEF Finish, Next, DiskThread
  <2> QED BY <2>1, KernelConstants, NextInv DEF CoreInv
<1>4. /\ SameProcs(stack, stack') /\ stack \in Tables
      /\ \A k \in Slots : stack'[k].status = IF k = dptr THEN "READY" ELSE stack[k].status
  BY <1>1, TypedTable, MarkTable DEF CoreInv, Statuses
<1>5. Hole' = Hole /\ HoleInv'
  BY <1>1, <1>4, HoleStays
<1>6. CreatedInv'
  BY <1>1 DEF CoreInv, CreatedInv, CreatedSoFar
<1>7. SelectInv'
  <2> SUFFICES ASSUME cpc \in {"exec", "run"} \/ (cpc = "select" /\ csel # NULL)
               PROVE  stack'[csel].status \notin Stops
    BY <1>1 DEF SelectInv
  <2>1. csel \in Slots
    BY DEF CoreInv, IInv, TypeOK, PlaceInv
  <2> QED BY <1>4, <2>1 DEF CoreInv, SelectInv, Stops
<1>8. D!DiskTypeOK' /\ LoadedInv'
  BY <1>1, <1>2 DEF CoreInv, D!DiskTypeOK, LoadedInv, D!Overlap
<1>9. Places' = Places \ {DONE} /\ DONE \in Places
  <2>1. Entries' = Entries /\ InPut = {} /\ InPut' = {} /\ InDone = {DONE} /\ InDone' = {}
    BY <1>2 DEF Entries, Kept, InPut, InDone
  <2>2. DONE \notin Entries
    BY PlacesFinite DEF Entries
  <2> QED BY <2>1, <2>2 DEF Places
<1>10. \A x : x # DONE => PidAt(x)' = PidAt(x)
  BY <1>2 DEF PidAt
<1>11. IssuedInv'
  <2>1. Issued = Places \ {DONE} /\ Issued' = Places \ {DONE}
    BY <1>1, <1>9 DEF Issued
  <2>2. \A p : IssuedBy(p)' = IssuedBy(p)
    BY <1>10, <2>1 DEF IssuedBy
  <2> QED BY <1>1, <2>2 DEF CoreInv, IssuedInv
<1>12. \A k \in Slots : Occupied(k)' <=> Occupied(k)
  BY <1>4 DEF SameProcs, Occupied
<1>13. StoppedInv'
  <2>1. Stopped' = Stopped \ {dptr}
    BY <1>4, <1>5, <1>12 DEF Stopped, Stops
  <2>2. IsFiniteSet(Stopped) /\ Cardinality(Stopped) \in Nat
    BY StoppedFinite DEF CoreInv
  <2>3. Cardinality(Stopped') >= Cardinality(Stopped) - 1
    <3>1. Cardinality(Stopped') = IF dptr \in Stopped THEN Cardinality(Stopped) - 1
                                  ELSE Cardinality(Stopped)
      BY <2>1, <2>2, FS_RemoveElement
    <3> QED BY <2>2, <3>1
  <2>4. Cardinality(Places') = Cardinality(Places) - 1 /\ Cardinality(Places) \in Nat
    BY <1>9, PlacesFinite, FS_RemoveElement
  <2>5. Cells' = Cells
    BY <1>1 DEF Cells
  <2>6. /\ Cardinality(Places) + Cardinality(Cells) <= Cardinality(Stopped)
        /\ IsFiniteSet(Cells) /\ Cardinality(Cells) \in Nat
    BY FS_CardinalityType DEF CoreInv, StoppedInv
  <2>7. Cardinality(Stopped') \in Nat
    <3>1. IsFiniteSet(Stopped')
      BY <2>1, <2>2, FS_RemoveElement
    <3> QED BY <3>1, FS_CardinalityType
  <2> QED BY <2>2, <2>3, <2>4, <2>5, <2>6, <2>7 DEF StoppedInv
<1>14. ServedInv'
  <2> SUFFICES ASSUME ~stale' PROVE ServedInv'
    BY DEF ServedInv
  <2>1. /\ \A p \in Pids : IsBlocked(p) => \E x \in Places : PidAt(x) = p
        /\ \A x \in Places : IsBlocked(PidAt(x))
        /\ \A x, y \in Places : PidAt(x) = PidAt(y) => x = y
        /\ dptr = p_find(done)
    BY DEF CoreInv, ServedInv
  <2>2. \A p : IsBlocked(p)' <=> p # done /\ IsBlocked(p)
    <3>1. \A k \in Slots \ {Hole} :
            Occupied(k) /\ stack[k].status = "BLOCKED" => (k = dptr <=> stack[k].pid = done)
      <4> SUFFICES ASSUME NEW k \in Slots \ {Hole}, Occupied(k), stack[k].status = "BLOCKED"
                   PROVE  k = dptr <=> stack[k].pid = done
        OBVIOUS
      <4>1. p_find(stack[k].pid) = k
        BY Unique DEF CoreInv
      <4>2. PICK l \in Slots \ {Hole} : Occupied(l) /\ stack[l].pid = done
        BY <1>9, <2>1, PlacesFinite DEF IsBlocked, PidAt
      <4>3. p_find(done) = l
        BY <4>2, Unique DEF CoreInv
      <4> QED BY <2>1, <4>1, <4>2, <4>3
    <3>2. \A k \in Slots : /\ stack'[k].pid = stack[k].pid
                           /\ stack'[k].status = "BLOCKED" <=>
                                k # dptr /\ stack[k].status = "BLOCKED"
      BY <1>4 DEF SameProcs
    <3> QED BY <1>5, <1>12, <3>1, <3>2 DEF IsBlocked
  <2>3. PidAt(DONE) = done
    BY PlacesFinite DEF PidAt
  <2>4. \A x \in Places' : x \in Places /\ PidAt(x)' = PidAt(x) /\ PidAt(x) # done
    BY <1>9, <1>10, <2>1, <2>3
  <2>5. ASSUME NEW p \in Pids, IsBlocked(p)' PROVE \E x \in Places' : PidAt(x)' = p
    <3>1. PICK x \in Places : PidAt(x) = p
      BY <2>1, <2>2, <2>5
    <3>2. x # DONE
      BY <2>2, <2>3, <2>5, <3>1
    <3> QED BY <1>9, <1>10, <3>1, <3>2
  <2>6. ASSUME NEW x \in Places' PROVE IsBlocked(PidAt(x))'
    <3>1. PICK p : p = PidAt(x)'
      OBVIOUS
    <3>2. IsBlocked(p)'
      BY <2>1, <2>2, <2>4, <3>1
    <3> QED BY <3>1, <3>2 DEF IsBlocked
  <2>7. ASSUME NEW x \in Places', NEW y \in Places', PidAt(x)' = PidAt(y)' PROVE x = y
    BY <2>1, <2>4, <2>7
  <2> QED BY <2>5, <2>6, <2>7 DEF ServedInv
<1> QED BY <1>3, <1>5, <1>6, <1>7, <1>8, <1>11, <1>13, <1>14 DEF CoreInv

-----------------------------------------------------------------------------
(* Why the simulator goes down. *)

\* While nothing is raced, written late or put beyond the live processes.
SoundInv == NoGap /\ OriginInv /\ RemInv /\ BatchInv
ExplainedInv == DownIsExplained /\ (Tainted \/ SoundInv)

\* The reasons that lie in what the simulator is given.
LEMMA MissExplained ==
  ASSUME IInv, OriginInv, RemInv, UserPrograms = {}, LoadBroken \/ ExecDiskMiss
  PROVE  \E i \in 1 .. Len(load) :
           \/ load[i] \in Broken
           \/ \E c \in {Code[load[i]][j] : j \in 1 .. Len(Code[load[i]])} \cup StaleCode :
                c.op = "disk" /\ c.t > TOTAL_TRACKS
<1>1. CASE LoadBroken
  <2>1. quantum \in 1 .. Len(load) /\ load[quantum] \in Broken
    BY <1>1, KernelConstants DEF LoadBroken, At, IInv, TypeOK, PlaceInv, KernelConstants
  <2> QED BY <2>1
<1>2. CASE ExecDiskMiss
  <2>1. Executing
    BY <1>2 DEF ExecDiskMiss, CanRun, At, Executing
  <2>2. PICK c \in Fetch : c.op = "disk" /\ c.t > TOTAL_TRACKS
    BY <1>2 DEF ExecDiskMiss
  <2>3. /\ csel \in Slots /\ Occupied(csel) /\ Running.PC \in Nat
        /\ Len(Code[Running.prog]) \in Nat
    BY <2>1, KernelConstants, ExecFacts, TableFacts DEF Running
  <2>4. PICK i \in 1 .. Len(load) : Running.prog = load[i]
    BY <2>3 DEF OriginInv, Started, Running
  <2>5. CASE Running.PC < Len(Code[Running.prog])
    <3> DEFINE j == Running.PC + 1
    <3>1. j \in 1 .. Len(Code[load[i]])
      BY <2>3, <2>4, <2>5
    <3>2. Code[load[i]][j].op = "disk"
      BY <2>1, <2>2, <2>4, <2>5, FetchOp
    <3>3. Running.rem = Code[load[i]][j].t
      BY <2>3, <2>4, <2>5, <3>2 DEF RemInv, Fresh, Running
    <3>4. c.t = Running.rem
      <4>1. Code[Running.prog][Running.PC + 1] \in Instr
        BY <2>3, <2>4, <3>1, TableFacts, KernelConstants DEF Running, KernelConstants
      <4> QED BY <2>2, <2>5, <4>1 DEF Fetch, Instr
    <3> HIDE DEF j
    <3> QED BY <2>2, <3>1, <3>2, <3>3, <3>4
  <2>6. CASE ~(Running.PC < Len(Code[Running.prog]))
    <3>1. c \in StaleCode
      BY <2>2, <2>6 DEF Fetch
    <3> QED BY <2>2, <3>1
  <2> QED BY <2>5, <2>6
<1> QED BY <1>1, <1>2

\* The disk finds the process whose request it has finished.
LEMMA ReportFinds == ASSUME CoreInv, ~stale PROVE ~FinishLookupFault
<1> SUFFICES ASSUME FinishLookupFault PROVE FALSE
  OBVIOUS
<1>1. place = "finish" /\ p_find(done) = NULL
  BY DEF FinishLookupFault, UnblockFault, FinishedPid
<1>2. IsBlocked(done)
  BY <1>1, PlacesFinite DEF CoreInv, ServedInv, Places, InDone, PidAt
<1>3. PICK k \in Slots \ {Hole} : Occupied(k) /\ stack[k].pid = done
  BY <1>2 DEF IsBlocked
<1>4. p_find(done) = k
  BY <1>3, Unique DEF CoreInv
<1> QED BY <1>1, <1>4 DEF NULL, Slots

\* Only the CPU thread takes the simulator down then.
LEMMA DownStep ==
  ASSUME CoreInv, ~stale, ~D!Overlap', ChicNext, sys' # sys
  PROVE  CpuThread \/ RenderThread
<1>1. Cpu \/ Disk
  BY DEF ChicNext
<1>2. stale => stale'
  OBVIOUS
<1>3. ~DiskStep
  BY <1>2, DiskStepInv
<1>4. ~disk_request /\ ~FinishLookup /\ ~Finish
  BY DEF disk_request, ExecDisk, FinishLookup, p_unblock, Finish, FinishWrite
<1> QED BY <1>1, <1>3, <1>4, ReportFinds DEF Cpu, Disk, KernelStep

-----------------------------------------------------------------------------
(* The theorems. *)

\* At the start nothing is requested and nobody waits.
LEMMA ChicInitInv == ASSUME ChicInit PROVE ChicInv
<1>1. IInv
  BY KernelConstants, InitInv DEF ChicInit, HistInit
<1>2. /\ \A k \in Slots : ~Occupied(k)
      /\ waiters = [z \in Sems |-> <<>>] /\ cpc = "sleep" /\ dpc = "idle"
      /\ io = [p \in Pids |-> 0] /\ last_pid = 0 /\ quantum = 0 /\ submitted = 0
      /\ sys = "up"
  BY DEF ChicInit, HistInit, Init, Occupied, ZeroSlot
<1>3. /\ len = 0 /\ track = 0 /\ place = "sort" /\ ri = 0 /\ rl = 0 /\ done = 0
      /\ put = "idle" /\ creq = D!ZeroReq /\ cl = 0
      /\ queue = [i \in D!Slots |-> D!ZeroReq]
  BY DEF ChicInit, D!DiskInit
<1>4. D!DiskTypeOK
  <2>1. D!ZeroReq \in D!Request
    BY KernelConstants, ChicConstants DEF D!ZeroReq, D!Request, D!Tracks, KernelConstants
  <2> QED BY <1>2, <1>3, <2>1, KernelConstants
          DEF D!DiskTypeOK, D!Tracks, KernelConstants
<1>5. CreatedInv /\ LoadedInv /\ SelectInv /\ HoleInv
  BY <1>2, <1>3, KernelConstants
     DEF CreatedInv, CreatedSoFar, QUANTUM_MAX, LoadedInv, D!Overlap, SelectInv, HoleInv,
         KernelConstants
<1>6. Places = {}
  <2>1. Entries = {}
    BY <1>3 DEF Entries, Kept, Slots
  <2> QED BY <1>3, <2>1 DEF Places, InPut, InDone
<1>7. IssuedInv
  <2>1. \A p : IssuedBy(p) = {}
    BY <1>6 DEF IssuedBy, Issued
  <2>2. \A p \in Pids : io[p] = 0
    BY <1>2
  <2>3. \A p : Cardinality(IssuedBy(p)) = 0
    BY <2>1, FS_EmptySet
  <2> QED BY <2>2, <2>3 DEF IssuedInv
<1>8. StoppedInv
  <2>1. Cells = {}
    BY <1>2 DEF Cells
  <2>2. Stopped = {}
    BY <1>2 DEF Stopped
  <2> QED BY <1>6, <2>1, <2>2, FS_EmptySet DEF StoppedInv
<1>9. ServedInv
  BY <1>2, <1>6 DEF ServedInv, IsBlocked
<1>10. WaitersInv
  BY InitSems DEF ChicInit, HistInit, WaitersInv
<1> QED BY <1>1, <1>4, <1>5, <1>7, <1>8, <1>9, <1>10 DEF ChicInv, CoreInv

\* A step before the first overlap of q_put and q_remove keeps the invariant,
\* and for the kernel it is a step of Kernel or none.
LEMMA ChicStep ==
  ASSUME ChicInv, [ChicNext]_allVars, ~raced'
  PROVE  CoreInv' /\ [Next]_vars
<1>1. CASE ChicNext
  <2>1. /\ Cpu \/ Disk
        /\ raced' = (raced \/ D!Overlap')
        /\ stale' = (stale \/ (dpc = "write" /\ dpc' = "idle" /\ dptr # p_find(FinishedPid)))
    BY <1>1 DEF ChicNext
  <2>2. ~raced /\ ~D!Overlap' /\ (stale => stale') /\ CoreInv /\ WaitersInv
    BY <2>1 DEF ChicInv
  <2>3. CASE KernelStep
    BY <2>2, <2>3, KernelStepInv DEF KernelStep, Next
  <2>4. CASE disk_request
    BY <2>2, <2>4, RequestInv DEF disk_request, CpuThread, Next
  <2>5. CASE DiskStep
    <3>1. CoreInv' /\ sys' = sys
      BY <2>2, <2>5, DiskStepInv
    <3> QED BY <2>5, <3>1 DEF DiskStep, vars
  <2>6. CASE FinishLookup
    BY <2>2, <2>6, LookupInv, LookupIsFind DEF DiskThread, Next
  <2>7. CASE FinishLookupFault
    BY <2>2, <2>7, LookupFaultInv, LookupIsFind DEF DiskThread, Next
  <2>8. CASE Finish
    <3>1. dpc = "write" /\ dpc' = "idle"
      BY <2>8 DEF Finish, FinishWrite
    <3>2. ~stale' => ~stale /\ dptr = p_find(done)
      BY <2>1, <3>1 DEF FinishedPid
    <3> QED BY <2>2, <2>8, <3>2, FinishInv DEF Finish, DiskThread, Next
  <2> QED BY <2>1, <2>3, <2>4, <2>5, <2>6, <2>7, <2>8 DEF Cpu, Disk
<1>2. CASE UNCHANGED allVars
  <2>1. UNCHANGED <<vars, diskVars, raced, stale, gap>>
    BY <1>2 DEF allVars, coreVars, histVars
  <2>2. UNCHANGED <<stack, curr, last, last_pid, cpc, ci, cj, csel, quantum, load, cpu_s,
                    rpc, rnew, submitted, dpc, dptr, io, value, waiters, sems, mutex, sys>>
    BY <2>1 DEF vars, pcbVars, cpuVars, rndVars, dskVars, semVars
  <2>3. CoreInv /\ stack \in Tables
    BY <2>1, TypedTable DEF ChicInv, CoreInv
  <2>4. IInv' /\ TypeOK'
    BY <2>1, <2>3, KernelConstants, NextInv DEF CoreInv, IInv
  <2>5. /\ Places' = Places /\ \A x : PidAt(x)' = PidAt(x)
        /\ D!DiskTypeOK' /\ LoadedInv' /\ IssuedInv'
    BY <2>1, <2>2, <2>3, <2>4, DiskUntouched
  <2>6. CreatedInv' /\ SelectInv'
    BY <2>2, <2>3 DEF CoreInv, CreatedInv, CreatedSoFar, SelectInv
  <2>7. StoppedInv' /\ ServedInv' /\ HoleInv'
    <3>1. Calm(stack, stack') /\ Hole' = Hole /\ waiters' = waiters
      BY <2>2, <2>3, CalmSame DEF Hole
    <3>2. HoleInv'
      BY <2>2, <2>3, <3>1, HoleStays DEF Calm
    <3>3. SameStops /\ (stale => stale')
      BY <2>1, <3>1, CalmTable
    <3> QED BY <2>3, <2>5, <3>1, <3>2, <3>3, StoppedStays
  <2> QED BY <2>1, <2>4, <2>5, <2>6, <2>7 DEF CoreInv
<1> QED BY <1>1, <1>2

\* What was raced, written late or done past an end stays so.
LEMMA HistoryStays ==
  ASSUME [ChicNext]_allVars
  PROVE  (~raced' => ~raced) /\ (~stale' => ~stale) /\ (~stray' => ~stray /\ ~Stray)
<1>1. CASE ChicNext
  <2>1. raced' = (raced \/ D!Overlap') /\ stray' = (stray \/ Stray)
    BY <1>1 DEF ChicNext
  <2>2. stale' = (stale \/ (dpc = "write" /\ dpc' = "idle" /\ dptr # p_find(FinishedPid)))
    BY <1>1 DEF ChicNext
  <2> QED BY <2>1, <2>2
<1>2. CASE UNCHANGED allVars
  BY <1>2, StillOwn DEF allVars, coreVars, histVars
<1> QED BY <1>1, <1>2

\* Unless it writes to a slot that the process has left, p_unblock writes to a
\* process that waits for the disk.
LEMMA WriteHits ==
  ASSUME CoreInv, [ChicNext]_allVars, FinishWrite, ~stale'
  PROVE  NoStrayWake
<1>1. dpc = "write" /\ dpc' = "idle" /\ place = "finish"
  BY DEF FinishWrite, CoreInv, LoadedInv
<1>2. ~stale /\ dptr = p_find(done)
  <2>1. ~UNCHANGED allVars
    BY <1>1 DEF allVars, coreVars, vars, dskVars
  <2> QED BY <1>1, <2>1 DEF ChicNext, FinishedPid
<1>3. IsBlocked(done)
  BY <1>1, <1>2, PlacesFinite DEF CoreInv, ServedInv, Places, InDone, PidAt
<1>4. PICK k \in Slots \ {Hole} :
        Occupied(k) /\ stack[k].status = "BLOCKED" /\ stack[k].pid = done
  BY <1>3 DEF IsBlocked
<1>5. p_find(done) = k
  BY <1>4, Unique DEF CoreInv
<1> QED BY <1>2, <1>4, <1>5 DEF NoStrayWake

\* So the rings keep to the processes that wait.
LEMMA WaitersStep ==
  ASSUME ChicInv, [ChicNext]_allVars, ~raced'
  PROVE  WaitersInv'
<1> SUFFICES ASSUME ~stale' PROVE RingsInv'
  BY DEF WaitersInv
<1>1. ~raced /\ ~stale
  BY HistoryStays
<1>2. IInv /\ SelectInv /\ RingsInv /\ [Next]_vars
  BY <1>1, ChicStep DEF ChicInv, CoreInv, WaitersInv
<1>3. FinishWrite => NoStrayWake
  BY <1>1, WriteHits DEF ChicInv
<1> QED BY <1>2, <1>3, RingsStep

\* No more cells of the rings are in use than processes are stopped.
LEMMA CellsServed ==
  ASSUME CoreInv
  PROVE  IsFiniteSet(Cells) /\ Cardinality(Cells) <= Cardinality(Stopped)
<1>1. IsFiniteSet(Cells) /\ Cardinality(Places) + Cardinality(Cells) <= Cardinality(Stopped)
  BY DEF CoreInv, StoppedInv
<1>2. /\ Cardinality(Cells) \in Nat /\ Cardinality(Places) \in Nat
      /\ Cardinality(Stopped) \in Nat
  BY <1>1, StoppedFinite, PlacesFinite, FS_CardinalityType DEF CoreInv
<1> QED BY <1>1, <1>2

\* The inductive invariant of the kernel with its disk.
THEOREM ChicInductive == ChicSpec => []ChicInv
<1>1. ChicInit => ChicInv
  BY ChicInitInv
<1>2. ChicInv /\ [ChicNext]_allVars => ChicInv'
  BY ChicStep, WaitersStep DEF ChicInv
<1> QED BY <1>1, <1>2, PTL DEF ChicSpec

\* What Kernel takes for granted of the disk holds of disk.c until q_put and
\* q_remove overlap: whatever is reported was issued, and reported only once.
THEOREM DiskDelivers == ChicSpec => KernelUntilRaced
<1>1. ChicInv /\ [ChicNext]_allVars => [raced' \/ Next]_vars
  BY ChicStep
<1> QED BY <1>1, ChicInductive, PTL DEF ChicSpec, KernelUntilRaced

\* So the kernel with the disk implements Kernel as long as the queue of the
\* disk is not raced, and everything proved of Kernel is true of it.
THEOREM ImplementsKernel == ChicSpec /\ []~raced => Spec
<1>1. ChicInit => Init
  BY DEF ChicInit, HistInit
<1>2. ~raced' /\ [raced' \/ Next]_vars => [Next]_vars
  OBVIOUS
<1>3. KernelUntilRaced /\ []~raced => [][Next]_vars
  BY <1>2, PTL DEF KernelUntilRaced
<1> QED BY <1>1, <1>3, DiskDelivers, PTL DEF ChicSpec, Spec

\* A blocked process has its request in the disk, from end to end, unless the
\* queue was raced or a moved slot was written.
THEOREM BlockedHaveRequests == ChicSpec => []BlockedIsServed
<1>1. ChicInv => BlockedIsServed
  <2> SUFFICES ASSUME CoreInv, ~stale, NEW k \in Slots \ {Hole}, Occupied(k),
                      stack[k].status = "BLOCKED"
               PROVE  \/ D!InQueue(stack[k].pid) \/ D!BeingPut(stack[k].pid)
                      \/ D!BeingDone(stack[k].pid)
    BY DEF ChicInv, BlockedIsServed
  <2> DEFINE p == stack[k].pid
  <2>1. p \in Pids
    BY PidRange DEF CoreInv
  <2>2. IsBlocked(p)
    BY DEF IsBlocked
  <2>3. PICK x \in Places : PidAt(x) = p
    <3> HIDE DEF p
    <3> QED BY <2>1, <2>2 DEF CoreInv, ServedInv
  <2> HIDE DEF p
  <2>4. CASE x \in Entries
    <3>1. len \in 0 .. 255 /\ rl \in 0 .. 255
      BY DiskTypes
    <3>2. x \in Slots /\ x \in Nat /\ x < len
      BY <2>4, <3>1 DEF Entries, Kept, Slots, CoreInv, LoadedInv
    <3>3. x \in 0 .. len - 1 /\ x # PUT /\ x # DONE
      BY <3>1, <3>2, PlacesFinite
    <3> QED BY <2>3, <3>3 DEF PidAt, D!InQueue, p
  <2>5. CASE x \in InPut
    BY <2>3, <2>5 DEF InPut, PidAt, D!BeingPut, p
  <2>6. CASE x \in InDone
    BY <2>3, <2>6, PlacesFinite DEF InDone, PidAt, D!BeingDone, p
  <2> QED BY <2>4, <2>5, <2>6 DEF Places
<1> QED BY <1>1, ChicInductive, PTL

\* q_put has no test for a full queue and needs none before the first overlap:
\* fewer processes exist than the queue has entries, and each has one request.
THEOREM QueueNeverFull ==
  ChicSpec => [](raced \/ (put # "idle" => len < MAX_PCB - 1))
<1>1. ChicInv => raced \/ (put # "idle" => len < MAX_PCB - 1)
  BY PutFacts DEF ChicInv
<1> QED BY <1>1, ChicInductive, PTL

\* The disk answers late, and through a pointer that a compaction may have moved,
\* but until its queue is raced no wake-up is lost: a process that waits for a
\* semaphore is queued on one.
THEOREM WaitersQueuedWithDisk ==
  ASSUME MAX_PCB <= WAITERS_NUM
  PROVE  ChicSpec => [](raced \/ WaitingIsQueued)
<1> DEFINE Queued == raced \/ WaitingIsQueued
<1>1. ChicInit => Queued
  BY InitSems DEF ChicInit, HistInit
<1>2. ChicInv /\ Queued /\ [ChicNext]_allVars => Queued'
  <2> SUFFICES ASSUME ChicInv, Queued, [ChicNext]_allVars, ~raced' PROVE WaitingIsQueued'
    OBVIOUS
  <2>1. CoreInv /\ WaitingIsQueued /\ [Next]_vars
    BY HistoryStays, ChicStep DEF ChicInv
  <2>2. ExecP => RingHasRoom
    BY <2>1, PVExecute, RingsShort, CellsServed DEF CoreInv
  <2> QED BY <2>1, <2>2, QueuedStep DEF CoreInv
<1>3. ChicSpec => []Queued
  <2> HIDE DEF Queued
  <2> QED BY <1>1, <1>2, ChicInductive, PTL DEF ChicSpec
<1> QED BY <1>3 DEF Queued

\* Programs that pair P and V exclude each other through semaphores and disk,
\* until the queue of the disk is raced, a moved slot is written or a killed
\* process does a P, a V or a disk request that a former program left in its page.
THEOREM ExclusionWithDisk ==
  ASSUME WellFormed, MAX_PCB <= I8_MAX + 3
  PROVE  ChicSpec => [](raced \/ stale \/ ExclusionUnlessStray)
<1> DEFINE Apart == raced \/ stale \/ stray \/ ExclusionInv
<1>1. ChicInit => Apart
  BY KernelConstants, InitInv, InitSems DEF ChicInit, HistInit, ExclusionInv
<1>2. ChicInv /\ Apart /\ [ChicNext]_allVars => Apart'
  <2> SUFFICES ASSUME ChicInv, Apart, [ChicNext]_allVars, ~raced', ~stale', ~stray'
               PROVE  ExclusionInv'
    OBVIOUS
  <2>1. ~raced /\ ~stale /\ ~stray /\ ~Stray
    BY HistoryStays
  <2>2. ExclusionInv /\ [Next]_vars
    BY <2>1, ChicStep
  <2>3. FinishWrite => NoStrayWake
    BY <2>1, WriteHits DEF ChicInv
  <2> QED BY <2>1, <2>2, <2>3, InsideStep
<1>3. Apart => raced \/ stale \/ ExclusionUnlessStray
  BY OneHolder DEF ExclusionInv, InsideInv, ExclusionUnlessStray
<1>4. ChicSpec => [](raced \/ stale \/ ExclusionUnlessStray)
  <2> HIDE DEF Apart
  <2> QED BY <1>1, <1>2, <1>3, ChicInductive, PTL DEF ChicSpec
<1> QED BY <1>4

\* And unless V is called I8_MAX times more than P, the value of a semaphore
\* counts the processes in its ring.
THEOREM ValuesCountWithDisk ==
  ASSUME MAX_PCB <= WAITERS_NUM, MAX_PCB <= I8_MAX + 2
  PROVE  ChicSpec /\ [](\A s \in Sems : value[s] < I8_MAX) => [](raced \/ ValueCountsWaiters)
<1> DEFINE Low == \A s \in Sems : value[s] < I8_MAX
           Counted == raced \/ (UnnamedInv /\ ValueCountsWaiters)
<1>1. ChicInit => Counted
  BY InitSems DEF ChicInit, HistInit
<1>2. ChicInv /\ Counted /\ Low /\ [ChicNext]_allVars => Counted'
  <2> SUFFICES ASSUME ChicInv, Counted, Low, [ChicNext]_allVars, ~raced'
               PROVE  UnnamedInv' /\ ValueCountsWaiters'
    OBVIOUS
  <2>1. CoreInv /\ UnnamedInv /\ ValueCountsWaiters /\ [Next]_vars
    BY HistoryStays, ChicStep DEF ChicInv
  <2>2. ExecP \/ ExecV => RoomLeft
    BY <2>1, PVExecute, ValuesFit, CellsServed DEF CoreInv
  <2> QED BY <2>1, <2>2, ValueStep DEF CoreInv
<1>3. Counted => raced \/ ValueCountsWaiters
  OBVIOUS
<1>4. ChicSpec /\ []Low => [](raced \/ ValueCountsWaiters)
  <2> HIDE DEF Counted, Low
  <2> QED BY <1>1, <1>2, <1>3, ChicInductive, PTL DEF ChicSpec
<1> QED BY <1>4 DEF Low

\* Without a screen and a user, and with fewer programs than slots, the simulator
\* with its disk goes down only for the reasons that DownIsExplained names.
THEOREM DownHasCause ==
  ASSUME ~should_render, UserPrograms = {}, LOAD_MAX <= MAX_PCB - 1
  PROVE  ChicSpec => []DownIsExplained
<1>1. ChicInit => ExplainedInv
  <2> SUFFICES ASSUME ChicInit PROVE ExplainedInv
    OBVIOUS
  <2>1. OriginInv /\ RemInv /\ BatchInv /\ sys = "up" /\ last = 0
    BY InitSems, InitBatch DEF ChicInit, HistInit, Init
  <2> QED BY <2>1 DEF ExplainedInv, SoundInv, DownIsExplained, NoGap, Slots
<1>2. ChicInv /\ ExplainedInv /\ [ChicNext]_allVars => ExplainedInv'
  <2> SUFFICES ASSUME ChicInv, ExplainedInv, [ChicNext]_allVars PROVE ExplainedInv'
    OBVIOUS
  <2>1. CASE Tainted'
    BY <2>1 DEF ExplainedInv, DownIsExplained
  <2>2. CASE UNCHANGED allVars
    BY <2>2 DEF allVars, coreVars, histVars, vars, pcbVars, cpuVars, rndVars, ExplainedInv,
                DownIsExplained, Tainted, SoundInv, NoGap, OriginInv, Started, RemInv, Fresh,
                BatchInv, Occupied
  <2>3. CASE ChicNext /\ ~Tainted'
    <3>1. /\ ~raced /\ ~stale /\ ~gap /\ ~raced' /\ ~stale' /\ ~gap' /\ ~D!Overlap'
          /\ cpc' # "shift" => \A k \in Slots : k < last' => stack'[k].prog # NoProg
      BY <2>3 DEF ChicNext, Tainted
    <3>2. CoreInv /\ RingsInv /\ SoundInv /\ [Next]_vars
      BY <3>1, ChicStep DEF ChicInv, WaitersInv, ExplainedInv, Tainted
    <3>3. IInv /\ SelectInv /\ NoGap /\ OriginInv /\ RemInv /\ BatchInv
      BY <3>2 DEF CoreInv, SoundInv
    <3>4. SoundInv'
      <4>1. NoGap'
        BY <3>1 DEF NoGap, Occupied
      <4>2. OriginInv' /\ RemInv' /\ BatchInv'
        BY <3>2, <3>3, OriginStep, RemStep, BatchStep DEF BatchInv
      <4> QED BY <4>1, <4>2 DEF SoundInv
    <3>5. load' = load
      BY <3>2, LoadStays
    <3>6. CASE sys' = sys
      <4>1. sys = "down" => ~Tainted
        BY <3>1 DEF Tainted
      <4>2. DownIsExplained
        BY DEF ExplainedInv
      <4> QED BY <3>4, <3>5, <3>6, <4>1, <4>2 DEF ExplainedInv, DownIsExplained
    <3>7. CASE sys' # sys
      <4>1. LoadBroken \/ ExecDiskMiss
        BY <2>3, <3>1, <3>2, <3>3, <3>7, DownStep, FaultCause
      <4> QED BY <3>3, <3>4, <3>5, <4>1, MissExplained DEF ExplainedInv, DownIsExplained
    <3> QED BY <3>6, <3>7
  <2> QED BY <2>1, <2>2, <2>3
<1>3. ExplainedInv => DownIsExplained
  BY DEF ExplainedInv
<1> QED BY <1>1, <1>2, <1>3, ChicInductive, PTL DEF ChicSpec
=============================================================================
