---------------------------- MODULE KernelProofs ----------------------------
(* The inductive invariant of KernelInv, for any table size, any programs,  *)
(* any contents of the memory behind a program and any number of users'     *)
(* submissions.                                                             *)
EXTENDS KernelHist, SetLemmas

\* p_find returns the first slot that holds the pid, or a null pointer.
LEMMA PFind ==
  ASSUME MAX_PCB \in Nat, NEW pid
  PROVE  /\ p_find(pid) \in Slots \cup {NULL}
         /\ NULL \notin Slots
         /\ (\E k \in Slots : stack[k].pid = pid) =>
              /\ p_find(pid) \in Slots
              /\ stack[p_find(pid)].pid = pid
              /\ \A j \in Slots : j < p_find(pid) => stack[j].pid # pid
<1> DEFINE T == {k \in Slots : stack[k].pid = pid}
<1>1. ASSUME \E k \in Slots : stack[k].pid = pid
      PROVE  \E k \in Slots : /\ stack[k].pid = pid
                              /\ \A j \in Slots : j < k => stack[j].pid # pid
  <2>1. PICK k \in T : \A j \in T : k <= j
    <3>1. T \in SUBSET Nat /\ T # {}
      BY <1>1 DEF Slots
    <3> QED BY <3>1, LeastNat
  <2>2. \A j \in Slots : j < k => stack[j].pid # pid
    BY <2>1 DEF Slots
  <2> QED BY <2>1, <2>2
<1>2. NULL \notin Slots
  BY DEF NULL, Slots
<1> QED BY <1>1, <1>2 DEF p_find

-----------------------------------------------------------------------------
(* Records and tables. *)

\* The initial remaining time of an instruction is a number.
LEMMA TimeAtType ==
  ASSUME KernelConstants, NEW prog \in Programs, NEW pc \in Nat
  PROVE  TimeAt(prog, pc) \in Nat
<1>1. Code[prog] \in Seq(Instr)
  BY DEF KernelConstants
<1>2. ASSUME pc < Len(Code[prog])
      PROVE  Code[prog][pc + 1] \in Instr
  BY <1>1, <1>2
<1> QED BY <1>2 DEF TimeAt, Instr

\* Writing a status into a process leaves a process.
LEMMA StatusUpdate ==
  ASSUME NEW p \in Process, NEW s \in Statuses
  PROVE  /\ [p EXCEPT !.status = s] \in Process
         /\ [p EXCEPT !.status = s].pid = p.pid
         /\ [p EXCEPT !.status = s].prog = p.prog
         /\ [p EXCEPT !.status = s].status = s
BY DEF Process

\* Advancing a program keeps its identity and its status.
NextPC(p) == IF p.PC > Len(Code[p.prog]) THEN p.PC ELSE p.PC + 1
LEMMA AdvanceKeeps ==
  ASSUME KernelConstants, NEW p \in Process, p.prog # NoProg
  PROVE  /\ Advance(p) \in Process
         /\ Advance(p).pid = p.pid
         /\ Advance(p).prog = p.prog
         /\ Advance(p).status = p.status
         /\ Advance(p).PC = NextPC(p)
<1>1. p.prog \in Programs /\ p.PC \in Nat /\ p.PC + 1 \in Nat
  BY DEF Process
<1>2. Len(Code[p.prog]) \in Nat
  BY <1>1 DEF KernelConstants
<1>3. TimeAt(p.prog, p.PC + 1) \in Nat
  BY <1>1, TimeAtType
<1> DEFINE pc == NextPC(p)
<1>4. pc \in Nat
  BY <1>1, <1>2 DEF NextPC
<1>5. Advance(p) = [p EXCEPT !.PC = pc, !.rem = TimeAt(p.prog, p.PC + 1)]
  BY DEF Advance, NextPC
<1> HIDE DEF pc
<1>6. /\ Advance(p) \in Process /\ Advance(p).pid = p.pid /\ Advance(p).prog = p.prog
      /\ Advance(p).status = p.status /\ Advance(p).PC = pc
  BY <1>3, <1>4, <1>5 DEF Process
<1> QED BY <1>6 DEF pc

\* What p_create fills in is a process: its pid, status and program.
LEMMA NewProcessType ==
  ASSUME KernelConstants, NEW prog \in Programs, last_pid \in Nat
  PROVE  /\ NewProcess(prog) \in Process
         /\ NewProcess(prog).pid = last_pid
         /\ NewProcess(prog).prog = prog /\ prog # NoProg
         /\ NewProcess(prog).status = "NEW" /\ NewProcess(prog).PC = 0
<1>1. TimeAt(prog, 0) \in Nat
  BY TimeAtType
<1>2. prog # NoProg
  BY DEF KernelConstants
<1> QED BY <1>1, <1>2 DEF NewProcess, Process, Statuses

\* A zero-filled slot has the type of a process and holds no program.
LEMMA ZeroSlotType == ZeroSlot \in Process /\ ZeroSlot.prog = NoProg
BY DEF ZeroSlot, Process, Statuses

\* Two tables that hold the same processes, up to their statuses.
Tables == [Slots -> Process]
SameProcs(t, u) ==
  /\ u \in Tables
  /\ \A k \in Slots : u[k].pid = t[k].pid /\ u[k].prog = t[k].prog

\* p->status = s, for any pointer (one that is outside writes nothing here).
LEMMA MarkTable ==
  ASSUME NEW t \in Tables, NEW x, NEW s \in Statuses
  PROVE  /\ SameProcs(t, Mark(t, x, s))
         /\ \A k \in Slots : /\ Mark(t, x, s)[k].status =
                                  IF k = x THEN s ELSE t[k].status
                             /\ Mark(t, x, s)[k].PC = t[k].PC
<1>1. \A k \in Slots : Mark(t, x, s)[k] =
                         IF k = x THEN [t[k] EXCEPT !.status = s] ELSE t[k]
  BY DEF Tables, Mark
<1>2. Mark(t, x, s) = [k \in Slots |-> Mark(t, x, s)[k]]
  BY DEF Tables, Mark
<1>3. Mark(t, x, s) \in Tables
  BY <1>1, <1>2, StatusUpdate DEF Tables
<1>4. \A k \in Slots : /\ Mark(t, x, s)[k].pid = t[k].pid
                       /\ Mark(t, x, s)[k].prog = t[k].prog
                       /\ Mark(t, x, s)[k].status = IF k = x THEN s ELSE t[k].status
                       /\ Mark(t, x, s)[k].PC = t[k].PC
  <2> TAKE k \in Slots
  <2>1. t[k] \in Process
    BY DEF Tables
  <2>2. CASE k = x
    BY <1>1, <2>1, <2>2 DEF Process
  <2>3. CASE k # x
    BY <1>1, <2>3
  <2> QED BY <2>2, <2>3
<1> QED BY <1>3, <1>4 DEF SameProcs

\* p->c.PC++ for the selected process.
LEMMA ForwardTable ==
  ASSUME KernelConstants, NEW t \in Tables, csel \in Slots, t[csel].prog # NoProg
  PROVE  /\ SameProcs(t, Forward(t))
         /\ \A k \in Slots : /\ Forward(t)[k].status = t[k].status
                             /\ Forward(t)[k].PC = IF k = csel THEN NextPC(t[k]) ELSE t[k].PC
<1>1. t[csel] \in Process
  BY DEF Tables
<1>2. \A k \in Slots : Forward(t)[k] = IF k = csel THEN Advance(t[csel]) ELSE t[k]
  BY SMTT(60) DEF Tables, Forward
<1>3. Forward(t) = [k \in Slots |-> Forward(t)[k]]
  BY DEF Tables, Forward
<1>4. Forward(t) \in Tables
  <2>1. \A k \in Slots : Forward(t)[k] \in Process
    BY <1>1, <1>2, AdvanceKeeps DEF Tables
  <2> QED BY <1>3, <2>1 DEF Tables
<1> DEFINE q == Advance(t[csel])
<1>5. /\ q.pid = t[csel].pid /\ q.prog = t[csel].prog
      /\ q.status = t[csel].status /\ q.PC = NextPC(t[csel])
  BY <1>1, AdvanceKeeps
<1>6. \A k \in Slots : Forward(t)[k] = IF k = csel THEN q ELSE t[k]
  BY <1>2
<1> HIDE DEF q
<1> QED BY <1>4, <1>5, <1>6 DEF SameProcs

-----------------------------------------------------------------------------
(* Most steps change at most statuses and programs' positions: a quiet step *)
(* starts no process and kills nothing but a process.                       *)

Keeps(t, u) ==
  /\ SameProcs(t, u)
  /\ \A k \in Slots :
       u[k].status = "KILL" => t[k].status = "KILL" \/ t[k].prog # NoProg
Quiet(t, u) ==
  /\ Keeps(t, u)
  /\ \A k \in Slots : u[k].status = "RUNNING" => t[k].status = "RUNNING"

\* A table that does not change is quiet.
LEMMA QuietSame == ASSUME NEW t \in Tables PROVE Quiet(t, t)
BY DEF Quiet, Keeps, SameProcs

\* Quiet changes of the table compose.
LEMMA QuietTrans ==
  ASSUME NEW t, NEW u, NEW v, Quiet(t, u), Quiet(u, v)
  PROVE  Quiet(t, v)
BY DEF Quiet, Keeps, SameProcs

\* p_block, p_unblock, p_kill: a status other than RUNNING is a quiet change.
LEMMA QuietMark ==
  ASSUME NEW t \in Tables, NEW x, NEW s \in Statuses \ {"RUNNING"},
         s = "KILL" => t[x].prog # NoProg
  PROVE  Quiet(t, Mark(t, x, s))
BY MarkTable DEF Quiet, Keeps

\* c.PC++ of the selected process is a quiet change.
LEMMA QuietForward ==
  ASSUME KernelConstants, NEW t \in Tables, csel \in Slots, t[csel].prog # NoProg
  PROVE  Quiet(t, Forward(t))
BY ForwardTable DEF Quiet, Keeps

\* A status change followed by the program's advance.
LEMMA QuietMarkForward ==
  ASSUME KernelConstants, NEW t \in Tables, csel \in Slots, t[csel].prog # NoProg,
         NEW x, NEW s \in Statuses \ {"RUNNING", "KILL"}
  PROVE  Quiet(t, Forward(Mark(t, x, s)))
<1>1. Quiet(t, Mark(t, x, s))
  BY QuietMark
<1>2. Mark(t, x, s) \in Tables /\ Mark(t, x, s)[csel].prog # NoProg
  BY <1>1 DEF Quiet, Keeps, SameProcs
<1> QED BY <1>1, <1>2, QuietForward, QuietTrans

\* The invariants of the table survive a step that keeps the processes.
LEMMA KeepStep ==
  ASSUME KernelConstants, IInv, Keeps(stack, stack'),
         UNCHANGED <<curr, last>>, cj' = cj \/ cpc' # "shift",
         cpc = "shift" <=> cpc' = "shift"
  PROVE  TableInv' /\ PidsAscend' /\ LastBoundsLive'
<1>1. Hole' = Hole
  BY DEF Hole
<1>2. \A k \in Slots : Occupied(k)' <=> Occupied(k)
  BY DEF Keeps, SameProcs, Occupied
<1>3. Live' = Live
  BY <1>1, <1>2 DEF Live
<1>4. LastBoundsLive'
  BY <1>3 DEF IInv, LastBoundsLive
<1>5. PidsAscend'
  BY <1>1, <1>2 DEF IInv, PidsAscend, Keeps, SameProcs
<1>6. TableInv'
  BY <1>2 DEF IInv, TableInv, Keeps, SameProcs, Occupied
<1> QED BY <1>4, <1>5, <1>6

-----------------------------------------------------------------------------
(* The CPU thread. *)

\* The zero-filled table of init_app satisfies the invariant.
LEMMA InitInv == ASSUME KernelConstants, Init PROVE IInv
<1>1. stack \in Tables /\ \A k \in Slots : ~Occupied(k) /\ stack[k] = ZeroSlot
  BY ZeroSlotType DEF Init, Occupied, Tables
<1>2. TypeOK
  BY <1>1, ZeroSlotType DEF Init, TypeOK, KernelConstants, Tables, Pids
<1>3. LockInv /\ PlaceInv /\ CreateInv
  BY DEF Init, LockInv, PlaceInv, CreateInv, KernelConstants
<1>4. TableInv /\ RunInv /\ PidsAscend
  BY <1>1 DEF TableInv, RunInv, PidsAscend, ZeroSlot
<1>5. Live = {}
  BY <1>1 DEF Live
<1>6. LastBoundsLive
  BY <1>5, FS_EmptySet DEF LastBoundsLive, Init
<1> QED BY <1>2, <1>3, <1>4, <1>6 DEF IInv

\* The invariant types the process table.
LEMMA TypedTable == ASSUME IInv PROVE stack \in Tables
BY DEF IInv, TypeOK, Tables

\* scheduler_no_running: the threads' places change, one status may.
LEMMA NoRunningInv == ASSUME KernelConstants, IInv, NoRunning PROVE IInv'
<1>1. Quiet(stack, stack')
  BY TypedTable, QuietSame, QuietMark DEF NoRunning, Statuses
<1>2. TypeOK'
  BY <1>1 DEF NoRunning, IInv, TypeOK, Quiet, Keeps, SameProcs, Tables, rndVars, dskVars, semVars
<1>3. LockInv' /\ PlaceInv' /\ CreateInv'
  BY DEF NoRunning, At, IInv, LockInv, PlaceInv, CreateInv, rndVars, dskVars
<1>4. TableInv' /\ PidsAscend' /\ LastBoundsLive'
  BY <1>1, KeepStep DEF NoRunning, At, Quiet
<1>5. RunInv'
  <2>1. \A k \in Slots : Occupied(k)' => Occupied(k)
    BY <1>1 DEF Quiet, Keeps, SameProcs, Occupied
  <2>2. CASE ci < last
    <3>1. stack'[ci].status # "RUNNING" \/ ci \notin Slots
      BY <2>2, TypedTable, MarkTable DEF NoRunning, Statuses
    <3>2. /\ cpc = "norun" /\ cpc' = "norun" /\ ci' = ci + 1 /\ csel' = csel
          /\ last' = last /\ ci \in Nat
      BY <2>2 DEF NoRunning, At, IInv, TypeOK
    <3>3. ASSUME NEW k \in Slots, Occupied(k)', stack'[k].status = "RUNNING"
          PROVE  k = csel /\ k < last /\ ci + 1 <= k
      <4>1. k = csel /\ k < last /\ ci <= k
        BY <1>1, <2>1, <3>2, <3>3 DEF IInv, RunInv, Quiet
      <4> QED BY <3>1, <3>2, <3>3, <4>1 DEF Slots
    <3> QED BY <3>2, <3>3 DEF RunInv
  <2>3. CASE ~(ci < last)
    BY <1>1, <2>1, <2>3 DEF NoRunning, At, IInv, TypeOK, RunInv, Quiet, Slots
  <2> QED BY <2>2, <2>3
<1> QED BY <1>2, <1>3, <1>4, <1>5 DEF IInv

\* Steps of the CPU thread's loops that leave the table alone.
LEMMA ScanInv ==
  ASSUME KernelConstants, IInv,
         Tick \/ ReapDone \/ Select \/ (ReapScan /\ stack[ci].status # "KILL")
  PROVE  IInv'
<1>1. /\ stack' = stack /\ curr' = curr /\ last' = last /\ last_pid' = last_pid
      /\ cpc # "shift" /\ cpc' # "shift" /\ cj' = cj /\ cpu_s' = cpu_s
      /\ rpc' = rpc /\ rnew' = rnew /\ dpc' = dpc
  BY DEF Tick, ReapDone, Select, ReapScan, At, pcbVars, rndVars, dskVars
<1>2. Quiet(stack, stack')
  BY <1>1, TypedTable, QuietSame
<1>3. TableInv' /\ PidsAscend' /\ LastBoundsLive'
  BY <1>1, <1>2, KeepStep DEF Quiet
<1>4. LockInv' /\ CreateInv'
  BY <1>1 DEF IInv, LockInv, CreateInv
<1>5. TypeOK'
  <2>1. csel' \in Slots \cup {NULL}
    BY DEF IInv, TypeOK, Tick, ReapDone, Select, ReapScan, MoreCandidates,
           Slots, LastBoundsLive, CreateInv, KernelConstants
  <2>2. /\ ci' \in Nat /\ quantum' \in Nat /\ load' = load
        /\ cpc' \in {"norun", "reap", "select", "load"}
    BY DEF IInv, TypeOK, Tick, ReapDone, Select, ReapScan, At, KernelConstants, QUANTUM_MAX
  <2>3. UNCHANGED <<submitted, dskVars, semVars, sys>>
    BY DEF Tick, ReapDone, Select, ReapScan, rndVars
  <2> QED BY <1>1, <2>1, <2>2, <2>3 DEF IInv, TypeOK, dskVars, semVars
<1>6. PlaceInv'
  BY <1>1 DEF IInv, TypeOK, PlaceInv, Tick, ReapDone, Select, ReapScan, MoreCandidates, At,
              KernelConstants, QUANTUM_MAX
<1>7. RunInv'
  BY <1>1 DEF IInv, TypeOK, RunInv, Tick, ReapDone, Select, ReapScan, At, Occupied, Slots
<1> QED BY <1>3, <1>4, <1>5, <1>6, <1>7 DEF IInv

\* The end of scheduler_get_process: the selected process becomes RUNNING, and
\* no other one is.
LEMMA DispatchInv == ASSUME KernelConstants, IInv, Dispatch PROVE IInv'
<1>1. /\ curr' = curr /\ last' = last /\ last_pid' = last_pid /\ cj' = cj
      /\ csel' = csel /\ cpu_s' = cpu_s /\ rpc' = rpc /\ rnew' = rnew /\ dpc' = dpc
      /\ cpc = "select" /\ cpc' \in {"load", "exec"}
      /\ quantum' = quantum /\ load' = load /\ ci' = ci
  BY DEF Dispatch, At, rndVars, dskVars
<1>2. CASE csel = NULL
  <2>1. stack' = stack /\ cpc' = "load"
    BY <1>2 DEF Dispatch
  <2>2. TableInv' /\ PidsAscend' /\ LastBoundsLive'
    BY <1>1, <2>1, TypedTable, QuietSame, KeepStep DEF Quiet
  <2>3. TypeOK' /\ LockInv' /\ PlaceInv' /\ CreateInv' /\ RunInv'
    BY <1>1, <2>1 DEF Dispatch, IInv, TypeOK, LockInv, PlaceInv, CreateInv, RunInv,
                      Occupied, rndVars, dskVars, semVars
  <2> QED BY <2>2, <2>3 DEF IInv
<1>3. CASE csel # NULL
  <2>1. stack' = Mark(stack, csel, "RUNNING") /\ cpc' = "exec"
    BY <1>3 DEF Dispatch
  <2>2. /\ SameProcs(stack, stack')
        /\ \A k \in Slots : stack'[k].status = IF k = csel THEN "RUNNING"
                                               ELSE stack[k].status
    BY <2>1, TypedTable, MarkTable DEF Statuses
  <2>3. Keeps(stack, stack')
    BY <2>2 DEF Keeps
  <2>4. TableInv' /\ PidsAscend' /\ LastBoundsLive'
    BY <1>1, <2>1, <2>3, KeepStep
  <2>5. csel \in Slots /\ csel < last
    BY <1>1, <1>3 DEF IInv, TypeOK, PlaceInv
  <2>6. TypeOK'
    BY <1>1, <2>1, <2>2 DEF Dispatch, IInv, TypeOK, SameProcs, Tables,
                            rndVars, dskVars, semVars
  <2>7. LockInv' /\ PlaceInv' /\ CreateInv'
    BY <1>1, <2>1, <2>5 DEF IInv, LockInv, PlaceInv, CreateInv
  <2>8. \A k \in Slots : ~(Occupied(k) /\ stack[k].status = "RUNNING")
    BY <1>1 DEF IInv, RunInv
  <2>9. RunInv'
    BY <1>1, <2>1, <2>2, <2>5, <2>8 DEF RunInv, SameProcs, Occupied
  <2> QED BY <2>4, <2>6, <2>7, <2>9 DEF IInv
<1> QED BY <1>2, <1>3

-----------------------------------------------------------------------------
(* scheduler_kill_process. *)

\* The live processes can be counted.
LEMMA LiveFinite ==
  ASSUME KernelConstants
  PROVE  IsFiniteSet(Live) /\ Cardinality(Live) \in Nat
<1>1. IsFiniteSet(Slots)
  BY FS_Interval DEF Slots, KernelConstants
<1>2. Live \in SUBSET Slots
  BY DEF Live
<1> QED BY <1>1, <1>2, FS_Subset, FS_CardinalityType

\* A compaction starts on the slot of a killed process, which is live no more.
LEMMA ReapStartInv ==
  ASSUME KernelConstants, IInv, ReapScan, stack[ci].status = "KILL"
  PROVE  IInv'
<1>1. /\ UNCHANGED <<stack, curr, last, last_pid, csel, quantum, load, cpu_s, rpc, rnew, dpc>>
      /\ cpc = "reap" /\ cpc' = "shift" /\ cj' = ci + 1 /\ ci' = ci /\ ci < MAX_PCB
  BY DEF ReapScan, At, pcbVars, rndVars, dskVars
<1>2. ci \in Slots /\ Occupied(ci)
  BY <1>1 DEF IInv, TypeOK, TableInv, Slots, KernelConstants
<1>3. Hole = NULL /\ Hole' = ci /\ NULL \notin Slots /\ ci \in 0 .. MAX_PCB - 1
  <2>1. ci \in 0 .. MAX_PCB - 1 /\ NULL \notin Slots
    BY <1>2 DEF NULL, Slots, KernelConstants
  <2>2. Hole = NULL
    BY <1>1 DEF Hole
  <2>3. Hole' = ci
    BY <1>1, <2>1 DEF Hole
  <2> QED BY <2>1, <2>2, <2>3
<1>4. Live' = Live \ {ci} /\ ci \in Live
  BY <1>1, <1>2, <1>3 DEF Live, Occupied
<1>5. Cardinality(Live') = Cardinality(Live) - 1
  BY <1>4, LiveFinite, FS_RemoveElement
<1>6. LastBoundsLive'
  BY <1>1, <1>5, LiveFinite DEF IInv, TypeOK, LastBoundsLive
<1>7. PidsAscend'
  BY <1>1, <1>3 DEF IInv, PidsAscend, Occupied
<1>8. TypeOK'
  BY <1>1, <1>2 DEF ReapScan, IInv, TypeOK, Slots, rndVars, dskVars, semVars
<1>9. PlaceInv'
  <2>1. quantum' > 0
    BY <1>1 DEF IInv, PlaceInv
  <2>2. cj' \in 1 .. MAX_PCB /\ ci' \in Slots
    BY <1>1, <1>2, <1>3 DEF KernelConstants
  <2> QED BY <1>1, <2>1, <2>2 DEF PlaceInv
<1>10. LockInv' /\ CreateInv' /\ TableInv' /\ RunInv'
  BY <1>1 DEF IInv, LockInv, CreateInv, TableInv, RunInv, Occupied
<1> QED BY <1>6, <1>7, <1>8, <1>9, <1>10 DEF IInv

\* One copy: the hole moves up by one slot, and nothing else changes its order.
LEMMA ShiftCopyInv ==
  ASSUME KernelConstants, IInv, Shift, cj < MAX_PCB
  PROVE  IInv'
<1>1. /\ stack' = [stack EXCEPT ![cj - 1] = stack[cj]] /\ cj' = cj + 1
      /\ cpc = "shift" /\ cpc' = "shift"
      /\ UNCHANGED <<curr, last, last_pid, ci, csel, quantum, load, cpu_s, rpc, rnew, dpc>>
  BY DEF Shift, At, rndVars, dskVars
<1>2. /\ cj \in Slots /\ cj - 1 \in Slots /\ cj \in 1 .. MAX_PCB - 1 /\ ci \in Slots
      /\ Hole = cj - 1 /\ Hole' = cj
  <2>1. cj \in 1 .. MAX_PCB - 1 /\ ci \in Slots
    <3>1. cj \in 1 .. MAX_PCB /\ ci \in Slots
      BY <1>1 DEF IInv, PlaceInv
    <3> QED BY <3>1 DEF KernelConstants
  <2>2. Hole = cj - 1 /\ Hole' = cj
    BY <1>1, <2>1 DEF Hole
  <2> QED BY <2>1, <2>2 DEF Slots, KernelConstants
<1>3. /\ stack' \in Tables
      /\ \A k \in Slots : stack'[k] = IF k = cj - 1 THEN stack[cj] ELSE stack[k]
  BY <1>1, <1>2, TypedTable DEF Tables
<1>4. \A k \in Slots : Occupied(k)' <=> IF k = cj - 1 THEN Occupied(cj) ELSE Occupied(k)
  BY <1>3 DEF Occupied
<1>5. Live' = IF Occupied(cj) THEN (Live \ {cj}) \cup {cj - 1} ELSE Live
  BY <1>2, <1>4 DEF Live, Slots
<1>6. cj - 1 \notin Live /\ (Occupied(cj) => cj \in Live)
  BY <1>2 DEF Live, Slots
<1>7. Cardinality(Live') = Cardinality(Live)
  <2>1. CASE Occupied(cj)
    <3>1. /\ IsFiniteSet(Live \ {cj})
          /\ Cardinality(Live \ {cj}) = Cardinality(Live) - 1
      BY <1>6, <2>1, LiveFinite, FS_RemoveElement
    <3>2. cj - 1 \notin Live \ {cj}
      BY <1>6
    <3>3. Cardinality((Live \ {cj}) \cup {cj - 1}) = Cardinality(Live \ {cj}) + 1
      BY <3>1, <3>2, FS_AddElement
    <3> QED BY <1>5, <2>1, <3>1, <3>3, LiveFinite
  <2>2. CASE ~Occupied(cj)
    BY <1>5, <2>2
  <2> QED BY <2>1, <2>2
<1>8. LastBoundsLive'
  BY <1>1, <1>7 DEF IInv, LastBoundsLive
<1>9. TableInv'
  <2> SUFFICES ASSUME NEW k \in Slots
               PROVE  /\ Occupied(k)' => k < curr /\ stack'[k].pid < curr
                      /\ ~Occupied(k)' => stack'[k].pid = 0 /\ stack'[k].status # "KILL"
                      /\ Occupied(k)' /\ stack'[k].pid = 0 => k = 0
    BY <1>1 DEF TableInv
  <2>1. CASE k = cj - 1
    BY <1>2, <1>3, <1>4, <2>1 DEF IInv, TypeOK, TableInv, Slots
  <2>2. CASE k # cj - 1
    BY <1>3, <1>4, <2>2 DEF IInv, TableInv
  <2> QED BY <2>1, <2>2
<1>10. PidsAscend'
  <2> SUFFICES ASSUME NEW k \in Slots, NEW l \in Slots, k # cj, l # cj,
                      Occupied(k)', Occupied(l)', k < l
               PROVE  stack'[k].pid < stack'[l].pid
    BY <1>2 DEF PidsAscend
  <2> DEFINE from(x) == IF x = cj - 1 THEN cj ELSE x
  <2>1. \A x \in Slots : x # cj => /\ from(x) \in Slots \ {Hole}
                                   /\ stack'[x] = stack[from(x)]
                                   /\ Occupied(x)' <=> Occupied(from(x))
    BY <1>2, <1>3, <1>4 DEF Slots
  <2>2. from(k) < from(l)
    BY <1>2 DEF Slots
  <2> HIDE DEF from
  <2> QED BY <2>1, <2>2 DEF IInv, PidsAscend
<1>11. TypeOK'
  BY <1>1, <1>2, <1>3 DEF Shift, IInv, TypeOK, Tables, Slots, rndVars, dskVars, semVars
<1>12. LockInv' /\ PlaceInv' /\ CreateInv'
  <2>1. cj + 1 \in 1 .. MAX_PCB
    BY <1>2 DEF KernelConstants
  <2> QED BY <1>1, <1>2, <2>1 DEF IInv, LockInv, PlaceInv, CreateInv
<1>13. RunInv'
  BY <1>1, <1>2, <1>3, <1>4 DEF IInv, RunInv
<1> QED BY <1>8, <1>9, <1>10, <1>11, <1>12, <1>13 DEF IInv

\* Decrementing a u8 that is not zero.
LEMMA LastDown == \A n \in 1 .. 255 : (n + 255) % 256 = n - 1
OBVIOUS

\* The end of a compaction: last counts down, and it was not zero.
LEMMA ShiftEndInv ==
  ASSUME KernelConstants, IInv, Shift, ~(cj < MAX_PCB)
  PROVE  IInv'
<1>1. /\ last' = (last + 255) % 256 /\ cpc = "shift" /\ cpc' = "reap" /\ ci' = ci + 1
      /\ UNCHANGED <<stack, curr, last_pid, cj, csel, quantum, load, cpu_s, rpc, rnew, dpc>>
  BY DEF Shift, At, rndVars, dskVars
<1>2. Hole = MAX_PCB - 1 /\ Hole' = NULL /\ NULL \notin Slots /\ ci \in Nat
  BY <1>1 DEF IInv, TypeOK, PlaceInv, Hole, NULL, Slots, KernelConstants
<1>3. ~Occupied(MAX_PCB - 1)
  BY DEF IInv, TypeOK, CreateInv, TableInv, Slots, KernelConstants
<1>4. Live' = Live
  BY <1>1, <1>2, <1>3 DEF Live, Occupied
<1>5. last \in 1 .. 255 /\ Cardinality(Live) <= last - 1 /\ last <= curr
  <2>1. Cardinality(Live) <= last - 1 /\ last <= curr
    BY <1>1 DEF IInv, LastBoundsLive
  <2>2. curr <= 255 /\ curr \in Nat /\ last \in Nat
    BY DEF IInv, TypeOK, CreateInv, KernelConstants
  <2> QED BY <2>1, <2>2, LiveFinite
<1>6. last' = last - 1
  BY <1>1, <1>5, LastDown
<1>7. LastBoundsLive'
  <2>1. Cardinality(Live') <= last' /\ last' <= curr' /\ cpc' # "shift"
    <3>1. Cardinality(Live') = Cardinality(Live)
      BY <1>4
    <3>2. last' <= curr'
      BY <1>1, <1>5, <1>6 DEF IInv, TypeOK
    <3> QED BY <1>1, <1>5, <1>6, <3>1, <3>2
  <2> QED BY <2>1 DEF LastBoundsLive
<1>8. PidsAscend'
  BY <1>1, <1>2, <1>3 DEF IInv, PidsAscend, Occupied
<1>9. TypeOK'
  BY <1>1, <1>2, <1>5, <1>6 DEF Shift, IInv, TypeOK, rndVars, dskVars, semVars
<1>10. LockInv' /\ PlaceInv' /\ CreateInv' /\ TableInv' /\ RunInv'
  BY <1>1 DEF IInv, LockInv, PlaceInv, CreateInv, TableInv, RunInv, Occupied
<1> QED BY <1>7, <1>8, <1>9, <1>10 DEF IInv

-----------------------------------------------------------------------------
(* exec_process. *)

Executing == cpc = "run" \/ (cpc = "exec" /\ Occupied(csel))

\* What exec_process may rely on: its pointer is a live process of the table.
LEMMA ExecFacts ==
  ASSUME KernelConstants, IInv, Executing
  PROVE  /\ stack \in Tables /\ csel \in Slots /\ csel < last /\ Occupied(csel)
         /\ stack[csel] \in Process /\ stack[csel].prog \in Programs
         /\ stack[csel].prog # NoProg /\ stack[csel].pid \in Nat
         /\ cpc \in {"exec", "run"}
<1>1. csel \in Slots /\ csel < last /\ Occupied(csel) /\ cpc \in {"exec", "run"}
  BY DEF IInv, PlaceInv, Executing
<1>2. stack \in Tables /\ stack[csel] \in Process
  BY <1>1, TypedTable DEF Tables
<1> QED BY <1>1, <1>2 DEF Occupied, Process

\* Whatever exec_process fetches, also past the code, is an instruction.
LEMMA FetchType ==
  ASSUME KernelConstants, IInv, Executing, NEW c \in Fetch
  PROVE  c \in Instr /\ c.t \in Nat
<1> DEFINE code == Code[stack[csel].prog]
           pc == stack[csel].PC
<1>1. /\ stack[csel] \in Process /\ pc \in Nat /\ stack[csel].rem \in Nat
      /\ code \in Seq(Instr)
  BY ExecFacts DEF Process, KernelConstants
<1>2. CASE pc < Len(code)
  <2>1. c = [code[pc + 1] EXCEPT !.t = stack[csel].rem]
    BY <1>2 DEF Fetch, Running
  <2>2. code[pc + 1] \in Instr
    BY <1>1, <1>2
  <2> QED BY <1>1, <2>1, <2>2 DEF Instr
<1>3. CASE ~(pc < Len(code))
  <2>1. c \in StaleCode
    BY <1>3 DEF Fetch, Running
  <2> QED BY <2>1 DEF KernelConstants, Instr
<1> QED BY <1>2, <1>3

\* A step of exec_process: the table changes quietly, nothing else moves but
\* the semaphores and the queue of the disk.
LEMMA ExecInv ==
  ASSUME KernelConstants, IInv, Executing, Quiet(stack, stack'),
         cpc' \in {"load", "run", "hung"},
         UNCHANGED <<curr, last, last_pid, ci, cj, csel, quantum, load, rndVars,
                     dpc, dptr, sems, mutex>>,
         sys' \in {"up", "down"},
         cpu_s' = cpu_s \/ (cpu_s = "free" /\ cpu_s' = "cpu"),
         io' \in [Pids -> Nat], value' \in [Sems -> Int],
         waiters' \in [Sems -> Seq(Nat)]
  PROVE  IInv'
<1>1. /\ rpc' = rpc /\ rnew' = rnew /\ submitted' = submitted
      /\ curr' = curr /\ last' = last /\ last_pid' = last_pid
      /\ csel' = csel /\ cpc \in {"exec", "run"} /\ ci' = ci /\ cj' = cj
  BY ExecFacts DEF rndVars
<1>2. stack' \in Tables /\ \A k \in Slots : Occupied(k)' <=> Occupied(k)
  BY DEF Quiet, Keeps, SameProcs, Occupied
<1>3. TypeOK'
  BY <1>1, <1>2 DEF IInv, TypeOK, Tables
<1>4. LockInv' /\ CreateInv'
  BY <1>1 DEF IInv, LockInv, CreateInv
<1>5. PlaceInv'
  BY <1>1, <1>2, ExecFacts DEF IInv, PlaceInv
<1>6. TableInv' /\ PidsAscend' /\ LastBoundsLive'
  BY <1>1, KeepStep DEF Quiet
<1>7. RunInv'
  BY <1>1, <1>2 DEF IInv, RunInv, Quiet
<1> QED BY <1>3, <1>4, <1>5, <1>6, <1>7 DEF IInv

\* The types of the variables that the system calls change.
LEMMA SystemTypes ==
  ASSUME IInv
  PROVE  /\ io \in [Pids -> Nat] /\ value \in [Sems -> Int]
         /\ waiters \in [Sems -> Seq(Nat)] /\ sys \in {"up", "down"}
BY DEF IInv, TypeOK

\* process_kill: the slot found for the pid holds a process.
LEMMA KillInv == ASSUME KernelConstants, IInv, Kill PROVE IInv'
<1>1. Executing /\ cpc' = "run"
  BY DEF Kill, At, Executing
<1> DEFINE pid == stack[csel].pid
           k == p_find(pid)
<1>2. k \in Slots /\ stack[k].pid = pid /\ \A j \in Slots : j < k => stack[j].pid # pid
  <2>1. MAX_PCB \in Nat
    BY DEF KernelConstants
  <2>2. \E j \in Slots : stack[j].pid = pid
    BY <1>1, ExecFacts
  <2> QED BY <2>1, <2>2, PFind
<1>3. stack[k].prog # NoProg
  <2>1. CASE pid = 0
    <3>1. csel = 0 /\ 0 \in Slots
      BY <1>1, <2>1, ExecFacts DEF IInv, TableInv
    <3>2. k = 0
      BY <1>2, <2>1, <3>1 DEF Slots
    <3> QED BY <1>1, <3>1, <3>2, ExecFacts
  <2>2. CASE pid # 0
    BY <1>2, <2>2 DEF IInv, TableInv, Occupied
  <2> QED BY <2>1, <2>2
<1>4. stack' = Mark(stack, k, "KILL")
  BY DEF Kill, Running
<1>5. Quiet(stack, stack')
  BY <1>3, <1>4, TypedTable, QuietMark DEF Statuses
<1> QED BY <1>1, <1>5, ExecInv, SystemTypes DEF Kill, dskVars, semVars

\* process_exec changes neither a process's identity nor a status.
LEMMA ComputeTable ==
  ASSUME KernelConstants, IInv, ExecCompute
  PROVE  /\ SameProcs(stack, stack')
         /\ \A k \in Slots : /\ stack'[k].status = stack[k].status
                             /\ k # csel => stack'[k].PC = stack[k].PC
         /\ \E c \in Fetch : /\ c.op = "exec"
                            /\ stack'[csel].PC \in {stack[csel].PC, NextPC(stack[csel])}
<1>1. Executing
  BY DEF ExecCompute, CanRun, At, Executing
<1>2. PICK c \in Fetch :
        LET l == IF c.t < TIME_SLICE THEN c.t ELSE TIME_SLICE
            left == c.t - l
            ran == [stack[csel] EXCEPT !.h = (@ + 1) % H_MOD, !.rem = left]
            worked == IF l >= MAX_TIME_MORE_PAGES THEN p_realloc(ran) ELSE ran
        IN  /\ c.op = "exec"
            /\ stack' = [stack EXCEPT ![csel] = IF left > 0 THEN worked ELSE Advance(worked)]
  BY DEF ExecCompute, Running
<1> DEFINE l == IF c.t < TIME_SLICE THEN c.t ELSE TIME_SLICE
           left == c.t - l
           p == stack[csel]
           ran == [p EXCEPT !.h = (@ + 1) % H_MOD, !.rem = left]
           worked == IF l >= MAX_TIME_MORE_PAGES THEN p_realloc(ran) ELSE ran
           q == IF left > 0 THEN worked ELSE Advance(worked)
<1>3. left \in Nat
  BY <1>1, FetchType DEF KernelConstants
<1>4. p \in Process /\ csel \in Slots /\ stack \in Tables /\ p.prog # NoProg
  BY <1>1, ExecFacts
<1>5. (p.h + 1) % H_MOD \in Nat
  BY <1>4 DEF Process, KernelConstants
<1> HIDE DEF left
<1>6. /\ worked \in Process /\ worked.pid = p.pid /\ worked.prog = p.prog
      /\ worked.status = p.status /\ worked.PC = p.PC
  BY <1>3, <1>4, <1>5 DEF Process, p_realloc
<1> HIDE DEF worked
<1>7. /\ q \in Process /\ q.pid = p.pid /\ q.prog = p.prog /\ q.status = p.status
      /\ q.PC \in {p.PC, NextPC(p)}
  BY <1>4, <1>6, AdvanceKeeps DEF NextPC
<1>8. stack' = [stack EXCEPT ![csel] = q]
  BY <1>2 DEF worked, left
<1> HIDE DEF q
<1>9. \A k \in Slots : stack'[k] = IF k = csel THEN q ELSE stack[k]
  BY <1>4, <1>8 DEF Tables
<1>10. stack' \in Tables
  BY <1>4, <1>7, <1>8 DEF Tables
<1>11. c.op = "exec" /\ stack'[csel] = q
  BY <1>2, <1>4, <1>9
<1> QED BY <1>7, <1>9, <1>10, <1>11 DEF SameProcs

\* process_exec
LEMMA ExecComputeInv == ASSUME KernelConstants, IInv, ExecCompute PROVE IInv'
<1>1. Executing /\ cpc' = "load"
  BY DEF ExecCompute, CanRun, At, Executing
<1>2. Quiet(stack, stack')
  BY ComputeTable DEF Quiet, Keeps
<1> QED BY <1>1, <1>2, ExecInv, SystemTypes DEF ExecCompute, dskVars, semVars

\* print_request, an invalid command, P or V without a semaphore.
LEMMA ExecOtherInv == ASSUME KernelConstants, IInv, ExecOther PROVE IInv'
<1>1. Executing /\ cpc' = "load"
  BY DEF ExecOther, CanRun, At, Executing
<1>2. Quiet(stack, stack')
  BY <1>1, ExecFacts, QuietForward DEF ExecOther
<1> QED BY <1>1, <1>2, ExecInv, SystemTypes DEF ExecOther, dskVars, semVars

\* The wrapped value of an i8 is an integer.
LEMMA I8Type == ASSUME KernelConstants, NEW v \in Int PROVE I8(v) \in Int
BY DEF I8, KernelConstants

\* semaphoreP
LEMMA ExecPInv == ASSUME KernelConstants, IInv, ExecP PROVE IInv'
<1>1. Executing /\ cpc' = "load"
  BY DEF ExecP, CanRun, At, Executing
<1>2. PICK s \in Sems :
        /\ value' = [value EXCEPT ![s] = I8(value[s] - 1)]
        /\ \/ /\ waiters' = [waiters EXCEPT ![s] = waiter_push(@, stack[csel].pid)]
              /\ stack' = Forward(Mark(stack, p_find(stack[csel].pid), "WAITING"))
           \/ waiters' = waiters /\ stack' = Forward(stack)
  BY DEF ExecP, Running, IInv, TypeOK
<1>3. value' \in [Sems -> Int]
  BY <1>2, I8Type, SystemTypes
<1>4. waiters' \in [Sems -> Seq(Nat)]
  <2>1. waiter_push(waiters[s], stack[csel].pid) \in Seq(Nat)
    BY <1>1, ExecFacts, SystemTypes DEF waiter_push
  <2> QED BY ZenonT(60), <1>2, <2>1, SystemTypes
<1>5. Quiet(stack, stack')
  BY <1>1, <1>2, ExecFacts, QuietForward, QuietMarkForward DEF Statuses
<1> QED BY <1>1, <1>3, <1>4, <1>5, ExecInv, SystemTypes DEF ExecP, dskVars

\* semaphoreV
LEMMA ExecVInv == ASSUME KernelConstants, IInv, ExecV PROVE IInv'
<1>1. Executing /\ cpc' = "load"
  BY DEF ExecV, CanRun, At, Executing
<1>2. PICK s \in Sems :
        /\ value' = [value EXCEPT ![s] = I8(@ + 1)]
        /\ \/ /\ waiters[s] # <<>>
              /\ waiters' = [waiters EXCEPT ![s] = Tail(@)]
              /\ stack' = Forward(Mark(stack, p_find(Head(waiters[s])), "READY"))
           \/ waiters' = waiters /\ stack' = Forward(stack)
  BY DEF ExecV, IInv, TypeOK
<1>3. value' \in [Sems -> Int]
  BY <1>2, I8Type, SystemTypes
<1>4. waiters' \in [Sems -> Seq(Nat)]
  <2>1. waiters[s] # <<>> => Tail(waiters[s]) \in Seq(Nat)
    BY SystemTypes
  <2> QED BY ZenonT(60), <1>2, <2>1, SystemTypes
<1>5. Quiet(stack, stack')
  BY <1>1, <1>2, ExecFacts, QuietForward, QuietMarkForward DEF Statuses
<1> QED BY <1>1, <1>3, <1>4, <1>5, ExecInv, SystemTypes DEF ExecV, dskVars

\* disk_request marks one process as blocked.
LEMMA BlockTable ==
  ASSUME KernelConstants, IInv, ExecDisk
  PROVE  /\ SameProcs(stack, stack')
         /\ \A k \in Slots :
              /\ stack'[k].status =
                   IF k = p_find(Running.pid) THEN "BLOCKED" ELSE stack[k].status
              /\ stack'[k].PC = IF k = csel THEN NextPC(stack[k]) ELSE stack[k].PC
<1>1. Executing
  BY DEF ExecDisk, CanRun, At, Executing
<1> DEFINE counted == [stack EXCEPT ![csel].rw = IF @ < RW_MAX THEN @ + 1 ELSE @]
           marked == Mark(counted, p_find(Running.pid), "BLOCKED")
<1>2. stack' = Forward(marked)
  BY DEF ExecDisk
<1>3. /\ SameProcs(stack, counted)
      /\ \A k \in Slots : counted[k].status = stack[k].status /\ counted[k].PC = stack[k].PC
  <2>1. /\ stack \in Tables /\ csel \in Slots /\ stack[csel] \in Process
        /\ stack[csel].rw \in Nat
    BY <1>1, ExecFacts DEF Process
  <2> DEFINE n == IF stack[csel].rw < RW_MAX THEN stack[csel].rw + 1 ELSE stack[csel].rw
             q == [stack[csel] EXCEPT !.rw = n]
  <2>2. counted = [stack EXCEPT ![csel] = q]
    OBVIOUS
  <2>3. n \in Nat
    BY <2>1 DEF KernelConstants
  <2> HIDE DEF n
  <2>4. /\ q \in Process /\ q.pid = stack[csel].pid /\ q.prog = stack[csel].prog
        /\ q.status = stack[csel].status /\ q.PC = stack[csel].PC
    BY <2>1, <2>3 DEF Process
  <2> HIDE DEF q
  <2>5. \A k \in Slots : counted[k] = IF k = csel THEN q ELSE stack[k]
    BY <2>1, <2>2 DEF Tables, q
  <2>6. counted \in Tables
    BY <2>1, <2>2, <2>4 DEF Tables, q
  <2> HIDE DEF counted
  <2> QED BY <2>4, <2>5, <2>6 DEF SameProcs
<1> HIDE DEF counted
<1>4. /\ SameProcs(counted, marked)
      /\ \A k \in Slots :
           /\ marked[k].status =
                IF k = p_find(Running.pid) THEN "BLOCKED" ELSE counted[k].status
           /\ marked[k].PC = counted[k].PC
  <2>1. counted \in Tables /\ "BLOCKED" \in Statuses
    BY <1>3 DEF SameProcs, Statuses
  <2> QED BY <2>1, MarkTable
<1> HIDE DEF marked
<1>5. SameProcs(stack, marked) /\ marked \in Tables /\ marked[csel].prog # NoProg
  BY <1>1, <1>3, <1>4, ExecFacts DEF SameProcs
<1>6. /\ SameProcs(marked, stack')
      /\ \A k \in Slots :
           /\ stack'[k].status = marked[k].status
           /\ stack'[k].PC = IF k = csel THEN NextPC(marked[k]) ELSE marked[k].PC
  BY <1>1, <1>2, <1>5, ExecFacts, ForwardTable
<1>7. SameProcs(stack, stack')
  BY <1>5, <1>6 DEF SameProcs
<1>8. \A k \in Slots : marked[k].PC = stack[k].PC /\ marked[k].prog = stack[k].prog
  BY <1>3, <1>4, <1>5 DEF SameProcs
<1>9. \A k \in Slots : NextPC(marked[k]) = NextPC(stack[k])
  BY <1>8 DEF NextPC
<1> QED BY <1>3, <1>4, <1>6, <1>7, <1>8, <1>9

\* disk_request
LEMMA ExecDiskInv == ASSUME KernelConstants, IInv, ExecDisk PROVE IInv'
<1>1. Executing /\ cpc' = "load"
  BY DEF ExecDisk, CanRun, At, Executing
<1>2. Quiet(stack, stack')
  BY BlockTable DEF Quiet, Keeps
<1>3. io' \in [Pids -> Nat]
  <2> DEFINE pid == stack[csel].pid
  <2>1. io' = [io EXCEPT ![pid] = io[pid] + 1]
    BY DEF ExecDisk, Running
  <2>2. pid \in Pids => io[pid] + 1 \in Nat
    BY SystemTypes
  <2> QED BY <2>1, <2>2, SystemTypes
<1> QED BY <1>1, <1>2, <1>3, ExecInv, SystemTypes DEF ExecDisk, semVars

\* sem_wait on the mutex that was never initialised.
LEMMA HangInv == ASSUME KernelConstants, IInv, Hang PROVE IInv'
<1>1. Executing /\ stack' = stack
  BY DEF Hang, CanRun, At, Executing, pcbVars
<1>2. Quiet(stack, stack')
  BY <1>1, TypedTable, QuietSame
<1> QED BY <1>1, <1>2, ExecInv, SystemTypes DEF Hang, pcbVars, dskVars, semVars

-----------------------------------------------------------------------------
(* Process creation. *)

\* p_create's last step puts the newest process behind all others, also when
\* it lands on the hole of a compaction.
LEMMA CreateStep ==
  ASSUME KernelConstants, IInv, NEW q \in Process,
         q.pid = curr, q.prog # NoProg, q.status = "NEW", curr < MAX_PCB - 1,
         stack' = [stack EXCEPT ![curr] = q], curr' = curr + 1, last' = last + 1,
         cj' = cj, cpc = "shift" <=> cpc' = "shift"
  PROVE  /\ stack' \in Tables /\ TableInv' /\ PidsAscend' /\ LastBoundsLive'
         /\ \A k \in Slots : Occupied(k)' /\ stack'[k].status = "RUNNING" =>
              Occupied(k) /\ stack[k].status = "RUNNING"
         /\ \A k \in Slots : Occupied(k) => Occupied(k)'
<1>1. curr \in Slots /\ curr \in Nat /\ last \in Nat /\ Hole' = Hole
  BY DEF IInv, TypeOK, Slots, KernelConstants, Hole
<1>2. stack' \in Tables /\ \A k \in Slots : stack'[k] = IF k = curr THEN q ELSE stack[k]
  BY <1>1, TypedTable DEF Tables
<1>3. \A k \in Slots : Occupied(k)' <=> k = curr \/ Occupied(k)
  BY <1>2 DEF Occupied
<1>4. \A k \in Slots : Occupied(k) => k < curr /\ stack[k].pid < curr
  BY DEF IInv, TableInv
<1>5. TableInv'
  <2> SUFFICES ASSUME NEW k \in Slots
               PROVE  /\ Occupied(k)' => k < curr + 1 /\ stack'[k].pid < curr + 1
                      /\ ~Occupied(k)' => stack'[k].pid = 0 /\ stack'[k].status # "KILL"
                      /\ Occupied(k)' /\ stack'[k].pid = 0 => k = 0
    BY DEF TableInv
  <2>1. CASE k = curr
    BY <1>1, <1>2, <1>3, <2>1
  <2>2. CASE k # curr
    <3>1. k \in Int /\ stack[k].pid \in Nat /\ stack'[k] = stack[k]
      BY <1>2, <2>2, TypedTable DEF Slots, Tables, Process
    <3> QED BY <1>1, <1>3, <1>4, <2>2, <3>1 DEF IInv, TableInv
  <2> QED BY <2>1, <2>2
<1>6. PidsAscend'
  <2> SUFFICES ASSUME NEW k \in Slots \ {Hole}, NEW l \in Slots \ {Hole},
                      Occupied(k)', Occupied(l)', k < l
               PROVE  stack'[k].pid < stack'[l].pid
    BY <1>1 DEF PidsAscend
  <2>1. k # curr /\ Occupied(k) /\ k \in Int /\ l \in Int
    BY <1>1, <1>3, <1>4 DEF Slots
  <2>2. CASE l = curr
    BY <1>2, <1>4, <2>1, <2>2
  <2>3. CASE l # curr
    BY <1>2, <1>3, <2>1, <2>3 DEF IInv, PidsAscend
  <2> QED BY <2>2, <2>3
<1>7. LastBoundsLive'
  <2>1. Live' \in SUBSET (Live \cup {curr})
    <3> SUFFICES ASSUME NEW k \in Live' PROVE k \in Live \cup {curr}
      OBVIOUS
    <3>1. k \in Slots \ {Hole} /\ Occupied(k)'
      BY <1>1 DEF Live
    <3>2. k = curr \/ Occupied(k)
      BY <1>3, <3>1
    <3> QED BY <3>1, <3>2 DEF Live
  <2>2. IsFiniteSet(Live \cup {curr}) /\ Cardinality(Live \cup {curr}) <= Cardinality(Live) + 1
    <3>1. IsFiniteSet(Live) /\ Cardinality(Live) \in Nat
      BY LiveFinite
    <3> QED BY <3>1, AddOne
  <2>3. Cardinality(Live') <= Cardinality(Live \cup {curr}) /\ IsFiniteSet(Live')
    BY <2>1, <2>2, FS_Subset
  <2>4. Cardinality(Live') \in Nat /\ Cardinality(Live \cup {curr}) \in Nat
    BY <2>2, <2>3, FS_CardinalityType
  <2>5. Cardinality(Live') <= Cardinality(Live) + 1
    BY <2>2, <2>3, <2>4, LiveFinite
  <2>6. /\ Cardinality(Live) <= (IF cpc = "shift" THEN last - 1 ELSE last)
        /\ last <= curr
    BY DEF IInv, LastBoundsLive
  <2>7. /\ Cardinality(Live') <= (IF cpc' = "shift" THEN last' - 1 ELSE last')
        /\ last' <= curr'
    BY <1>1, <2>4, <2>5, <2>6, LiveFinite
  <2> QED BY <2>7 DEF LastBoundsLive
<1>8. \A k \in Slots : Occupied(k)' /\ stack'[k].status = "RUNNING" =>
        Occupied(k) /\ stack[k].status = "RUNNING"
  BY <1>2, <1>3
<1> QED BY <1>2, <1>3, <1>5, <1>6, <1>7, <1>8

\* The debug build's programs, created by the CPU thread.
LEMMA LoadInv == ASSUME KernelConstants, IInv, Load PROVE IInv'
<1>1. /\ cpc = "load" /\ cpc' = "sleep" /\ cj' = cj /\ csel' = csel
      /\ UNCHANGED <<ci, quantum, load, cpu_s, rpc, rnew, submitted, dpc, dptr, io>>
      /\ waiters' = waiters /\ mutex' = mutex
  BY DEF Load, At, rndVars, dskVars, semVars, InitSemaphores, init_semaphore
<1>2. sys' \in {"up", "down"} /\ value' \in [Sems -> Int] /\ sems' \subseteq Sems
  <2>1. ASSUME NEW prog \in Programs, InitSemaphores(prog)
        PROVE  value' \in [Sems -> Int] /\ sems' \subseteq Sems
    BY <2>1 DEF InitSemaphores, init_semaphore, IInv, TypeOK, KernelConstants
  <2>2. quantum \in Nat \ {0} /\ load \in Seq(Programs)
    BY <1>1 DEF IInv, TypeOK, PlaceInv, KernelConstants
  <2>3. quantum <= Len(load) => load[quantum] \in Programs
    BY <2>2
  <2> QED BY <2>1, <2>3 DEF Load, LogUnknown, IInv, TypeOK, semVars
<1>3. CASE UNCHANGED pcbVars
  <2>1. stack' = stack /\ curr' = curr /\ last' = last /\ last_pid' = last_pid
    BY <1>3 DEF pcbVars
  <2>2. TableInv' /\ PidsAscend' /\ LastBoundsLive'
    BY <1>1, <2>1, TypedTable, QuietSame, KeepStep DEF Quiet
  <2>3. TypeOK'
    BY <1>1, <1>2, <2>1 DEF IInv, TypeOK
  <2>4. LockInv' /\ PlaceInv' /\ CreateInv' /\ RunInv'
    BY <1>1, <2>1 DEF IInv, LockInv, PlaceInv, CreateInv, RunInv, Occupied
  <2> QED BY <2>2, <2>3, <2>4 DEF IInv
<1>4. CASE ~UNCHANGED pcbVars
  <2>1. /\ quantum <= Len(load) /\ cpu_s = "free" /\ ~TableFull
        /\ stack' = [stack EXCEPT ![curr] = NewProcess(load[quantum])]
        /\ curr' = curr + 1 /\ last' = last + 1 /\ last_pid' = last_pid + 1
    BY <1>4 DEF Load
  <2>2. load[quantum] \in Programs
    <3>1. quantum \in Nat \ {0} /\ load \in Seq(Programs)
      BY <1>1 DEF IInv, TypeOK, PlaceInv, KernelConstants
    <3> QED BY <2>1, <3>1
  <2>3. rpc = "idle" /\ last_pid = curr /\ curr < MAX_PCB - 1 /\ curr \in Nat /\ last \in Nat
    BY <2>1 DEF IInv, TypeOK, LockInv, CreateInv, TableFull, KernelConstants
  <2> DEFINE q == NewProcess(load[quantum])
  <2>4. q \in Process /\ q.pid = curr /\ q.prog # NoProg /\ q.status = "NEW"
    BY <2>2, <2>3, NewProcessType
  <2> HIDE DEF q
  <2>5. /\ stack' \in Tables /\ TableInv' /\ PidsAscend' /\ LastBoundsLive'
        /\ \A k \in Slots : Occupied(k)' /\ stack'[k].status = "RUNNING" =>
             Occupied(k) /\ stack[k].status = "RUNNING"
    BY <1>1, <2>1, <2>3, <2>4, CreateStep DEF q
  <2>6. TypeOK'
    BY <1>1, <1>2, <2>1, <2>3, <2>5 DEF IInv, TypeOK, Tables
  <2>7. CreateInv' /\ LockInv' /\ PlaceInv'
    BY <1>1, <2>1, <2>3 DEF IInv, LockInv, PlaceInv, CreateInv, KernelConstants
  <2>8. RunInv'
    BY <1>1, <2>1, <2>3, <2>5 DEF IInv, RunInv, Slots
  <2> QED BY <2>5, <2>6, <2>7, <2>8 DEF IInv
<1> QED BY <1>3, <1>4

-----------------------------------------------------------------------------
(* The render thread. *)

\* read_path up to the last pcb_s region of p_create: the pid is taken.
LEMMA SubmitInv ==
  ASSUME KernelConstants, IInv, NEW prog \in UserPrograms, Submit(prog)
  PROVE  IInv'
<1>1. /\ UNCHANGED <<stack, curr, last, cpc, ci, cj, csel, quantum, load, dpc, dptr, io>>
      /\ rpc = "idle" /\ cpu_s = "free" /\ submitted' = submitted + 1
      /\ prog \in Programs
  BY DEF Submit, cpuVars, dskVars, KernelConstants
<1>2. TableInv' /\ PidsAscend' /\ LastBoundsLive'
  BY <1>1, TypedTable, QuietSame, KeepStep DEF Quiet
<1>3. RunInv'
  BY <1>1 DEF IInv, RunInv, Occupied
<1>4. CASE TableFull
  <2>1. /\ UNCHANGED <<rpc, rnew, cpu_s, last_pid, value, waiters, sems, mutex>>
        /\ sys' \in {"up", "down"}
    BY <1>4 DEF Submit, semVars, LogUnknown
  <2>2. TypeOK' /\ LockInv' /\ PlaceInv' /\ CreateInv'
    BY <1>1, <2>1 DEF IInv, TypeOK, LockInv, PlaceInv, CreateInv, Occupied
  <2> QED BY <1>2, <1>3, <2>2 DEF IInv
<1>5. CASE ~TableFull
  <2>1. /\ rnew' = NewProcess(prog) /\ last_pid' = last_pid + 1
        /\ cpu_s' = "render" /\ rpc' = "append" /\ sys' = sys
        /\ waiters' = waiters /\ mutex' = mutex
        /\ value' = [s \in Sems |-> IF s \in Declares[prog] \ sems THEN 1 ELSE value[s]]
        /\ sems' = sems \cup Declares[prog]
    BY <1>5 DEF Submit, InitSemaphores, init_semaphore
  <2>2. last_pid = curr /\ curr < MAX_PCB - 1 /\ curr \in Nat
    BY <1>1, <1>5 DEF IInv, TypeOK, CreateInv, TableFull, KernelConstants
  <2>3. /\ rnew' \in Process /\ rnew'.pid = curr /\ rnew'.prog # NoProg
        /\ rnew'.status = "NEW" /\ rnew'.PC = 0
    BY <1>1, <2>1, <2>2, NewProcessType
  <2>4. value' \in [Sems -> Int] /\ sems' \subseteq Sems
    BY <1>1, <2>1 DEF IInv, TypeOK, KernelConstants
  <2>5. TypeOK'
    BY <1>1, <2>1, <2>2, <2>3, <2>4 DEF IInv, TypeOK
  <2>6. LockInv' /\ PlaceInv' /\ CreateInv'
    BY <1>1, <2>1, <2>2, <2>3 DEF IInv, LockInv, PlaceInv, CreateInv, Occupied
  <2> QED BY <1>2, <1>3, <2>5, <2>6 DEF IInv
<1> QED BY <1>4, <1>5

\* The last pcb_s region of p_create, at any place of the CPU thread.
LEMMA SubmitAppendInv == ASSUME KernelConstants, IInv, SubmitAppend PROVE IInv'
<1>1. /\ stack' = [stack EXCEPT ![curr] = rnew] /\ curr' = curr + 1 /\ last' = last + 1
      /\ rpc = "append" /\ rpc' = "log"
      /\ UNCHANGED <<last_pid, cpc, ci, cj, csel, quantum, load, cpu_s, rnew,
                     submitted, dpc, dptr, io, value, waiters, sems, mutex, sys>>
  BY DEF SubmitAppend, cpuVars, dskVars, semVars
<1>2. /\ rnew \in Process /\ rnew.pid = curr /\ rnew.prog # NoProg /\ rnew.status = "NEW"
      /\ curr < MAX_PCB - 1 /\ curr \in Nat /\ last \in Nat /\ last_pid = curr + 1
  BY <1>1 DEF IInv, TypeOK, CreateInv
<1>3. /\ stack' \in Tables /\ TableInv' /\ PidsAscend' /\ LastBoundsLive'
      /\ \A k \in Slots : Occupied(k)' /\ stack'[k].status = "RUNNING" =>
           Occupied(k) /\ stack[k].status = "RUNNING"
      /\ \A k \in Slots : Occupied(k) => Occupied(k)'
  BY <1>1, <1>2, CreateStep
<1>4. TypeOK'
  BY <1>1, <1>2, <1>3 DEF IInv, TypeOK, Tables
<1>5. LockInv' /\ CreateInv'
  BY <1>1, <1>2 DEF IInv, LockInv, CreateInv, KernelConstants
<1>6. PlaceInv'
  BY <1>1, <1>2, <1>3 DEF IInv, TypeOK, PlaceInv, Slots
<1>7. RunInv'
  BY <1>1, <1>2, <1>3 DEF IInv, RunInv, Slots
<1> QED BY <1>3, <1>4, <1>5, <1>6, <1>7 DEF IInv

-----------------------------------------------------------------------------
(* Steps that leave the table and the CPU thread alone. *)

\* The steps that leave the table alone: log_process, p_find, a fault.
LEMMA AsideInv ==
  ASSUME KernelConstants, IInv,
         SubmitLog \/ Fault \/ \E pid \in Pids : FinishFind(pid)
  PROVE  IInv'
<1>1. UNCHANGED <<stack, curr, last, last_pid, cpc, ci, cj, csel, quantum, load,
                  submitted, value, waiters, sems, mutex>>
  BY DEF SubmitLog, Fault, FinishFind, p_unblock, pcbVars, cpuVars, rndVars, semVars
<1>2. TableInv' /\ PidsAscend' /\ LastBoundsLive'
  BY <1>1, TypedTable, QuietSame, KeepStep DEF Quiet
<1>3. RunInv' /\ PlaceInv'
  BY <1>1 DEF IInv, RunInv, PlaceInv, Occupied
<1>4. TypeOK' /\ LockInv' /\ CreateInv'
  <2>1. CASE SubmitLog
    BY <1>1, <2>1, ZeroSlotType DEF SubmitLog, LogUnknown, IInv, TypeOK, LockInv, CreateInv,
                                    dskVars
  <2>2. CASE Fault
    BY <1>1, <2>2 DEF Fault, IInv, TypeOK, LockInv, CreateInv, rndVars, dskVars
  <2>3. ASSUME NEW pid \in Pids, FinishFind(pid) PROVE TypeOK' /\ LockInv' /\ CreateInv'
    <3>1. p_find(pid) \in Slots \cup {NULL}
      <4>1. MAX_PCB \in Nat BY KernelConstants DEF KernelConstants
      <4> QED BY <4>1, PFind
    <3>2. io' \in [Pids -> Nat]
      BY <2>3 DEF FinishFind, IInv, TypeOK
    <3>3. /\ dptr' \in Slots \cup {NULL} /\ dpc' = "write" /\ cpu_s' = "disk"
          /\ cpu_s = "free" /\ dpc = "idle" /\ rpc' = rpc /\ rnew' = rnew
          /\ submitted' = submitted /\ sys' = sys
      BY <2>3, <3>1 DEF FinishFind, p_unblock, rndVars
    <3>4. TypeOK'
      <4>1. TypeOK BY DEF IInv
      <4> QED BY <1>1, <3>2, <3>3, <4>1 DEF TypeOK
    <3>5. LockInv' /\ CreateInv'
      BY <1>1, <3>3 DEF IInv, LockInv, CreateInv
    <3> QED BY <3>4, <3>5
  <2> QED BY <2>1, <2>2, <2>3
<1> QED BY <1>2, <1>3, <1>4 DEF IInv

\* The second half of p_unblock, wherever its pointer points by now.
LEMMA FinishWriteInv == ASSUME KernelConstants, IInv, FinishWrite PROVE IInv'
<1>1. /\ stack' = Mark(stack, dptr, "READY") /\ dpc' = "idle" /\ dptr' = NULL
      /\ cpu_s' = "free" /\ dpc = "write"
      /\ UNCHANGED <<curr, last, last_pid, cpc, ci, cj, csel, quantum, load, rpc, rnew,
                     submitted, io, value, waiters, sems, mutex, sys>>
  BY DEF FinishWrite, cpuVars, rndVars, semVars
<1>2. Quiet(stack, stack')
  BY <1>1, TypedTable, QuietMark DEF Statuses
<1>3. stack' \in Tables /\ \A k \in Slots : Occupied(k)' <=> Occupied(k)
  BY <1>2 DEF Quiet, Keeps, SameProcs, Occupied
<1>4. TableInv' /\ PidsAscend' /\ LastBoundsLive'
  BY <1>1, <1>2, KeepStep DEF Quiet
<1>5. TypeOK' /\ LockInv' /\ CreateInv'
  BY <1>1, <1>3 DEF IInv, TypeOK, LockInv, CreateInv, Tables
<1>6. RunInv' /\ PlaceInv'
  BY <1>1, <1>2, <1>3 DEF IInv, RunInv, PlaceInv, Quiet
<1> QED BY <1>4, <1>5, <1>6 DEF IInv

-----------------------------------------------------------------------------
(* The theorems. *)

\* Every step of every thread preserves the invariant.
THEOREM NextInv == ASSUME KernelConstants, IInv, [Next]_vars PROVE IInv'
<1>1. CASE CpuThread
  <2>1. CASE Tick \/ ReapDone \/ Select
    BY <2>1, ScanInv
  <2>2. CASE NoRunning
    BY <2>2, NoRunningInv
  <2>3. CASE ReapScan
    BY <2>3, ScanInv, ReapStartInv
  <2>4. CASE Shift
    BY <2>4, ShiftCopyInv, ShiftEndInv
  <2>5. CASE Dispatch
    BY <2>5, DispatchInv
  <2>6. CASE Kill
    BY <2>6, KillInv
  <2>7. CASE ExecCompute
    BY <2>7, ExecComputeInv
  <2>8. CASE ExecOther
    BY <2>8, ExecOtherInv
  <2>9. CASE ExecP
    BY <2>9, ExecPInv
  <2>10. CASE ExecV
    BY <2>10, ExecVInv
  <2>11. CASE Hang
    BY <2>11, HangInv
  <2>12. CASE ExecDisk
    BY <2>12, ExecDiskInv
  <2>13. CASE Load
    BY <2>13, LoadInv
  <2>14. CASE SelectFault \/ ExecNull \/ ExecDiskMiss \/ LoadBroken
    BY <2>14, AsideInv DEF SelectFault, ExecNull, ExecDiskMiss, LoadBroken
  <2> QED BY <1>1, <2>1, <2>2, <2>3, <2>4, <2>5, <2>6, <2>7, <2>8, <2>9, <2>10,
             <2>11, <2>12, <2>13, <2>14 DEF CpuThread
<1>2. CASE RenderThread
  BY <1>2, SubmitInv, SubmitAppendInv, AsideInv DEF RenderThread, SubmitBroken, DrawFault
<1>3. CASE DiskThread
  BY <1>3, AsideInv, FinishWriteInv DEF DiskThread, FinishFault, UnblockFault
<1>4. CASE UNCHANGED vars
  <2>1. UNCHANGED <<stack, curr, last, last_pid, cpc, ci, cj, csel, quantum, load, cpu_s,
                    rpc, rnew, submitted, dpc, dptr, io, value, waiters, sems, mutex, sys>>
    BY <1>4 DEF vars, pcbVars, cpuVars, rndVars, dskVars, semVars
  <2>2. TableInv' /\ PidsAscend' /\ LastBoundsLive'
    BY <2>1, TypedTable, QuietSame, KeepStep DEF Quiet
  <2>3. TypeOK' /\ LockInv' /\ PlaceInv' /\ CreateInv' /\ RunInv'
    BY <2>1 DEF IInv, TypeOK, LockInv, PlaceInv, CreateInv, RunInv, Occupied
  <2> QED BY <2>2, <2>3 DEF IInv
<1> QED BY <1>1, <1>2, <1>3, <1>4 DEF Next

\* The kernel's inductive invariant, in every reachable state.
THEOREM InvariantHolds == Spec => []IInv
<1>1. Init => IInv
  BY KernelConstants, InitInv
<1>2. IInv /\ [Next]_vars => IInv'
  BY KernelConstants, NextInv
<1> QED BY <1>1, <1>2, PTL DEF Spec

\* The variables keep the types of the code's fields: no pointer and no index
\* leaves the table.
THEOREM TypeCorrect == Spec => []TypeOK
<1>1. IInv => TypeOK
  BY DEF IInv
<1> QED BY <1>1, InvariantHolds, PTL

\* At most one process is RUNNING, whatever the three threads interleave.
THEOREM AtMostOneRunning == Spec => []OneRunning
<1>1. IInv => OneRunning
  BY DEF IInv, RunInv, OneRunning
<1> QED BY <1>1, InvariantHolds, PTL

\* Compactions and creations keep the table in the order of the pids.
THEOREM TableOrdered == Spec => []PidsAscend
<1>1. IInv => PidsAscend
  BY DEF IInv
<1> QED BY <1>1, InvariantHolds, PTL

\* The u8 last never underflows and bounds the live processes.
THEOREM LastIsSound == Spec => []LastBoundsLive
<1>1. IInv => LastBoundsLive
  BY DEF IInv
<1> QED BY <1>1, InvariantHolds, PTL
-----------------------------------------------------------------------------
(* What the CPU thread selects and executes. *)

\* Outside a compaction a pid stands once in the table, and p_find finds it.
LEMMA FindLive ==
  ASSUME IInv, cpc # "shift", NEW k \in Slots, Occupied(k)
  PROVE  p_find(stack[k].pid) = k
<1>0. Slots \subseteq Nat /\ k \in Nat /\ Hole \notin Slots /\ MAX_PCB \in Nat
  BY KernelConstants DEF Slots, Hole, NULL, KernelConstants
<1>1. \A j \in Slots : stack[j].pid \in Nat
  BY TypedTable DEF Tables, Process
<1>2. \A j \in Slots : j < k => stack[j].pid # stack[k].pid
  <2> SUFFICES ASSUME NEW j \in Slots, j < k PROVE stack[j].pid # stack[k].pid
    OBVIOUS
  <2>1. CASE ~Occupied(j)
    BY <1>0, <2>1 DEF IInv, TableInv
  <2>2. CASE Occupied(j)
    BY <1>0, <1>1, <2>2 DEF IInv, PidsAscend
  <2> QED BY <2>1, <2>2
<1> DEFINE f == p_find(stack[k].pid)
<1>3. /\ f \in Slots /\ stack[f].pid = stack[k].pid
      /\ \A j \in Slots : j < f => stack[j].pid # stack[k].pid
  BY <1>0, PFind
<1> HIDE DEF f
<1>4. f \in Nat /\ ~(f < k) /\ ~(k < f)
  BY <1>0, <1>2, <1>3
<1> QED BY <1>0, <1>4 DEF f

\* The CPU executes the process that p_find finds for its pid.
LEMMA FindRunning ==
  ASSUME IInv, Executing
  PROVE  p_find(Running.pid) = csel /\ Hole = NULL /\ Hole # csel
<1>1. csel \in Slots /\ Occupied(csel) /\ cpc \in {"exec", "run"}
  BY KernelConstants, ExecFacts
<1>2. Hole = NULL /\ NULL \notin Slots
  BY <1>1, KernelConstants DEF Hole, NULL, Slots, KernelConstants
<1> QED BY <1>1, <1>2, FindLive DEF Running

\* A status change of one process and the advance of the selected one.
LEMMA MarkForward ==
  ASSUME IInv, Executing, NEW x, NEW st \in Statuses
  PROVE  /\ SameProcs(stack, Forward(Mark(stack, x, st)))
         /\ \A k \in Slots :
              /\ Forward(Mark(stack, x, st))[k].status = IF k = x THEN st ELSE stack[k].status
              /\ Forward(Mark(stack, x, st))[k].PC =
                   IF k = csel THEN NextPC(stack[k]) ELSE stack[k].PC
<1> DEFINE m == Mark(stack, x, st)
<1>1. /\ SameProcs(stack, m)
      /\ \A k \in Slots : /\ m[k].status = IF k = x THEN st ELSE stack[k].status
                          /\ m[k].PC = stack[k].PC
  BY TypedTable, MarkTable
<1> HIDE DEF m
<1>2. m \in Tables /\ csel \in Slots /\ m[csel].prog # NoProg
  BY <1>1, KernelConstants, ExecFacts DEF SameProcs
<1>3. /\ SameProcs(m, Forward(m))
      /\ \A k \in Slots : /\ Forward(m)[k].status = m[k].status
                          /\ Forward(m)[k].PC = IF k = csel THEN NextPC(m[k]) ELSE m[k].PC
  BY <1>2, KernelConstants, ForwardTable
<1> QED BY <1>1, <1>3 DEF SameProcs, NextPC, m

\* What is selected is not stopped: the scheduler tests it, and only the CPU
\* thread itself stops a process.
LEMMA SelectStep ==
  ASSUME IInv, SelectInv, [Next]_vars
  PROVE  SelectInv'
<1>1. stack \in Tables
  BY TypedTable
<1>2. CASE Select
  BY <1>2 DEF Select, At, pcbVars, SelectInv, Stops
<1>3. CASE Dispatch
  <2>1. CASE csel = NULL
    BY <1>3, <2>1 DEF Dispatch, SelectInv
  <2>2. CASE csel # NULL
    <3>1. csel \in Slots /\ csel' = csel /\ stack' = Mark(stack, csel, "RUNNING")
      BY <1>3, <2>2 DEF Dispatch, IInv, TypeOK
    <3>2. stack'[csel].status = "RUNNING"
      BY <1>1, <3>1, MarkTable DEF Statuses
    <3> QED BY <3>1, <3>2 DEF SelectInv, Stops
  <2> QED BY <2>1, <2>2
<1>4. CASE Kill
  <2>1. Executing
    BY <1>4 DEF Kill, At, Executing
  <2>2. csel \in Slots /\ csel' = csel /\ stack' = Mark(stack, csel, "KILL")
    BY <1>4, <2>1, KernelConstants, ExecFacts, FindRunning DEF Kill
  <2>3. stack'[csel].status = "KILL"
    BY <1>1, <2>2, MarkTable DEF Statuses
  <2> QED BY <2>2, <2>3 DEF SelectInv, Stops
<1>5. ASSUME cpc' = cpc, csel' = csel,
             csel \in Slots => stack'[csel].status \in (Statuses \ Stops) \cup {stack[csel].status}
      PROVE  SelectInv'
  <2>1. CASE csel \in Slots
    BY <1>5, <2>1 DEF SelectInv
  <2>2. CASE csel \notin Slots
    <3>1. ~(cpc' \in {"exec", "run"} \/ (cpc' = "select" /\ csel' # NULL))
      BY <1>5, <2>2 DEF IInv, TypeOK, PlaceInv
    <3> QED BY <3>1 DEF SelectInv
  <2> QED BY <2>1, <2>2
<1>6. CASE SubmitAppend
  <2>1. /\ stack' = [stack EXCEPT ![curr] = rnew] /\ cpc' = cpc /\ csel' = csel
        /\ rnew.status = "NEW"
    BY <1>6 DEF SubmitAppend, cpuVars, IInv, CreateInv
  <2>2. csel \in Slots => stack'[csel].status \in {"NEW", stack[csel].status}
    BY <1>1, <2>1 DEF Tables
  <2> QED BY <1>5, <2>1, <2>2 DEF Statuses, Stops
<1>7. CASE FinishWrite
  <2>1. cpc' = cpc /\ csel' = csel /\ stack' = Mark(stack, dptr, "READY")
    BY <1>7 DEF FinishWrite, cpuVars
  <2>2. csel \in Slots => stack'[csel].status \in {"READY", stack[csel].status}
    BY <1>1, <2>1, MarkTable DEF Statuses
  <2> QED BY <1>5, <2>1, <2>2 DEF Statuses, Stops
<1>8. CASE ReapDone
  BY <1>8 DEF ReapDone, SelectInv
<1>9. CASE \/ Fault \/ SubmitLog \/ \E prog \in UserPrograms : Submit(prog)
           \/ \E pid \in Pids : FinishFind(pid)
           \/ UNCHANGED vars
  <2>1. stack' = stack /\ cpc' = cpc /\ csel' = csel
    BY <1>9 DEF Fault, SubmitLog, Submit, FinishFind, p_unblock, vars, pcbVars, cpuVars
  <2> QED BY <1>5, <2>1
<1>10. CASE \/ Tick \/ NoRunning \/ ReapScan \/ Shift \/ ExecCompute \/ ExecOther
            \/ ExecP \/ ExecV \/ Hang \/ ExecDisk \/ Load
  <2>1. cpc' \notin {"exec", "run", "select"}
    BY <1>10 DEF Tick, NoRunning, ReapScan, Shift, ExecCompute, ExecOther, ExecP, ExecV,
                Hang, ExecDisk, Load, At
  <2> QED BY <2>1 DEF SelectInv
<1> QED BY <1>2, <1>3, <1>4, <1>6, <1>7, <1>8, <1>9, <1>10
        DEF Next, CpuThread, RenderThread, DiskThread, SelectFault, ExecNull, ExecDiskMiss,
            LoadBroken, SubmitBroken, DrawFault, FinishFault, UnblockFault

-----------------------------------------------------------------------------
(* Semaphores: values and rings. *)

\* A step after which nobody waits for a semaphore who did not before.
NoNewWait ==
  \A k \in Slots : Occupied(k)' /\ stack'[k].status = "WAITING" =>
    \E l \in Slots : /\ Occupied(l) /\ stack[l].status = "WAITING"
                     /\ stack[l].pid = stack'[k].pid

\* Only P makes a process wait.
LEMMA OnlyPWaits == ASSUME IInv, [Next]_vars, ~ExecP PROVE NoNewWait
<1>0. stack \in Tables
  BY TypedTable
<1>1. ASSUME SameProcs(stack, stack'),
             \A k \in Slots : stack'[k].status = "WAITING" => stack[k].status = "WAITING"
      PROVE  NoNewWait
  BY <1>1 DEF SameProcs, Occupied, NoNewWait
<1>2. CASE stack' = stack
  BY <1>0, <1>1, <1>2 DEF SameProcs
<1>3. CASE NoRunning \/ Dispatch \/ Kill \/ FinishWrite
  <2>1. stack' = stack \/ \E x : \E st \in Statuses \ {"WAITING"} : stack' = Mark(stack, x, st)
    BY <1>3 DEF NoRunning, Dispatch, Kill, FinishWrite, Statuses
  <2> QED BY <1>0, <1>1, <1>2, <2>1, MarkTable
<1>4. CASE Shift /\ cj < MAX_PCB
  <2>1. /\ stack' = [stack EXCEPT ![cj - 1] = stack[cj]] /\ cj \in Slots
    <3>1. cj \in 1 .. MAX_PCB
      BY <1>4 DEF Shift, At, IInv, PlaceInv
    <3>2. cj \in Slots
      BY <1>4, <3>1, KernelConstants DEF Slots, KernelConstants
    <3> QED BY <1>4, <3>2 DEF Shift
  <2>2. \A k \in Slots : stack'[k] = stack[k] \/ stack'[k] = stack[cj]
    BY <1>0, <2>1 DEF Tables
  <2> QED BY <2>1, <2>2 DEF NoNewWait, Occupied
<1>5. CASE Load \/ SubmitAppend
  <2>1. stack' = stack \/ \E q : q.status = "NEW" /\ stack' = [stack EXCEPT ![curr] = q]
    <3>1. CASE Load
      BY <3>1 DEF Load, pcbVars, NewProcess
    <3>2. CASE SubmitAppend
      BY <3>2 DEF SubmitAppend, IInv, CreateInv
    <3> QED BY <1>5, <3>1, <3>2
  <2>2. CASE stack' # stack
    <3>1. PICK q : q.status = "NEW" /\ stack' = [stack EXCEPT ![curr] = q]
      BY <2>1, <2>2
    <3>2. \A k \in Slots : stack'[k] = stack[k] \/ stack'[k] = q
      BY <1>0, <3>1 DEF Tables
    <3> QED BY <3>1, <3>2 DEF NoNewWait, Occupied
  <2> QED BY <1>2, <2>2
<1>6. CASE ExecCompute \/ ExecDisk
  BY <1>1, <1>6, KernelConstants, ComputeTable, BlockTable
<1>7. CASE ExecOther \/ ExecV
  <2>1. Executing
    BY <1>7 DEF ExecOther, ExecV, CanRun, At, Executing
  <2>2. stack' = Forward(stack) \/ \E x : stack' = Forward(Mark(stack, x, "READY"))
    BY <1>7 DEF ExecOther, ExecV
  <2>3. CASE stack' = Forward(stack)
    BY <1>1, <2>1, <2>3, KernelConstants, ExecFacts, ForwardTable
  <2>4. ASSUME NEW x, stack' = Forward(Mark(stack, x, "READY")) PROVE NoNewWait
    BY <1>1, <2>1, <2>4, MarkForward DEF Statuses
  <2> QED BY <2>2, <2>3, <2>4
<1>8. CASE \/ Tick \/ ReapScan \/ (Shift /\ ~(cj < MAX_PCB)) \/ ReapDone \/ Select
           \/ Hang \/ Fault \/ SubmitLog \/ \E prog \in UserPrograms : Submit(prog)
           \/ \E pid \in Pids : FinishFind(pid)
           \/ UNCHANGED vars
  <2>1. stack' = stack
    BY <1>8 DEF Tick, ReapScan, Shift, ReapDone, Select, Hang, Fault, SubmitLog, Submit,
                FinishFind, p_unblock, vars, pcbVars
  <2> QED BY <1>2, <2>1
<1> QED BY <1>3, <1>4, <1>5, <1>6, <1>7, <1>8
        DEF Next, CpuThread, RenderThread, DiskThread, SelectFault, ExecNull, ExecDiskMiss,
            LoadBroken, SubmitBroken, DrawFault, FinishFault, UnblockFault

\* Besides P and V only the header of a new program changes semaphores, and it
\* changes no ring.
LEMMA OnlyPVMove ==
  ASSUME IInv, [Next]_vars, ~ExecP, ~ExecV
  PROVE  /\ waiters' = waiters
         /\ UNCHANGED <<value, sems>> \/ \E prog \in Programs : InitSemaphores(prog)
<1>1. CASE Load
  <2>1. quantum \in Nat \ {0} /\ load \in Seq(Programs)
    BY <1>1, KernelConstants DEF Load, At, IInv, TypeOK, PlaceInv, KernelConstants
  <2>2. quantum <= Len(load) => load[quantum] \in Programs
    BY <2>1
  <2> QED BY <1>1, <2>2 DEF Load, semVars, InitSemaphores, init_semaphore
<1>2. ASSUME NEW prog \in UserPrograms, Submit(prog)
      PROVE  /\ waiters' = waiters
             /\ UNCHANGED <<value, sems>> \/ InitSemaphores(prog)
  BY <1>2 DEF Submit, semVars, InitSemaphores, init_semaphore
<1>3. CASE ~Load /\ ~\E prog \in UserPrograms : Submit(prog)
  BY <1>3 DEF Next, CpuThread, RenderThread, DiskThread, Tick, NoRunning, ReapScan, Shift,
              ReapDone, Select, SelectFault, Dispatch, Kill, ExecNull, ExecCompute, ExecOther,
              Hang, ExecDisk, ExecDiskMiss, LoadBroken, SubmitBroken, SubmitAppend, SubmitLog,
              DrawFault, FinishFind, FinishFault, UnblockFault, p_unblock, FinishWrite, Fault,
              vars, semVars
<1>4. UserPrograms \subseteq Programs
  BY KernelConstants DEF KernelConstants
<1> QED BY <1>1, <1>2, <1>3, <1>4

\* What P does to the ring and the table, if it makes the process wait.
LEMMA PWaits ==
  ASSUME IInv, ExecP
  PROVE  \E z \in sems :
           /\ \E c \in Fetch : c.op = "P" /\ c.sem = z
           /\ value' = [value EXCEPT ![z] = I8(value[z] - 1)]
           /\ IF MustWait(I8(value[z] - 1))
              THEN /\ waiters' = [waiters EXCEPT ![z] = waiter_push(@, stack[csel].pid)]
                   /\ stack' = Forward(Mark(stack, csel, "WAITING"))
              ELSE waiters' = waiters /\ stack' = Forward(stack)
<1>1. Executing
  BY DEF ExecP, CanRun, At, Executing
<1>2. p_find(Running.pid) = csel
  BY <1>1, FindRunning
<1> QED BY <1>2 DEF ExecP, Running

\* What V does.
LEMMA VWakes ==
  ASSUME IInv, ExecV
  PROVE  \E z \in sems :
           /\ \E c \in Fetch : c.op = "V" /\ c.sem = z
           /\ value' = [value EXCEPT ![z] = I8(@ + 1)]
           /\ IF waiters[z] # <<>>
              THEN /\ p_find(Head(waiters[z])) \in Slots
                   /\ stack[p_find(Head(waiters[z]))].pid = Head(waiters[z])
                   /\ waiters' = [waiters EXCEPT ![z] = Tail(@)]
                   /\ stack' = Forward(Mark(stack, p_find(Head(waiters[z])), "READY"))
              ELSE waiters' = waiters /\ stack' = Forward(stack)
<1>1. PICK z \in sems :
        /\ \E c \in Fetch : c.op = "V" /\ c.sem = z
        /\ value' = [value EXCEPT ![z] = I8(@ + 1)]
        /\ IF waiters[z] # <<>>
           THEN /\ p_find(Head(waiters[z])) # NULL
                /\ waiters' = [waiters EXCEPT ![z] = Tail(@)]
                /\ stack' = Forward(Mark(stack, p_find(Head(waiters[z])), "READY"))
           ELSE waiters' = waiters /\ stack' = Forward(stack)
  BY DEF ExecV
<1>2. \A pid : p_find(pid) # NULL => p_find(pid) \in Slots /\ stack[p_find(pid)].pid = pid
  <2> TAKE pid
  <2>1. MAX_PCB \in Nat
    BY KernelConstants DEF KernelConstants
  <2> QED BY <2>1, PFind DEF p_find
<1> QED BY <1>1, <1>2

\* Where the elements of a ring are after waiter_pop and waiter_push.
LEMMA TailCells ==
  ASSUME NEW w \in Seq(Nat), w # <<>>
  PROVE  /\ Head(w) = w[1] /\ Len(w) \in Nat \ {0} /\ Tail(w) \in Seq(Nat)
         /\ Len(Tail(w)) = Len(w) - 1
         /\ \A i \in 1 .. Len(Tail(w)) : i + 1 \in 1 .. Len(w) /\ Tail(w)[i] = w[i + 1]
         /\ \A i \in 1 .. Len(w) :
              i = 1 \/ (i - 1 \in 1 .. Len(Tail(w)) /\ Tail(w)[i - 1] = w[i])
OBVIOUS

LEMMA AppendCells ==
  ASSUME NEW w \in Seq(Nat), NEW pid \in Nat
  PROVE  /\ Append(w, pid) \in Seq(Nat) /\ Len(Append(w, pid)) = Len(w) + 1
         /\ Len(w) + 1 \in 1 .. Len(Append(w, pid)) /\ Append(w, pid)[Len(w) + 1] = pid
         /\ \A i \in 1 .. Len(w) :
              i \in 1 .. Len(Append(w, pid)) /\ Append(w, pid)[i] = w[i]
         /\ \A i \in 1 .. Len(Append(w, pid)) : i \in 1 .. Len(w) \/ i = Len(w) + 1
OBVIOUS

\* A process that waits is in a ring: nothing but V takes it out, and V lets it
\* go on.
LEMMA QueuedStep ==
  ASSUME IInv, WaitingIsQueued, [Next]_vars, ExecP => RingHasRoom
  PROVE  WaitingIsQueued'
<1>0. waiters \in [Sems -> Seq(Nat)] /\ sems \subseteq Sems
  BY DEF IInv, TypeOK
<1>1. CASE ~ExecP /\ ~ExecV
  BY <1>1, OnlyPWaits, OnlyPVMove DEF WaitingIsQueued, NoNewWait
<1>2. CASE ExecP
  <2>1. Executing /\ csel \in Slots /\ stack[csel].pid \in Nat
    BY <1>2, KernelConstants, ExecFacts DEF ExecP, CanRun, At, Executing
  <2>2. PICK z \in sems :
          IF MustWait(I8(value[z] - 1))
          THEN /\ waiters' = [waiters EXCEPT ![z] = waiter_push(@, stack[csel].pid)]
               /\ stack' = Forward(Mark(stack, csel, "WAITING"))
          ELSE waiters' = waiters /\ stack' = Forward(stack)
    BY <1>2, PWaits
  <2>3. CASE waiters' = waiters /\ stack' = Forward(stack)
    <3>1. SameProcs(stack, stack') /\ \A k \in Slots : stack'[k].status = stack[k].status
      BY <2>1, <2>3, KernelConstants, ExecFacts, ForwardTable
    <3> QED BY <2>3, <3>1 DEF WaitingIsQueued, SameProcs, Occupied
  <2>4. CASE /\ waiters' = [waiters EXCEPT ![z] = waiter_push(@, stack[csel].pid)]
             /\ stack' = Forward(Mark(stack, csel, "WAITING"))
    <3>1. /\ SameProcs(stack, stack')
          /\ \A k \in Slots : stack'[k].status = IF k = csel THEN "WAITING"
                                                 ELSE stack[k].status
      BY <2>1, <2>4, MarkForward DEF Statuses
    <3>2. /\ waiters'[z] = Append(waiters[z], stack[csel].pid)
          /\ \A s \in Sems : s # z => waiters'[s] = waiters[s]
      <4>1. WAITERS_NUM \in Nat /\ Len(waiters[z]) \in Nat /\ waiters[z] \in Seq(Nat)
        BY <1>0, KernelConstants DEF KernelConstants
      <4>2. waiter_push(waiters[z], stack[csel].pid) = Append(waiters[z], stack[csel].pid)
        BY <1>0, <1>2, <4>1 DEF RingHasRoom, waiter_push
      <4> QED BY <1>0, <2>4, <4>2
    <3>3. \A s \in Sems : \A i \in 1 .. Len(waiters[s]) :
            i \in 1 .. Len(waiters'[s]) /\ waiters'[s][i] = waiters[s][i]
      <4> TAKE s \in Sems
      <4>1. CASE s = z
        <5> DEFINE w == waiters[z]
                   pid == stack[csel].pid
        <5>1. w \in Seq(Nat) /\ pid \in Nat /\ waiters'[z] = Append(w, pid)
          BY <1>0, <2>1, <3>2
        <5> HIDE DEF w, pid
        <5>2. \A i \in 1 .. Len(w) : i \in 1 .. Len(Append(w, pid)) /\ Append(w, pid)[i] = w[i]
          BY <5>1, AppendCells
        <5> QED BY <4>1, <5>1, <5>2 DEF w
      <4>2. CASE s # z
        BY <3>2, <4>2
      <4> QED BY <4>1, <4>2
    <3>4. /\ Len(waiters[z]) + 1 \in 1 .. Len(waiters'[z])
          /\ waiters'[z][Len(waiters[z]) + 1] = stack[csel].pid
      BY <1>0, <2>1, <3>2, AppendCells
    <3> SUFFICES ASSUME NEW k \in Slots, Occupied(k)', stack'[k].status = "WAITING"
                 PROVE  \E s \in Sems : \E i \in 1 .. Len(waiters'[s]) :
                          waiters'[s][i] = stack'[k].pid
      BY DEF WaitingIsQueued
    <3>5. stack'[k].pid = stack[k].pid /\ Occupied(k)
      BY <3>1 DEF SameProcs, Occupied
    <3>6. CASE k = csel
      BY <1>0, <3>3, <3>4, <3>5, <3>6
    <3>7. CASE k # csel
      <4>1. stack[k].status = "WAITING"
        BY <3>1, <3>7
      <4>2. PICK s \in Sems : \E i \in 1 .. Len(waiters[s]) : waiters[s][i] = stack[k].pid
        BY <3>5, <4>1 DEF WaitingIsQueued
      <4> QED BY <3>3, <3>5, <4>2
    <3> QED BY <3>6, <3>7
  <2> QED BY <2>2, <2>3, <2>4
<1>3. CASE ExecV
  <2>1. Executing /\ cpc # "shift"
    BY <1>3 DEF ExecV, CanRun, At, Executing
  <2>2. PICK z \in sems :
          IF waiters[z] # <<>>
          THEN /\ p_find(Head(waiters[z])) \in Slots
               /\ stack[p_find(Head(waiters[z]))].pid = Head(waiters[z])
               /\ waiters' = [waiters EXCEPT ![z] = Tail(@)]
               /\ stack' = Forward(Mark(stack, p_find(Head(waiters[z])), "READY"))
          ELSE waiters' = waiters /\ stack' = Forward(stack)
    BY <1>3, VWakes
  <2>3. CASE waiters' = waiters /\ stack' = Forward(stack)
    <3>1. SameProcs(stack, stack') /\ \A k \in Slots : stack'[k].status = stack[k].status
      BY <2>1, <2>3, KernelConstants, ExecFacts, ForwardTable
    <3> QED BY <2>3, <3>1 DEF WaitingIsQueued, SameProcs, Occupied
  <2>4. CASE waiters[z] # <<>>
    <3> DEFINE j == p_find(Head(waiters[z]))
    <3>1. /\ SameProcs(stack, stack')
          /\ \A k \in Slots : stack'[k].status = IF k = j THEN "READY" ELSE stack[k].status
      BY <2>1, <2>2, <2>4, MarkForward DEF Statuses
    <3>2. /\ Head(waiters[z]) = waiters[z][1]
          /\ \A s \in Sems : \A i \in 1 .. Len(waiters[s]) :
               \/ s = z /\ i = 1
               \/ s = z /\ i - 1 \in 1 .. Len(waiters'[s]) /\ waiters'[s][i - 1] = waiters[s][i]
               \/ s # z /\ i \in 1 .. Len(waiters'[s]) /\ waiters'[s][i] = waiters[s][i]
      <4>1. /\ waiters'[z] = Tail(waiters[z]) /\ waiters[z] \in Seq(Nat)
            /\ \A s \in Sems : s # z => waiters'[s] = waiters[s]
        BY <1>0, <2>2, <2>4
      <4>2. /\ Head(waiters[z]) = waiters[z][1]
            /\ \A i \in 1 .. Len(waiters[z]) :
                 \/ i = 1
                 \/ i - 1 \in 1 .. Len(waiters'[z]) /\ waiters'[z][i - 1] = waiters[z][i]
        BY <2>4, <4>1, TailCells
      <4> QED BY <4>1, <4>2
    <3> SUFFICES ASSUME NEW k \in Slots, Occupied(k)', stack'[k].status = "WAITING"
                 PROVE  \E s \in Sems : \E i \in 1 .. Len(waiters'[s]) :
                          waiters'[s][i] = stack'[k].pid
      BY DEF WaitingIsQueued
    <3>3. /\ stack'[k].pid = stack[k].pid /\ Occupied(k) /\ k # j
          /\ stack[k].status = "WAITING"
      BY <3>1 DEF SameProcs, Occupied
    <3>4. PICK s \in Sems : \E i \in 1 .. Len(waiters[s]) : waiters[s][i] = stack[k].pid
      BY <3>3 DEF WaitingIsQueued
    <3>5. PICK i \in 1 .. Len(waiters[s]) : waiters[s][i] = stack[k].pid
      BY <3>4
    <3>6. ~(s = z /\ i = 1)
      <4>1. p_find(stack[k].pid) = k
        BY <2>1, <3>3, FindLive
      <4> QED BY <3>2, <3>3, <3>5, <4>1
    <3> QED BY <3>2, <3>3, <3>5, <3>6
  <2> QED BY <2>2, <2>3, <2>4
<1> QED BY <1>1, <1>2, <1>3

\* The value of a semaphore and the length of its ring agree.
LEMMA ValueStep ==
  ASSUME IInv, UnnamedInv, ValueCountsWaiters, [Next]_vars, ExecP \/ ExecV => RoomLeft
  PROVE  UnnamedInv' /\ ValueCountsWaiters'
<1>0. /\ waiters \in [Sems -> Seq(Nat)] /\ value \in [Sems -> Int] /\ sems \subseteq Sems
      /\ I8_MAX \in Nat \ {0} /\ WAITERS_NUM \in Nat \ {0}
  BY KernelConstants DEF IInv, TypeOK, KernelConstants
<1>1. CASE ~ExecP /\ ~ExecV
  <2>1. CASE UNCHANGED <<value, sems>>
    BY <1>1, <2>1, OnlyPVMove DEF UnnamedInv, ValueCountsWaiters
  <2>2. ASSUME NEW prog \in Programs, InitSemaphores(prog)
        PROVE  UnnamedInv' /\ ValueCountsWaiters'
    <3>1. /\ value' = [s \in Sems |-> IF s \in Declares[prog] \ sems THEN 1 ELSE value[s]]
          /\ sems' = sems \cup Declares[prog] /\ waiters' = waiters
      BY <2>2 DEF InitSemaphores, init_semaphore
    <3>2. UnnamedInv'
      BY <3>1 DEF UnnamedInv
    <3>3. ValueCountsWaiters'
      BY <1>0, <3>1 DEF UnnamedInv, ValueCountsWaiters
    <3> QED BY <3>2, <3>3
  <2> QED BY <1>1, <2>1, <2>2, OnlyPVMove
<1>2. CASE ExecP
  <2>1. stack[csel].pid \in Nat /\ sems' = sems
    <3>1. Executing
      BY <1>2 DEF ExecP, CanRun, At, Executing
    <3> QED BY <1>2, <3>1, KernelConstants, ExecFacts DEF ExecP
  <2>2. PICK z \in sems :
          /\ value' = [value EXCEPT ![z] = I8(value[z] - 1)]
          /\ IF MustWait(I8(value[z] - 1))
             THEN waiters' = [waiters EXCEPT ![z] = waiter_push(@, stack[csel].pid)]
             ELSE waiters' = waiters
    BY <1>2, PWaits
  <2>3. /\ value[z] \in Int /\ I8(value[z] - 1) = value[z] - 1
        /\ waiter_push(waiters[z], stack[csel].pid) = Append(waiters[z], stack[csel].pid)
    BY <1>0, <1>2 DEF RoomLeft, RingHasRoom, I8, waiter_push
  <2>4. /\ value'[z] = value[z] - 1
        /\ Len(waiters'[z]) = IF value[z] - 1 < 0 THEN Len(waiters[z]) + 1 ELSE Len(waiters[z])
        /\ \A s \in Sems : s # z => value'[s] = value[s] /\ waiters'[s] = waiters[s]
    BY <1>0, <2>1, <2>2, <2>3 DEF MustWait
  <2>5. Len(waiters[z]) = IF value[z] < 0 THEN -value[z] ELSE 0
    BY <1>0 DEF ValueCountsWaiters
  <2>6. Len(waiters'[z]) = IF value'[z] < 0 THEN -value'[z] ELSE 0
    BY <2>3, <2>4, <2>5
  <2>7. ValueCountsWaiters'
    BY <2>4, <2>6 DEF ValueCountsWaiters
  <2>8. UnnamedInv'
    BY <2>1, <2>4 DEF UnnamedInv
  <2> QED BY <2>7, <2>8
<1>3. CASE ExecV
  <2>1. sems' = sems
    BY <1>3 DEF ExecV
  <2>2. PICK z \in sems :
          /\ value' = [value EXCEPT ![z] = I8(value[z] + 1)]
          /\ IF waiters[z] # <<>>
             THEN waiters' = [waiters EXCEPT ![z] = Tail(@)]
             ELSE waiters' = waiters
    BY <1>3, VWakes
  <2>3. value[z] \in Int /\ I8(value[z] + 1) = value[z] + 1
    BY <1>0, <1>3 DEF RoomLeft, I8
  <2>4. /\ value'[z] = value[z] + 1
        /\ Len(waiters'[z]) = IF waiters[z] # <<>> THEN Len(waiters[z]) - 1 ELSE 0
        /\ Len(waiters[z]) = 0 <=> waiters[z] = <<>>
        /\ \A s \in Sems : s # z => value'[s] = value[s] /\ waiters'[s] = waiters[s]
    <3>1. /\ value'[z] = value[z] + 1
          /\ \A s \in Sems : s # z => value'[s] = value[s] /\ waiters'[s] = waiters[s]
          /\ waiters'[z] = IF waiters[z] # <<>> THEN Tail(waiters[z]) ELSE waiters[z]
          /\ waiters[z] \in Seq(Nat)
      BY <1>0, <2>2, <2>3
    <3> QED BY <3>1, TailCells
  <2>5. Len(waiters[z]) = IF value[z] < 0 THEN -value[z] ELSE 0
    BY <1>0 DEF ValueCountsWaiters
  <2>6. Len(waiters'[z]) = IF value'[z] < 0 THEN -value'[z] ELSE 0
    BY <2>3, <2>4, <2>5
  <2>7. ValueCountsWaiters'
    BY <2>4, <2>6 DEF ValueCountsWaiters
  <2>8. UnnamedInv'
    BY <2>1, <2>4 DEF UnnamedInv
  <2> QED BY <2>7, <2>8
<1> QED BY <1>1, <1>2, <1>3

-----------------------------------------------------------------------------
(* Where the processes are after a step: the same ones, one of which may have *)
(* moved on over an instruction that is no P or V.                            *)

Passes(p) ==
  p.PC < Len(Code[p.prog]) => LET c == Code[p.prog][p.PC + 1]
                              IN c.op \notin {"P", "V"} \/ c.sem \notin sems
Same(p, q) ==
  /\ q.pid = p.pid /\ q.prog = p.prog
  /\ q.status = "WAITING" <=> p.status = "WAITING"
  /\ q.PC = p.PC \/ (p.status # "WAITING" /\ q.PC = NextPC(p) /\ Passes(p))

\* Every process of the table but those of N is one of before, and no process
\* that waits is gone.
Followed(N) ==
  /\ \A k \in Live' \ N : \E l \in Live : Same(stack[l], stack'[k])
  /\ \A l \in Live : stack[l].status = "WAITING" =>
       \E k \in Live' \ N : Same(stack[l], stack'[k])
  /\ \A k \in Slots \ N : Occupied(k)' => \E l \in Slots : Occupied(l) /\ Same(stack[l], stack'[k])

\* An instruction inside the code is fetched as it stands there, up to its time.
LEMMA FetchOp ==
  ASSUME IInv, Executing, NEW c \in Fetch, Running.PC < Len(Code[Running.prog])
  PROVE  /\ c.op = Code[Running.prog][Running.PC + 1].op
         /\ c.sem = Code[Running.prog][Running.PC + 1].sem
<1>1. Running \in Process /\ Running.prog \in Programs /\ Code[Running.prog] \in Seq(Instr)
  BY KernelConstants, ExecFacts DEF Running, KernelConstants
<1>2. Running.PC + 1 \in 1 .. Len(Code[Running.prog])
  BY <1>1 DEF Process
<1>3. Code[Running.prog][Running.PC + 1] \in Instr
  BY <1>1, <1>2
<1>4. c = [Code[Running.prog][Running.PC + 1] EXCEPT !.t = Running.rem]
  BY DEF Fetch
<1> QED BY <1>3, <1>4 DEF Instr

\* What a step changes in place is followed, and nothing else is.
LEMMA InPlace ==
  ASSUME SameProcs(stack, stack'), Hole' = Hole, \A k \in Slots : Same(stack[k], stack'[k])
  PROVE  Followed({})
<1>1. \A k \in Slots : Occupied(k)' <=> Occupied(k)
  BY DEF SameProcs, Occupied
<1>2. Live' = Live /\ Live \subseteq Slots
  BY <1>1 DEF Live
<1> QED BY <1>1, <1>2 DEF Followed

\* A table that stays, and one status written that is not WAITING.
LEMMA MarkSame ==
  ASSUME IInv, NEW x, NEW st \in Statuses \ {"WAITING"},
         stack' = Mark(stack, x, st), x \in Slots => stack[x].status # "WAITING", Hole' = Hole
  PROVE  Followed({})
<1>1. /\ SameProcs(stack, stack')
      /\ \A k \in Slots : /\ stack'[k].status = IF k = x THEN st ELSE stack[k].status
                          /\ stack'[k].PC = stack[k].PC
  BY TypedTable, MarkTable
<1> QED BY <1>1, InPlace DEF Same, SameProcs

LEMMA StaySame ==
  ASSUME IInv, stack' = stack, Hole' = Hole
  PROVE  Followed({})
<1>1. SameProcs(stack, stack')
  BY TypedTable DEF SameProcs
<1> QED BY <1>1, InPlace DEF Same

\* Instructions that are no P or V.
LEMMA ExecSame ==
  ASSUME IInv, SelectInv, ExecCompute \/ ExecOther \/ ExecDisk
  PROVE  Followed({})
<1>1. Executing /\ cpc' # "shift" /\ cpc # "shift"
  BY DEF ExecCompute, ExecOther, ExecDisk, CanRun, At, Executing
<1>2. Hole' = Hole /\ csel \in Slots /\ stack[csel].status # "WAITING"
  BY <1>1, KernelConstants, ExecFacts DEF Hole, SelectInv, Stops
<1>3. PICK c \in Fetch : c.op \notin {"P", "V"} \/ c.sem \notin sems
  BY DEF ExecCompute, ExecOther, ExecDisk
<1>4. Passes(stack[csel])
  BY <1>1, <1>3, FetchOp DEF Passes, Running
<1>5. /\ SameProcs(stack, stack')
      /\ \A k \in Slots : k # csel => /\ stack'[k].status = stack[k].status
                                      /\ stack'[k].PC = stack[k].PC
      /\ stack'[csel].status # "WAITING"
      /\ stack'[csel].PC \in {stack[csel].PC, NextPC(stack[csel])}
  <2>1. CASE ExecCompute
    BY <1>2, <2>1, KernelConstants, ComputeTable
  <2>2. CASE ExecOther
    <3>1. /\ SameProcs(stack, stack')
          /\ \A k \in Slots : /\ stack'[k].status = stack[k].status
                              /\ stack'[k].PC = IF k = csel THEN NextPC(stack[k])
                                                ELSE stack[k].PC
      BY <1>1, <2>2, KernelConstants, ExecFacts, ForwardTable DEF ExecOther
    <3> QED BY <1>2, <3>1
  <2>3. CASE ExecDisk
    <3>1. /\ SameProcs(stack, stack')
          /\ \A k \in Slots :
               /\ stack'[k].status = IF k = csel THEN "BLOCKED" ELSE stack[k].status
               /\ stack'[k].PC = IF k = csel THEN NextPC(stack[k]) ELSE stack[k].PC
      BY <1>1, <2>3, KernelConstants, BlockTable, FindRunning
    <3> QED BY <1>2, <3>1
  <2> QED BY <2>1, <2>2, <2>3
<1>6. ASSUME NEW k \in Slots PROVE Same(stack[k], stack'[k])
  BY <1>2, <1>4, <1>5 DEF Same, SameProcs
<1> QED BY <1>2, <1>5, <1>6, InPlace

\* A compaction: the processes but the killed one keep their entries.
LEMMA ShiftSame ==
  ASSUME IInv, Shift \/ ReapScan
  PROVE  Followed({})
<1>0. \A p : Same(p, p)
  BY DEF Same
<1>1. CASE ReapScan /\ stack[ci].status # "KILL"
  BY <1>1, StaySame DEF ReapScan, At, pcbVars, Hole
<1>2. CASE ReapScan /\ stack[ci].status = "KILL"
  <2>1. /\ stack' = stack /\ cpc = "reap" /\ cpc' = "shift" /\ cj' = ci + 1 /\ ci < MAX_PCB
    BY <1>2 DEF ReapScan, At, pcbVars
  <2>2. ci \in Slots
    BY <2>1, KernelConstants DEF IInv, TypeOK, Slots, KernelConstants
  <2>3. NULL \notin Slots /\ Hole = NULL /\ Hole' = ci
    <3>1. NULL \notin Slots /\ ci \in Int
      BY <2>2, KernelConstants DEF NULL, Slots, KernelConstants
    <3> QED BY <2>1, <3>1 DEF Hole
  <2>4. Live' = Live \ {ci} /\ Live \subseteq Slots
    BY <2>1, <2>2, <2>3 DEF Live, Occupied
  <2>5. \A k \in Slots : Occupied(k)' <=> Occupied(k)
    BY <2>1 DEF Occupied
  <2> QED BY <1>0, <1>2, <2>1, <2>4, <2>5 DEF Followed
<1>3. CASE Shift /\ cj < MAX_PCB
  <2>1. /\ stack' = [stack EXCEPT ![cj - 1] = stack[cj]] /\ cj' = cj + 1
        /\ cpc = "shift" /\ cpc' = "shift"
    BY <1>3 DEF Shift, At
  <2>2. cj \in 1 .. MAX_PCB - 1
    <3>1. cj \in 1 .. MAX_PCB
      BY <2>1 DEF IInv, PlaceInv
    <3> QED BY <1>3, <3>1, KernelConstants DEF KernelConstants
  <2>3. /\ cj \in Slots /\ cj - 1 \in Slots /\ cj # cj - 1 /\ Hole = cj - 1 /\ Hole' = cj
    <3>1. Hole = cj - 1 /\ Hole' = cj
      BY <2>1, <2>2 DEF Hole
    <3> QED BY <2>2, <3>1, KernelConstants DEF Slots, KernelConstants
  <2>4. \A k \in Slots : stack'[k] = IF k = cj - 1 THEN stack[cj] ELSE stack[k]
    BY <2>1, <2>3, TypedTable DEF Tables
  <2>5. \A k \in Slots : Occupied(k)' <=> IF k = cj - 1 THEN Occupied(cj) ELSE Occupied(k)
    BY <2>4 DEF Occupied
  <2>6. \A k \in Live' : \E l \in Live : stack'[k] = stack[l]
    <3> TAKE k \in Live'
    <3>1. k \in Slots /\ k # cj /\ Occupied(k)'
      BY <2>3 DEF Live
    <3>2. CASE k = cj - 1
      BY <2>3, <2>4, <2>5, <3>1, <3>2 DEF Live
    <3>3. CASE k # cj - 1
      BY <2>3, <2>4, <2>5, <3>1, <3>3 DEF Live
    <3> QED BY <3>2, <3>3
  <2>7. \A l \in Live : \E k \in Live' : stack'[k] = stack[l]
    <3> TAKE l \in Live
    <3>1. l \in Slots /\ l # cj - 1 /\ Occupied(l)
      BY <2>3 DEF Live
    <3>2. CASE l = cj
      BY <2>3, <2>4, <2>5, <3>1, <3>2 DEF Live
    <3>3. CASE l # cj
      BY <2>3, <2>4, <2>5, <3>1, <3>3 DEF Live
    <3> QED BY <3>2, <3>3
  <2>8. \A k \in Slots : Occupied(k)' => \E l \in Slots : Occupied(l) /\ stack'[k] = stack[l]
    BY <2>3, <2>4, <2>5
  <2> QED BY <1>0, <2>6, <2>7, <2>8 DEF Followed
<1>4. CASE Shift /\ ~(cj < MAX_PCB)
  <2>1. stack' = stack /\ cpc = "shift" /\ cpc' = "reap"
    BY <1>4 DEF Shift, At
  <2>2. Hole = MAX_PCB - 1 /\ Hole' = NULL /\ NULL \notin Slots
    BY <1>4, <2>1, KernelConstants DEF IInv, TypeOK, PlaceInv, Hole, NULL, Slots, KernelConstants
  <2>3. MAX_PCB - 1 \in Slots /\ ~Occupied(MAX_PCB - 1)
    BY KernelConstants DEF IInv, TypeOK, CreateInv, TableInv, Slots, KernelConstants
  <2>4. Live' = Live /\ Live \subseteq Slots /\ \A k \in Slots : Occupied(k)' <=> Occupied(k)
    BY <2>1, <2>2, <2>3 DEF Live, Occupied
  <2> QED BY <1>0, <2>1, <2>4 DEF Followed
<1> QED BY <1>1, <1>2, <1>3, <1>4

\* A new process comes into slot curr, at its start.
Created(q) == /\ q.pid = curr /\ q.prog # NoProg /\ q.status = "NEW" /\ q.PC = 0
              /\ curr' = curr + 1 /\ stack'[curr] = q
LEMMA CreatedSame ==
  ASSUME IInv, NEW q, stack' = [stack EXCEPT ![curr] = q], curr \in Slots, Hole' = Hole
  PROVE  Followed({curr})
<1>1. \A k \in Slots : stack'[k] = IF k = curr THEN q ELSE stack[k]
  BY TypedTable DEF Tables
<1>2. ~Occupied(curr)
  BY DEF IInv, TypeOK, TableInv
<1>3. \A k \in Slots \ {curr} : stack'[k] = stack[k] /\ (Occupied(k)' <=> Occupied(k))
  BY <1>1 DEF Occupied
<1>4. Live' \ {curr} = Live /\ Live \subseteq Slots \ {curr}
  BY <1>2, <1>3 DEF Live
<1> QED BY <1>3, <1>4 DEF Followed, Same

\* Steps other than P and V follow the processes, or create one.
LEMMA OtherSteps ==
  ASSUME IInv, SelectInv, FinishWrite => NoStrayWake, [Next]_vars, ~ExecP, ~ExecV
  PROVE  \/ curr' = curr /\ Followed({})
         \/ /\ curr' = curr + 1 /\ Followed({curr})
            /\ stack'[curr].pid = curr /\ stack'[curr].PC = 0 /\ stack'[curr].status = "NEW"
            /\ \/ InitSemaphores(stack'[curr].prog)
               \/ rpc = "append" /\ stack'[curr].prog = rnew.prog /\ sems' = sems
<1>1. CASE NoRunning
  <2>1. cpc' # "shift" /\ cpc # "shift" /\ curr' = curr
    BY <1>1 DEF NoRunning, At
  <2>2. stack' = stack \/ (stack' = Mark(stack, ci, "READY") /\ stack[ci].status = "RUNNING")
    BY <1>1 DEF NoRunning
  <2> QED BY <2>1, <2>2, MarkSame, StaySame DEF Statuses, Hole
<1>2. CASE Dispatch
  <2>1. cpc' # "shift" /\ cpc = "select" /\ curr' = curr
    BY <1>2 DEF Dispatch, At
  <2>2. stack' = stack \/ (csel # NULL /\ stack' = Mark(stack, csel, "RUNNING"))
    BY <1>2 DEF Dispatch
  <2>3. csel # NULL => stack[csel].status # "WAITING"
    BY <2>1 DEF SelectInv, Stops
  <2> QED BY <2>1, <2>2, <2>3, MarkSame, StaySame DEF Statuses, Hole
<1>3. CASE Kill
  <2>1. Executing /\ cpc' = "run" /\ cpc = "exec" /\ curr' = curr
    BY <1>3 DEF Kill, At, Executing
  <2>2. stack' = Mark(stack, csel, "KILL")
    BY <1>3, <2>1, FindRunning DEF Kill
  <2>3. stack[csel].status # "WAITING"
    BY <2>1 DEF SelectInv, Stops
  <2> QED BY <2>1, <2>2, <2>3, MarkSame DEF Statuses, Hole
<1>4. CASE FinishWrite
  <2>1. cj' = cj /\ cpc' = cpc /\ stack' = Mark(stack, dptr, "READY") /\ curr' = curr
    BY <1>4 DEF FinishWrite, cpuVars
  <2>2. stack[dptr].status # "WAITING"
    BY <1>4 DEF FinishWrite, NoStrayWake
  <2> QED BY <2>1, <2>2, MarkSame DEF Statuses, Hole
<1>5. CASE ExecCompute \/ ExecOther \/ ExecDisk
  BY <1>5, ExecSame DEF ExecCompute, ExecOther, ExecDisk
<1>6. CASE Shift \/ ReapScan
  BY <1>6, ShiftSame DEF Shift, ReapScan, pcbVars
<1>7. CASE Load \/ SubmitAppend
  <2>1. Hole' = Hole
    BY <1>7 DEF Load, SubmitAppend, At, Hole, cpuVars
  <2>2. CASE stack' = stack /\ curr' = curr
    BY <2>1, <2>2, StaySame
  <2>3. ASSUME NEW q, stack' = [stack EXCEPT ![curr] = q], curr' = curr + 1, curr < MAX_PCB - 1,
               q.pid = curr, q.PC = 0, q.status = "NEW"
        PROVE  /\ curr' = curr + 1 /\ Followed({curr}) /\ stack'[curr] = q
               /\ stack'[curr].pid = curr /\ stack'[curr].PC = 0 /\ stack'[curr].status = "NEW"
    <3>1. curr \in Slots /\ stack'[curr] = q
      BY <2>3, TypedTable, KernelConstants DEF IInv, TypeOK, Slots, Tables, KernelConstants
    <3> QED BY <2>1, <2>3, <3>1, CreatedSame
  <2>4. CASE Load /\ ~(stack' = stack /\ curr' = curr)
    <3>1. /\ stack' = [stack EXCEPT ![curr] = NewProcess(load[quantum])] /\ curr' = curr + 1
          /\ ~TableFull /\ rpc # "append" /\ InitSemaphores(load[quantum])
      BY <2>4 DEF Load, pcbVars, IInv, LockInv
    <3>2. curr < MAX_PCB - 1 /\ last_pid = curr
      BY <3>1, KernelConstants DEF TableFull, IInv, TypeOK, CreateInv, KernelConstants
    <3>3. /\ NewProcess(load[quantum]).pid = last_pid /\ NewProcess(load[quantum]).PC = 0
          /\ NewProcess(load[quantum]).status = "NEW"
          /\ NewProcess(load[quantum]).prog = load[quantum]
      BY DEF NewProcess
    <3> QED BY <2>3, <3>1, <3>2, <3>3
  <2>5. CASE SubmitAppend
    BY <2>3, <2>5 DEF SubmitAppend, IInv, CreateInv, semVars
  <2> QED BY <1>7, <2>2, <2>4, <2>5
<1>8. CASE \/ Tick \/ ReapDone \/ Select \/ Hang
  <2>1. stack' = stack /\ curr' = curr /\ cpc' # "shift" /\ cpc # "shift"
    BY <1>8 DEF Tick, ReapDone, Select, Hang, pcbVars, At, CanRun
  <2> QED BY <2>1, StaySame DEF Hole
<1>9. CASE \/ Fault \/ SubmitLog \/ \E prog \in UserPrograms : Submit(prog)
           \/ \E pid \in Pids : FinishFind(pid)
           \/ UNCHANGED vars
  <2>1. stack' = stack /\ cj' = cj /\ cpc' = cpc /\ curr' = curr
    BY <1>9 DEF Fault, SubmitLog, Submit, FinishFind, p_unblock, vars, pcbVars, cpuVars
  <2> QED BY <2>1, StaySame DEF Hole
<1> QED BY <1>1, <1>2, <1>3, <1>4, <1>5, <1>6, <1>7, <1>8, <1>9
        DEF Next, CpuThread, RenderThread, DiskThread, SelectFault, ExecNull, ExecDiskMiss,
            LoadBroken, SubmitBroken, DrawFault, FinishFault, UnblockFault

-----------------------------------------------------------------------------
(* The rings hold processes that wait. *)

\* What P and V do to the rings, cell by cell.
PushedOn(z, pid) ==
  \A s \in Sems : \A i \in 1 .. Len(waiters'[s]) :
    \/ i \in 1 .. Len(waiters[s]) /\ waiters'[s][i] = waiters[s][i]
    \/ s = z /\ i = Len(waiters[z]) + 1 /\ waiters'[s][i] = pid
PoppedFrom(z) ==
  /\ waiters[z] # <<>> /\ Head(waiters[z]) = waiters[z][1] /\ 1 \in 1 .. Len(waiters[z])
  /\ \A i \in 1 .. Len(waiters'[z]) :
       i + 1 \in 1 .. Len(waiters[z]) /\ waiters'[z][i] = waiters[z][i + 1]
  /\ \A s \in Sems \ {z} : waiters'[s] = waiters[s]

LEMMA Pushed ==
  ASSUME waiters \in [Sems -> Seq(Nat)], NEW z \in Sems, NEW pid \in Nat,
         waiters' = [waiters EXCEPT ![z] = waiter_push(@, pid)]
  PROVE  PushedOn(z, pid)
<1> DEFINE w == waiters[z]
<1>1. w \in Seq(Nat) /\ waiters'[z] \in {w, Append(w, pid)}
  BY DEF waiter_push
<1>2. \A s \in Sems : s # z => waiters'[s] = waiters[s]
  OBVIOUS
<1>3. \A i \in 1 .. Len(waiters'[z]) :
        \/ i \in 1 .. Len(w) /\ waiters'[z][i] = w[i]
        \/ i = Len(w) + 1 /\ waiters'[z][i] = pid
  <2>1. CASE waiters'[z] = w
    BY <2>1
  <2>2. CASE waiters'[z] = Append(w, pid)
    <3> DEFINE v == Append(w, pid)
    <3>1. /\ \A i \in 1 .. Len(w) : v[i] = w[i]
          /\ v[Len(w) + 1] = pid
          /\ \A i \in 1 .. Len(v) : i \in 1 .. Len(w) \/ i = Len(w) + 1
      BY <1>1, AppendCells
    <3> HIDE DEF w, v
    <3> QED BY <2>2, <3>1 DEF v
  <2> QED BY <1>1, <2>1, <2>2
<1> QED BY <1>2, <1>3 DEF PushedOn

LEMMA Popped ==
  ASSUME waiters \in [Sems -> Seq(Nat)], NEW z \in Sems, waiters[z] # <<>>,
         waiters' = [waiters EXCEPT ![z] = Tail(@)]
  PROVE  PoppedFrom(z)
<1>1. waiters[z] \in Seq(Nat) /\ waiters'[z] = Tail(waiters[z])
  OBVIOUS
<1>2. \A s \in Sems \ {z} : waiters'[s] = waiters[s]
  OBVIOUS
<1>3. /\ Head(waiters[z]) = waiters[z][1] /\ Len(waiters[z]) \in Nat \ {0}
      /\ \A i \in 1 .. Len(waiters'[z]) :
           i + 1 \in 1 .. Len(waiters[z]) /\ waiters'[z][i] = waiters[z][i + 1]
  BY <1>1, TailCells
<1> QED BY <1>2, <1>3 DEF PoppedFrom

\* Live processes have different pids.
LEMMA LivePids ==
  ASSUME IInv, NEW k \in Live, NEW l \in Live, stack[k].pid = stack[l].pid
  PROVE  k = l
<1>1. k \in Slots \ {Hole} /\ l \in Slots \ {Hole} /\ Occupied(k) /\ Occupied(l)
  BY DEF Live
<1>2. k \in Int /\ l \in Int /\ stack[k].pid \in Nat
  BY <1>1, TypedTable, KernelConstants DEF Slots, Tables, Process, KernelConstants
<1>3. ~(k < l) /\ ~(l < k)
  BY <1>1, <1>2 DEF IInv, PidsAscend
<1> QED BY <1>2, <1>3

\* Outside a compaction every process is live.
LEMMA LiveExec ==
  ASSUME IInv, Executing
  PROVE  /\ csel \in Live /\ Live = {k \in Slots : Occupied(k)} /\ Hole = NULL /\ NULL \notin Slots
         /\ cpc # "shift"
<1>1. csel \in Slots /\ Occupied(csel) /\ cpc \in {"exec", "run"}
  BY KernelConstants, ExecFacts
<1>2. Hole = NULL /\ NULL \notin Slots
  BY <1>1, KernelConstants DEF Hole, NULL, Slots, KernelConstants
<1> QED BY <1>1, <1>2 DEF Live

\* The process that V takes from a ring waits there, and V finds its slot.
LEMMA PoppedWaits ==
  ASSUME IInv, RingsInv, Executing, NEW z \in Sems, waiters[z] # <<>>, waiters[z] \in Seq(Nat)
  PROVE  /\ p_find(Head(waiters[z])) \in Live
         /\ stack[p_find(Head(waiters[z]))].status = "WAITING"
         /\ stack[p_find(Head(waiters[z]))].pid = waiters[z][1]
<1>1. Head(waiters[z]) = waiters[z][1] /\ 1 \in 1 .. Len(waiters[z])
  BY TailCells
<1>2. PICK k \in Slots \ {Hole} :
        Occupied(k) /\ stack[k].status = "WAITING" /\ stack[k].pid = waiters[z][1]
  BY <1>1 DEF RingsInv
<1>3. p_find(waiters[z][1]) = k
  BY <1>2, LiveExec, FindLive
<1> QED BY <1>1, <1>2, <1>3 DEF Live

RingsWait ==
  \A s \in Sems : \A i \in 1 .. Len(waiters[s]) :
    \E k \in Live : stack[k].status = "WAITING" /\ stack[k].pid = waiters[s][i]
RingsDistinct ==
  \A s, t \in Sems : \A i \in 1 .. Len(waiters[s]), j \in 1 .. Len(waiters[t]) :
    waiters[s][i] = waiters[t][j] => s = t /\ i = j
LEMMA RingsParts == RingsInv <=> RingsWait /\ RingsDistinct
BY DEF RingsInv, RingsWait, RingsDistinct, Live

LEMMA RingsStep ==
  ASSUME IInv, SelectInv, RingsInv, FinishWrite => NoStrayWake, [Next]_vars
  PROVE  RingsInv'
<1>0. /\ waiters \in [Sems -> Seq(Nat)] /\ sems \subseteq Sems
      /\ RingsWait /\ RingsDistinct /\ (RingsWait' /\ RingsDistinct' => RingsInv')
  BY RingsParts DEF IInv, TypeOK, RingsInv, RingsWait, RingsDistinct, Live
<1>1. CASE ~ExecP /\ ~ExecV
  <2>1. waiters' = waiters
    BY <1>1, OnlyPVMove
  <2>2. PICK N : Followed(N)
    BY <1>1, OtherSteps
  <2>3. RingsWait'
    BY <1>0, <2>1, <2>2 DEF RingsWait, Followed, Same
  <2>4. RingsDistinct'
    BY <1>0, <2>1 DEF RingsDistinct
  <2> QED BY <1>0, <2>3, <2>4
<1>2. ASSUME Executing, Hole' = NULL, SameProcs(stack, stack') PROVE Live' = Live
  BY <1>2, LiveExec DEF Live, SameProcs, Occupied
<1>3. CASE ExecP
  <2>1. Executing /\ csel \in Slots /\ stack[csel].pid \in Nat /\ csel \in Live /\ Hole' = NULL
    <3>1. Executing /\ cpc' # "shift"
      BY <1>3 DEF ExecP, CanRun, At, Executing
    <3> QED BY <3>1, KernelConstants, ExecFacts, LiveExec DEF Hole, NULL
  <2>2. stack[csel].status # "WAITING"
    BY <2>1 DEF Executing, SelectInv, Stops
  <2>3. PICK z \in sems :
          IF MustWait(I8(value[z] - 1))
          THEN /\ waiters' = [waiters EXCEPT ![z] = waiter_push(@, stack[csel].pid)]
               /\ stack' = Forward(Mark(stack, csel, "WAITING"))
          ELSE waiters' = waiters /\ stack' = Forward(stack)
    BY <1>3, PWaits
  <2>4. CASE waiters' = waiters /\ stack' = Forward(stack)
    <3>1. SameProcs(stack, stack') /\ \A k \in Slots : stack'[k].status = stack[k].status
      BY <2>1, <2>4, KernelConstants, ExecFacts, ForwardTable
    <3>2. Live' = Live /\ Live \subseteq Slots
      BY <1>2, <2>1, <3>1 DEF Live
    <3> QED BY <1>0, <2>4, <3>1, <3>2 DEF RingsWait, RingsDistinct, SameProcs
  <2>5. CASE /\ waiters' = [waiters EXCEPT ![z] = waiter_push(@, stack[csel].pid)]
             /\ stack' = Forward(Mark(stack, csel, "WAITING"))
    <3>1. /\ SameProcs(stack, stack')
          /\ \A k \in Slots : stack'[k].status = IF k = csel THEN "WAITING"
                                                 ELSE stack[k].status
      BY <2>1, <2>5, MarkForward DEF Statuses
    <3>2. Live' = Live /\ Live \subseteq Slots
      BY <1>2, <2>1, <3>1 DEF Live
    <3>3. PushedOn(z, stack[csel].pid)
      BY <1>0, <2>1, <2>5, Pushed
    <3>4. \A s \in Sems : \A i \in 1 .. Len(waiters[s]) : waiters[s][i] # stack[csel].pid
      BY <1>0, <2>1, <2>2, LivePids DEF RingsWait
    <3>5. RingsWait'
      <4> SUFFICES ASSUME NEW s \in Sems, NEW i \in 1 .. Len(waiters'[s])
                   PROVE  \E k \in Live' : /\ stack'[k].status = "WAITING"
                                            /\ stack'[k].pid = waiters'[s][i]
        BY DEF RingsWait
      <4>1. CASE i \in 1 .. Len(waiters[s]) /\ waiters'[s][i] = waiters[s][i]
        <5>1. PICK k \in Live : stack[k].status = "WAITING" /\ stack[k].pid = waiters[s][i]
          BY <1>0, <4>1 DEF RingsWait
        <5> QED BY <3>1, <3>2, <4>1, <5>1 DEF SameProcs
      <4>2. CASE waiters'[s][i] = stack[csel].pid
        BY <2>1, <3>1, <3>2, <4>2 DEF SameProcs
      <4> QED BY <3>3, <4>1, <4>2 DEF PushedOn
    <3>6. RingsDistinct'
      <4> SUFFICES ASSUME NEW s \in Sems, NEW t \in Sems, NEW i \in 1 .. Len(waiters'[s]),
                          NEW h \in 1 .. Len(waiters'[t]), waiters'[s][i] = waiters'[t][h]
                   PROVE  s = t /\ i = h
        BY DEF RingsDistinct
      <4>1. \/ i \in 1 .. Len(waiters[s]) /\ waiters'[s][i] = waiters[s][i]
            \/ s = z /\ i = Len(waiters[z]) + 1 /\ waiters'[s][i] = stack[csel].pid
        BY <3>3 DEF PushedOn
      <4>2. \/ h \in 1 .. Len(waiters[t]) /\ waiters'[t][h] = waiters[t][h]
            \/ t = z /\ h = Len(waiters[z]) + 1 /\ waiters'[t][h] = stack[csel].pid
        BY <3>3 DEF PushedOn
      <4>3. CASE i \in 1 .. Len(waiters[s]) /\ h \in 1 .. Len(waiters[t])
                 /\ waiters[s][i] = waiters[t][h]
        BY <1>0, <4>3 DEF RingsDistinct
      <4> QED BY <3>4, <4>1, <4>2, <4>3
    <3> QED BY <1>0, <3>5, <3>6
  <2> QED BY <2>3, <2>4, <2>5
<1>4. CASE ExecV
  <2>1. Executing /\ Hole' = NULL /\ csel \in Slots
    <3>1. Executing /\ cpc' # "shift"
      BY <1>4 DEF ExecV, CanRun, At, Executing
    <3> QED BY <3>1, KernelConstants, ExecFacts DEF Hole, NULL
  <2>2. PICK z \in sems :
          IF waiters[z] # <<>>
          THEN /\ waiters' = [waiters EXCEPT ![z] = Tail(@)]
               /\ stack' = Forward(Mark(stack, p_find(Head(waiters[z])), "READY"))
          ELSE waiters' = waiters /\ stack' = Forward(stack)
    BY <1>4, VWakes
  <2>3. CASE waiters' = waiters /\ stack' = Forward(stack)
    <3>1. SameProcs(stack, stack') /\ \A k \in Slots : stack'[k].status = stack[k].status
      BY <2>1, <2>3, KernelConstants, ExecFacts, ForwardTable
    <3>2. Live' = Live /\ Live \subseteq Slots
      BY <1>2, <2>1, <3>1 DEF Live
    <3> QED BY <1>0, <2>3, <3>1, <3>2 DEF RingsWait, RingsDistinct, SameProcs
  <2>4. CASE waiters[z] # <<>>
    <3> DEFINE j == p_find(Head(waiters[z]))
    <3>1. /\ SameProcs(stack, stack')
          /\ \A k \in Slots : stack'[k].status = IF k = j THEN "READY" ELSE stack[k].status
      BY <2>1, <2>2, <2>4, MarkForward DEF Statuses
    <3>2. Live' = Live /\ Live \subseteq Slots
      BY <1>2, <2>1, <3>1 DEF Live
    <3>3. PoppedFrom(z)
      BY <1>0, <2>2, <2>4, Popped
    <3>4. stack[j].pid = waiters[z][1]
      BY <1>0, <2>1, <2>4, PoppedWaits
    <3> HIDE DEF j
    <3>5. ASSUME NEW s \in Sems, NEW i \in 1 .. Len(waiters'[s])
          PROVE  \E h \in 1 .. Len(waiters[s]) :
                   /\ waiters'[s][i] = waiters[s][h] /\ waiters[s][h] # waiters[z][1]
                   /\ h = IF s = z THEN i + 1 ELSE i
      <4> DEFINE h == IF s = z THEN i + 1 ELSE i
      <4>1. h \in 1 .. Len(waiters[s]) /\ waiters'[s][i] = waiters[s][h]
        BY <3>3 DEF PoppedFrom
      <4>2. 1 \in 1 .. Len(waiters[z])
        BY <1>0, <2>4
      <4>3. s = z => h # 1
        OBVIOUS
      <4> HIDE DEF h
      <4>4. waiters[s][h] # waiters[z][1]
        BY <1>0, <4>1, <4>2, <4>3 DEF RingsDistinct
      <4> QED BY <4>1, <4>4 DEF h
    <3>6. RingsWait'
      <4> SUFFICES ASSUME NEW s \in Sems, NEW i \in 1 .. Len(waiters'[s])
                   PROVE  \E k \in Live' : /\ stack'[k].status = "WAITING"
                                            /\ stack'[k].pid = waiters'[s][i]
        BY DEF RingsWait
      <4>1. PICK h \in 1 .. Len(waiters[s]) :
              waiters'[s][i] = waiters[s][h] /\ waiters[s][h] # waiters[z][1]
        BY <3>5
      <4>2. PICK k \in Live : stack[k].status = "WAITING" /\ stack[k].pid = waiters[s][h]
        BY <1>0 DEF RingsWait
      <4> QED BY <3>1, <3>2, <3>4, <4>1, <4>2 DEF SameProcs
    <3>7. RingsDistinct'
      <4> SUFFICES ASSUME NEW s \in Sems, NEW t \in Sems, NEW i \in 1 .. Len(waiters'[s]),
                          NEW h \in 1 .. Len(waiters'[t]), waiters'[s][i] = waiters'[t][h]
                   PROVE  s = t /\ i = h
        BY DEF RingsDistinct
      <4>1. PICK a \in 1 .. Len(waiters[s]) :
              waiters'[s][i] = waiters[s][a] /\ a = IF s = z THEN i + 1 ELSE i
        BY <3>5
      <4>2. PICK b \in 1 .. Len(waiters[t]) :
              waiters'[t][h] = waiters[t][b] /\ b = IF t = z THEN h + 1 ELSE h
        BY <3>5
      <4>3. waiters[s][a] = waiters[t][b]
        BY <4>1, <4>2
      <4>4. s = t /\ a = b
        BY <1>0, <4>3 DEF RingsDistinct
      <4> QED BY <4>1, <4>2, <4>4
    <3> QED BY <1>0, <3>6, <3>7
  <2> QED BY <2>2, <2>3, <2>4
<1> QED BY <1>1, <1>3, <1>4

-----------------------------------------------------------------------------
(* Counting a program's P and V. *)

\* What Done counts, and how an instruction changes it.
LEMMA DoneNext ==
  ASSUME NEW prog \in Programs, NEW pc \in Nat, NEW op, NEW s
  PROVE  /\ Done(prog, pc, op, s) \in Nat /\ Done(prog, 0, op, s) = 0
         /\ pc >= Len(Code[prog]) => Done(prog, pc + 1, op, s) = Done(prog, pc, op, s)
         /\ pc < Len(Code[prog]) =>
              Done(prog, pc + 1, op, s) =
                IF Code[prog][pc + 1].op = op /\ Code[prog][pc + 1].sem = s
                THEN Done(prog, pc, op, s) + 1 ELSE Done(prog, pc, op, s)
<1> DEFINE At1(n) == {i \in 1 .. Len(Code[prog]) :
                        i <= n /\ Code[prog][i].op = op /\ Code[prog][i].sem = s}
<1>1. Len(Code[prog]) \in Nat
  BY KernelConstants DEF KernelConstants
<1>2. /\ Done(prog, pc, op, s) = Cardinality(At1(pc))
      /\ Done(prog, pc + 1, op, s) = Cardinality(At1(pc + 1))
      /\ Done(prog, 0, op, s) = Cardinality(At1(0))
  BY DEF Done
<1>3. IsFiniteSet(At1(pc)) /\ Cardinality(At1(pc)) \in Nat
  <2>1. IsFiniteSet(1 .. Len(Code[prog])) /\ At1(pc) \subseteq 1 .. Len(Code[prog])
    BY <1>1, FS_Interval
  <2> HIDE DEF At1
  <2> QED BY <2>1, FS_Subset, FS_CardinalityType
<1>4. At1(0) = {}
  OBVIOUS
<1>5. pc >= Len(Code[prog]) => At1(pc + 1) = At1(pc)
  BY <1>1
<1>6. pc < Len(Code[prog]) =>
        /\ pc + 1 \notin At1(pc)
        /\ At1(pc + 1) = IF Code[prog][pc + 1].op = op /\ Code[prog][pc + 1].sem = s
                         THEN At1(pc) \cup {pc + 1} ELSE At1(pc)
  BY <1>1
<1>7. pc + 1 \notin At1(pc) => Cardinality(At1(pc) \cup {pc + 1}) = Cardinality(At1(pc)) + 1
  <2> HIDE DEF At1
  <2> QED BY <1>3, FS_AddElement
<1>8. Cardinality(At1(0)) = 0
  BY <1>4, FS_EmptySet
<1> HIDE DEF At1
<1> QED BY <1>2, <1>3, <1>5, <1>6, <1>7, <1>8

\* The types of a process of the table.
LEMMA TableFacts ==
  ASSUME IInv, NEW k \in Slots, Occupied(k)
  PROVE  /\ stack[k] \in Process /\ stack[k].prog \in Programs /\ stack[k].PC \in Nat
         /\ stack[k].pid \in Nat /\ stack[k].pid < curr
         /\ Len(Code[stack[k].prog]) \in Nat
<1>1. stack[k] \in Process /\ stack[k].prog # NoProg
  BY TypedTable DEF Tables, Occupied
<1>2. stack[k].prog \in Programs /\ stack[k].PC \in Nat /\ stack[k].pid \in Nat
  BY <1>1 DEF Process
<1>3. Code[stack[k].prog] \in Seq(Instr)
  BY <1>2, KernelConstants DEF KernelConstants
<1> QED BY <1>1, <1>2, <1>3 DEF IInv, TableInv

\* A process that uses only semaphores that exist goes in and out of none when
\* it passes an instruction that is no P or V.
LEMMA SameInside ==
  ASSUME WellFormed, NEW p, NEW q, p.prog \in Programs, p.PC \in Nat,
         Declares[p.prog] \subseteq sems, Same(p, q)
  PROVE  \A s \in Sems : Inside(q, s) <=> Inside(p, s)
<1>1. q.prog = p.prog /\ Len(Code[p.prog]) \in Nat
  BY KernelConstants DEF Same, KernelConstants
<1>2. CASE q.PC = p.PC
  BY <1>1, <1>2 DEF Inside
<1>4. \A op, s : p.PC >= Len(Code[p.prog]) =>
                   Done(p.prog, p.PC + 1, op, s) = Done(p.prog, p.PC, op, s)
  BY DoneNext
<1>5. \A op, s : p.PC < Len(Code[p.prog]) =>
        Done(p.prog, p.PC + 1, op, s) =
          IF Code[p.prog][p.PC + 1].op = op /\ Code[p.prog][p.PC + 1].sem = s
          THEN Done(p.prog, p.PC, op, s) + 1 ELSE Done(p.prog, p.PC, op, s)
  <2> DEFINE prog == p.prog
             pc == p.PC
  <2>1. prog \in Programs /\ pc \in Nat
    OBVIOUS
  <2> HIDE DEF prog, pc
  <2>2. \A op, s : pc < Len(Code[prog]) =>
          Done(prog, pc + 1, op, s) =
            IF Code[prog][pc + 1].op = op /\ Code[prog][pc + 1].sem = s
            THEN Done(prog, pc, op, s) + 1 ELSE Done(prog, pc, op, s)
    BY <2>1, DoneNext
  <2> QED BY <2>2 DEF prog, pc
<1>3. CASE q.PC = p.PC + 1 /\ Passes(p)
  <2> TAKE s \in Sems
  <2>1. CASE p.PC < Len(Code[p.prog])
    <3>1. p.PC + 1 \in 1 .. Len(Code[p.prog])
      BY <1>1, <2>1
    <3>2. Code[p.prog][p.PC + 1].op # "P" /\ Code[p.prog][p.PC + 1].op # "V"
      BY <1>3, <2>1, <3>1 DEF Passes, WellFormed, Alternates
    <3>3. Done(p.prog, p.PC + 1, "P", s) = Done(p.prog, p.PC, "P", s)
      <4>1. Done(p.prog, p.PC + 1, "P", s) =
              IF Code[p.prog][p.PC + 1].op = "P" /\ Code[p.prog][p.PC + 1].sem = s
              THEN Done(p.prog, p.PC, "P", s) + 1 ELSE Done(p.prog, p.PC, "P", s)
        BY <1>4, <1>5, <2>1
      <4> QED BY <3>2, <4>1
    <3>4. Done(p.prog, p.PC + 1, "V", s) = Done(p.prog, p.PC, "V", s)
      <4>1. Done(p.prog, p.PC + 1, "V", s) =
              IF Code[p.prog][p.PC + 1].op = "V" /\ Code[p.prog][p.PC + 1].sem = s
              THEN Done(p.prog, p.PC, "V", s) + 1 ELSE Done(p.prog, p.PC, "V", s)
        BY <1>4, <1>5, <2>1
      <4> QED BY <3>2, <4>1
    <3> QED BY <1>1, <1>3, <3>3, <3>4 DEF Inside
  <2>2. CASE p.PC >= Len(Code[p.prog])
    <3>1. Done(p.prog, p.PC + 1, "P", s) = Done(p.prog, p.PC, "P", s)
      BY <1>4, <2>2
    <3>2. Done(p.prog, p.PC + 1, "V", s) = Done(p.prog, p.PC, "V", s)
      BY <1>4, <2>2
    <3> QED BY <1>1, <1>3, <3>1, <3>2 DEF Inside
  <2> QED BY <1>1, <2>1, <2>2
<1> QED BY <1>2, <1>3 DEF Same, NextPC

\* Nothing strays while nothing moves.
LEMMA StillOwn == UNCHANGED vars => ~Stray
BY DEF Stray, ExecP, ExecV, ExecDisk, CanRun, At, vars, cpuVars

\* A P or V of the program's own code.
LEMMA OwnCode ==
  ASSUME IInv, Executing, ~Stray, ExecP \/ ExecV
  PROVE  Running.PC < Len(Code[Running.prog])
<1>1. ~(Running.PC >= Len(Code[Running.prog]))
  BY DEF Stray
<1>2. Running.prog \in Programs /\ Running.PC \in Nat /\ Len(Code[Running.prog]) \in Nat
  BY KernelConstants, ExecFacts, TableFacts DEF Running
<1> QED BY <1>1, <1>2

\* What it does to the place of the running process.
LEMMA PlaceAfter ==
  ASSUME IInv, NamedInv, WellFormed, Executing, NEW c \in Fetch, c.op \in {"P", "V"},
         NEW q, q.prog = Running.prog, q.PC = NextPC(Running),
         Running.PC < Len(Code[Running.prog])
  PROVE  /\ q.PC = Running.PC + 1
         /\ q.PC <= Len(Code[Running.prog]) /\ Code[q.prog][q.PC].sem = c.sem
         /\ \A s \in Sems : s # c.sem => (Inside(q, s) <=> Inside(Running, s))
         /\ c.sem \in Sems /\ c.op = "P" => Inside(q, c.sem) /\ ~Inside(Running, c.sem)
         /\ c.sem \in Sems /\ c.op = "V" => ~Inside(q, c.sem) /\ Inside(Running, c.sem)
<1> DEFINE prog == Running.prog
           pc == Running.PC
<1>1. prog \in Programs /\ pc \in Nat /\ Len(Code[prog]) \in Nat
  BY KernelConstants, ExecFacts, TableFacts DEF Running
<1>2. pc < Len(Code[prog])
  OBVIOUS
<1>3. c.op = Code[prog][pc + 1].op /\ c.sem = Code[prog][pc + 1].sem
  BY <1>2, FetchOp
<1>4. q.PC = pc + 1
  BY <1>1, <1>2 DEF NextPC
<1>5. \A s \in Sems : \A n \in 0 .. Len(Code[prog]) :
        Done(prog, n, "P", s) - Done(prog, n, "V", s) \in {0, 1}
  BY <1>1 DEF WellFormed, Alternates
<1>6. \A s \in Sems :
        /\ Done(prog, pc, "P", s) - Done(prog, pc, "V", s) \in {0, 1}
        /\ Done(prog, pc + 1, "P", s) - Done(prog, pc + 1, "V", s) \in {0, 1}
        /\ Done(prog, pc, "P", s) \in Nat /\ Done(prog, pc, "V", s) \in Nat
        /\ Done(prog, pc + 1, "P", s) = IF c.op = "P" /\ c.sem = s
                                        THEN Done(prog, pc, "P", s) + 1
                                        ELSE Done(prog, pc, "P", s)
        /\ Done(prog, pc + 1, "V", s) = IF c.op = "V" /\ c.sem = s
                                        THEN Done(prog, pc, "V", s) + 1
                                        ELSE Done(prog, pc, "V", s)
  <2> TAKE s \in Sems
  <2>1. pc \in 0 .. Len(Code[prog]) /\ pc + 1 \in 0 .. Len(Code[prog])
    BY <1>1, <1>2
  <2>2. /\ Done(prog, pc, "P", s) \in Nat
        /\ Done(prog, pc + 1, "P", s) = IF c.op = "P" /\ c.sem = s
                                        THEN Done(prog, pc, "P", s) + 1
                                        ELSE Done(prog, pc, "P", s)
    <3> HIDE DEF prog, pc
    <3>1. Done(prog, pc + 1, "P", s) =
            IF Code[prog][pc + 1].op = "P" /\ Code[prog][pc + 1].sem = s
            THEN Done(prog, pc, "P", s) + 1 ELSE Done(prog, pc, "P", s)
      BY <1>1, <1>2, DoneNext
    <3>2. Done(prog, pc, "P", s) \in Nat
      BY <1>1, DoneNext
    <3> QED BY <1>3, <3>1, <3>2
  <2>3. /\ Done(prog, pc, "V", s) \in Nat
        /\ Done(prog, pc + 1, "V", s) = IF c.op = "V" /\ c.sem = s
                                        THEN Done(prog, pc, "V", s) + 1
                                        ELSE Done(prog, pc, "V", s)
    <3> HIDE DEF prog, pc
    <3>1. Done(prog, pc + 1, "V", s) =
            IF Code[prog][pc + 1].op = "V" /\ Code[prog][pc + 1].sem = s
            THEN Done(prog, pc, "V", s) + 1 ELSE Done(prog, pc, "V", s)
      BY <1>1, <1>2, DoneNext
    <3>2. Done(prog, pc, "V", s) \in Nat
      BY <1>1, DoneNext
    <3> QED BY <1>3, <3>1, <3>2
  <2> HIDE DEF prog, pc
  <2> QED BY <1>5, <2>1, <2>2, <2>3
<1>7. \A s \in Sems : /\ Inside(q, s) <=> Done(prog, pc + 1, "P", s) > Done(prog, pc + 1, "V", s)
                      /\ Inside(Running, s) <=> Done(prog, pc, "P", s) > Done(prog, pc, "V", s)
  BY <1>4 DEF Inside
<1>8. q.PC <= Len(Code[prog]) /\ Code[q.prog][q.PC].sem = c.sem
  BY <1>1, <1>2, <1>3, <1>4
<1>9. \A s \in Sems : s # c.sem => (Inside(q, s) <=> Inside(Running, s))
  BY <1>6, <1>7
<1>10. c.sem \in Sems /\ c.op = "P" => Inside(q, c.sem) /\ ~Inside(Running, c.sem)
  BY <1>6, <1>7
<1>11. c.sem \in Sems /\ c.op = "V" => ~Inside(q, c.sem) /\ Inside(Running, c.sem)
  BY <1>6, <1>7
<1> QED BY <1>2, <1>4, <1>8, <1>9, <1>10, <1>11

-----------------------------------------------------------------------------
(* Who is between P and V. *)

\* Followed processes are not more than before.
LEMMA CountFollowed ==
  ASSUME IInv', IInv, NEW A \in SUBSET Live', NEW B \in SUBSET Live,
         \A k \in A : \E l \in B : stack[l].pid = stack'[k].pid
  PROVE  /\ IsFiniteSet(A) /\ IsFiniteSet(B) /\ Cardinality(A) <= Cardinality(B)
         /\ Cardinality(A) \in Nat /\ Cardinality(B) \in Nat
<1>1. IsFiniteSet(B)
  BY KernelConstants, LiveFinite, FS_Subset
<1> DEFINE f == [k \in A |-> CHOOSE l \in B : stack[l].pid = stack'[k].pid]
<1>2. \A k \in A : f[k] \in B /\ stack[f[k]].pid = stack'[k].pid
  OBVIOUS
<1>3. f \in [A -> B]
  BY <1>2
<1>4. \A x, y \in A : f[x] = f[y] => x = y
  <2> SUFFICES ASSUME NEW x \in A, NEW y \in A, f[x] = f[y] PROVE x = y
    OBVIOUS
  <2>1. stack'[x].pid = stack'[y].pid
    BY <1>2
  <2>2. /\ x \in Slots \ {Hole'} /\ y \in Slots \ {Hole'} /\ Occupied(x)' /\ Occupied(y)'
    BY DEF Live
  <2>3. stack'[x].pid \in Nat /\ x \in Int /\ y \in Int
    <3>1. stack' \in Tables
      BY DEF IInv, TypeOK, Tables
    <3>2. stack'[x].pid \in Nat
      BY <2>2, <3>1 DEF Tables, Process
    <3>3. x \in Int /\ y \in Int
      BY <2>2, KernelConstants DEF Slots
    <3> QED BY <3>2, <3>3
<2>4. ~(x < y) /\ ~(y < x)
    BY <2>1, <2>2, <2>3 DEF IInv, PidsAscend
  <2> QED BY <2>3, <2>4
<1> HIDE DEF f
<1>5. IsFiniteSet(A) /\ Cardinality(A) <= Cardinality(B)
  BY <1>1, <1>3, <1>4, NotMore
<1> QED BY <1>1, <1>5, FS_CardinalityType

\* Only a header brings new semaphores.
LEMMA SemsGrow ==
  ASSUME IInv, [Next]_vars, ~ExecP, ~ExecV
  PROVE  /\ sems \subseteq sems' /\ \A s \in sems : value'[s] = value[s]
         /\ \A s \in sems' \ sems : value'[s] = 1
<1>1. value \in [Sems -> Int] /\ sems \subseteq Sems
  BY DEF IInv, TypeOK
<1>2. \A prog \in Programs : Declares[prog] \subseteq Sems
  BY KernelConstants DEF KernelConstants
<1> QED BY <1>1, <1>2, OnlyPVMove DEF InitSemaphores, init_semaphore

\* Processes that use semaphores that exist.
LEMMA NamedStep ==
  ASSUME IInv, SelectInv, NamedInv, FinishWrite => NoStrayWake, [Next]_vars, ~ExecP, ~ExecV
  PROVE  NamedInv'
<1>1. \A k \in Slots : Occupied(k)' => Declares[stack'[k].prog] \subseteq sems'
  <2>1. CASE Followed({})
    BY <2>1, SemsGrow DEF NamedInv, Followed, Same
  <2>2. CASE /\ Followed({curr})
             /\ \/ InitSemaphores(stack'[curr].prog)
                \/ rpc = "append" /\ stack'[curr].prog = rnew.prog /\ sems' = sems
    <3>1. Declares[stack'[curr].prog] \subseteq sems'
      BY <2>2 DEF NamedInv, InitSemaphores, init_semaphore
    <3> QED BY <2>2, <3>1, SemsGrow DEF NamedInv, Followed, Same
  <2> QED BY <2>1, <2>2, OtherSteps
<1>2. rpc' = "append" => Declares[rnew'.prog] \subseteq sems'
  <2>1. ASSUME NEW prog \in UserPrograms, Submit(prog), ~TableFull
        PROVE  Declares[rnew'.prog] \subseteq sems'
    BY <2>1 DEF Submit, NewProcess, InitSemaphores, init_semaphore
  <2>2. CASE rpc' = "append" /\ ~\E prog \in UserPrograms : Submit(prog) /\ ~TableFull
    <3>1. rpc = "append" /\ rnew' = rnew
      BY <2>2 DEF Next, CpuThread, RenderThread, DiskThread, Tick, NoRunning, ReapScan, Shift,
         ReapDone, Select, SelectFault, Dispatch, Kill, ExecNull, ExecCompute, ExecOther,
         ExecP, ExecV, Hang, ExecDisk, ExecDiskMiss, Load, LoadBroken, Submit, SubmitBroken,
         SubmitAppend, SubmitLog, DrawFault, FinishFind, FinishFault, UnblockFault, p_unblock,
         FinishWrite, Fault, vars, rndVars
    <3> QED BY <3>1, SemsGrow DEF NamedInv
  <2> QED BY <2>1, <2>2
<1> QED BY <1>1, <1>2 DEF NamedInv

\* Processes that a step follows are inside where they were.
LEMMA FollowedInside ==
  ASSUME IInv, WellFormed, NamedInv, NEW l \in Slots, Occupied(l), NEW q, Same(stack[l], q)
  PROVE  \A s \in Sems : Inside(q, s) <=> Inside(stack[l], s)
BY TableFacts, SameInside DEF NamedInv

\* A process is outside at its start.
LEMMA StartOutside ==
  ASSUME NEW p, p.prog \in Programs, p.PC = 0
  PROVE  \A s : ~Inside(p, s)
<1>1. \A s : Done(p.prog, 0, "P", s) = 0 /\ Done(p.prog, 0, "V", s) = 0
  BY DoneNext
<1> QED BY <1>1 DEF Inside

LEMMA AtOther ==
  ASSUME IInv, SelectInv, NamedInv, RingsInv, AtInv, FinishWrite => NoStrayWake,
         [Next]_vars, ~ExecP, ~ExecV
  PROVE  AtInv'
<1>1. waiters' = waiters /\ RingsWait
  BY OnlyPVMove, RingsParts
<1>2. PICK N : Followed(N) /\ (N = {} \/ (N = {curr} /\ stack'[curr].pid = curr))
  <2>1. CASE Followed({})
    BY <2>1
  <2>2. CASE Followed({curr}) /\ stack'[curr].pid = curr
    BY <2>2
  <2> QED BY <2>1, <2>2, OtherSteps
<1> SUFFICES ASSUME NEW s \in Sems, NEW i \in 1 .. Len(waiters[s]), NEW k \in Live',
                    stack'[k].pid = waiters[s][i]
             PROVE  WaitsAt(stack'[k], s)
  BY <1>1 DEF AtInv
<1>3. PICK h \in Live : stack[h].pid = waiters[s][i]
  BY <1>1 DEF RingsWait
<1>4. stack[h].pid # curr
  BY <1>3, TableFacts DEF Live
<1>5. PICK l \in Live : Same(stack[l], stack'[k])
  BY <1>2, <1>3, <1>4 DEF Followed
<1>6. WaitsAt(stack[l], s)
  BY <1>5 DEF AtInv, Same
<1> QED BY <1>5, <1>6 DEF Same, WaitsAt

LEMMA HoldsOther ==
  ASSUME IInv, WellFormed, SelectInv, NamedInv, HoldsInv, FinishWrite => NoStrayWake, [Next]_vars,
         ~ExecP, ~ExecV, IInv'
  PROVE  HoldsInv'
<1>2. PICK N : Followed(N) /\ (N = {} \/ (N = {curr} /\ stack'[curr].PC = 0))
  <2>1. CASE Followed({})
    BY <2>1
  <2>2. CASE Followed({curr}) /\ stack'[curr].PC = 0
    BY <2>2
  <2> QED BY <2>1, <2>2, OtherSteps
<1>3. ASSUME NEW s \in Sems, NEW k \in Slots, Holds(k, s)'
      PROVE  \E l \in Slots : Holds(l, s) /\ stack[l].pid = stack'[k].pid
  <2>1. Occupied(k)' /\ Inside(stack'[k], s) /\ stack'[k].PC <= Len(Code[stack'[k].prog])
    BY <1>3 DEF Holds, Inside
  <2>2. stack'[k].prog \in Programs /\ stack'[k].PC \in Nat
    BY <2>1 DEF Occupied, IInv, TypeOK, Process
  <2>3. k \notin N
    BY <1>2, <2>1, <2>2, StartOutside
  <2>4. PICK l \in Slots : Occupied(l) /\ Same(stack[l], stack'[k])
    BY <1>2, <2>1, <2>3 DEF Followed
  <2>5. Inside(stack[l], s)
    BY <2>1, <2>4, FollowedInside
  <2>6. stack[l].PC <= Len(Code[stack[l].prog])
    BY <2>1, <2>2, <2>4, TableFacts DEF Same, NextPC
  <2>7. ~(stack[l].status = "WAITING" /\ Code[stack[l].prog][stack[l].PC].sem = s)
    BY <1>3, <2>4 DEF Holds, Same
  <2> QED BY <2>4, <2>5, <2>6, <2>7 DEF Holds, Inside, Same
<1> QED BY <1>3 DEF HoldsInv

\* A program is never inside a semaphore that its header does not name.
LEMMA UnnamedOutside ==
  ASSUME WellFormed, NEW p, p.prog \in Programs, NEW s, s \notin Declares[p.prog]
  PROVE  ~Inside(p, s)
<1>1. {i \in 1 .. Len(Code[p.prog]) :
         i <= p.PC /\ Code[p.prog][i].op = "P" /\ Code[p.prog][i].sem = s} = {}
  BY DEF WellFormed, Alternates
<1>2. {i \in 1 .. Len(Code[p.prog]) :
         i <= p.PC /\ Code[p.prog][i].op = "V" /\ Code[p.prog][i].sem = s} = {}
  BY DEF WellFormed, Alternates
<1>3. Done(p.prog, p.PC, "P", s) = 0 /\ Done(p.prog, p.PC, "V", s) = 0
  BY <1>1, <1>2, FS_EmptySet DEF Done
<1> QED BY <1>3 DEF Inside

LEMMA CountOther ==
  ASSUME IInv, WellFormed, SelectInv, NamedInv, CountInv, FinishWrite => NoStrayWake, [Next]_vars,
         ~ExecP, ~ExecV, IInv'
  PROVE  CountInv'
<1>1. PICK N : /\ Followed(N)
               /\ \/ N = {} /\ curr' = curr
                  \/ N = {curr} /\ curr' = curr + 1 /\ stack'[curr].PC = 0
  <2>1. CASE Followed({}) /\ curr' = curr
    BY <2>1
  <2>2. CASE Followed({curr}) /\ curr' = curr + 1 /\ stack'[curr].PC = 0
    BY <2>2
  <2> QED BY <2>1, <2>2, OtherSteps
<1>2. curr \in Nat /\ value \in [Sems -> Int] /\ sems \subseteq Sems /\ sems' \subseteq Sems
  BY DEF IInv, TypeOK
<1>3. \A k \in Live' : stack'[k].prog \in Programs
  BY DEF Live, Occupied, IInv, TypeOK, Process
<1>4. \A s \in Sems : \A k \in Live' \cap N : ~Inside(stack'[k], s)
  BY <1>1, <1>3, StartOutside
<1>5. \A s \in Sems : \A k \in Live' \ N :
        \E l \in Live : /\ stack[l].pid = stack'[k].pid
                        /\ Inside(stack'[k], s) <=> Inside(stack[l], s)
  <2> TAKE s \in Sems
  <2> TAKE k \in Live' \ N
  <2>1. PICK l \in Live : Same(stack[l], stack'[k])
    BY <1>1 DEF Followed
  <2> QED BY <2>1, FollowedInside DEF Live, Same
<1>6. ASSUME NEW s \in sems
      PROVE  /\ value'[s] + Cardinality(InsideOf(s)') <= 1
             /\ Cardinality(OutsideOf(s)') < curr' + value'[s]
  <2>1. value'[s] = value[s] /\ value[s] \in Int /\ s \in Sems
    BY <1>2, SemsGrow
  <2>2. InsideOf(s) \in SUBSET Live /\ OutsideOf(s) \in SUBSET Live
    BY DEF InsideOf, OutsideOf
  <2>3. /\ InsideOf(s)' \in SUBSET Live'
        /\ \A k \in InsideOf(s)' : \E l \in InsideOf(s) : stack[l].pid = stack'[k].pid
    BY <1>4, <1>5, <2>1 DEF InsideOf
  <2>4. /\ OutsideOf(s)' \ N \in SUBSET Live'
        /\ \A k \in OutsideOf(s)' \ N : \E l \in OutsideOf(s) : stack[l].pid = stack'[k].pid
    BY <1>5, <2>1 DEF OutsideOf
  <2>5. /\ Cardinality(InsideOf(s)') <= Cardinality(InsideOf(s))
        /\ Cardinality(InsideOf(s)') \in Nat /\ Cardinality(InsideOf(s)) \in Nat
    BY <2>2, <2>3, CountFollowed
  <2> DEFINE A == OutsideOf(s)' \ N
  <2>6. /\ IsFiniteSet(A) /\ Cardinality(A) <= Cardinality(OutsideOf(s))
        /\ Cardinality(A) \in Nat /\ Cardinality(OutsideOf(s)) \in Nat
    BY <2>2, <2>4, CountFollowed
  <2>7. /\ Cardinality(OutsideOf(s)') \in Nat
        /\ Cardinality(OutsideOf(s)') <= Cardinality(A) + (curr' - curr)
    <3>1. CASE N = {} /\ curr' = curr
      <4>1. A = OutsideOf(s)'
        BY <3>1
      <4> HIDE DEF A
      <4> QED BY <1>2, <2>6, <3>1, <4>1
    <3>2. CASE N = {curr} /\ curr' = curr + 1
      <4>1. OutsideOf(s)' \subseteq A \cup {curr}
        BY <3>2
      <4> HIDE DEF A
      <4>2. IsFiniteSet(A \cup {curr}) /\ Cardinality(A \cup {curr}) <= Cardinality(A) + 1
        BY <2>6, AddOne
      <4>3. /\ IsFiniteSet(OutsideOf(s)')
            /\ Cardinality(OutsideOf(s)') <= Cardinality(A \cup {curr})
        BY <4>1, <4>2, FS_Subset
      <4>4. Cardinality(OutsideOf(s)') \in Nat /\ Cardinality(A \cup {curr}) \in Nat
        BY <4>2, <4>3, FS_CardinalityType
      <4> QED BY <1>2, <2>6, <3>2, <4>2, <4>3, <4>4
    <3> QED BY <1>1, <3>1, <3>2
  <2>8. curr' \in Nat
    BY <1>1, <1>2
  <2>9. value[s] + Cardinality(InsideOf(s)) <= 1 /\ Cardinality(OutsideOf(s)) < curr + value[s]
    BY DEF CountInv
  <2> HIDE DEF A
  <2> QED BY <1>2, <2>1, <2>5, <2>6, <2>7, <2>8, <2>9
<1>7. ASSUME NEW s \in sems' \ sems
      PROVE  /\ value'[s] + Cardinality(InsideOf(s)') <= 1
             /\ Cardinality(OutsideOf(s)') < curr' + value'[s]
  <2>1. value'[s] = 1 /\ s \in Sems
    BY <1>2, SemsGrow
  <2>2. \A l \in Live : ~Inside(stack[l], s)
    BY UnnamedOutside, TableFacts DEF Live, NamedInv
  <2>3. InsideOf(s)' = {}
    BY <1>4, <1>5, <2>1, <2>2 DEF InsideOf
  <2>4. Cardinality(InsideOf(s)') = 0
    BY <2>3, FS_EmptySet
  <2>5. /\ IsFiniteSet(Live') /\ Cardinality(Live') <= curr'
        /\ curr' \in Nat /\ Cardinality(Live') \in Nat
    <3>1. IsFiniteSet(Live')
      <4>1. IsFiniteSet(Slots) /\ Live' \subseteq Slots
        BY KernelConstants, FS_Interval DEF Slots, KernelConstants, Live
      <4> QED BY <4>1, FS_Subset
    <3>2. Cardinality(Live') \in Nat
      BY <3>1, FS_CardinalityType
    <3>3. curr' \in Nat /\ last' \in Nat /\ last' <= curr'
      BY DEF IInv, TypeOK, LastBoundsLive
    <3>4. Cardinality(Live') <= last' \/ Cardinality(Live') <= last' - 1
      BY DEF IInv, LastBoundsLive
    <3> QED BY <3>1, <3>2, <3>3, <3>4
  <2>6. OutsideOf(s)' \subseteq Live'
    BY DEF OutsideOf
  <2>7. /\ IsFiniteSet(OutsideOf(s)') /\ Cardinality(OutsideOf(s)') <= Cardinality(Live')
        /\ Cardinality(OutsideOf(s)') \in Nat
    BY <2>5, <2>6, FS_Subset, FS_CardinalityType
  <2> QED BY <2>1, <2>4, <2>5, <2>7
<1> QED BY <1>6, <1>7 DEF CountInv

\* Going in and out, and who is there afterwards.
LEMMA CountMoved ==
  ASSUME IInv, CountInv, csel \in Live, Live' = Live, NEW z \in sems, curr' = curr, sems' = sems,
         \A k \in Live \ {csel} : \A s \in Sems : Inside(stack'[k], s) <=> Inside(stack[k], s),
         \A s \in Sems \ {z} : Inside(stack'[csel], s) <=> Inside(stack[csel], s),
         \A s \in Sems \ {z} : value'[s] = value[s],
         \/ ~Inside(stack[csel], z) /\ Inside(stack'[csel], z) /\ value'[z] = value[z] - 1
         \/ Inside(stack[csel], z) /\ ~Inside(stack'[csel], z) /\ value'[z] = value[z] + 1
  PROVE  CountInv'
<1>0. sems \subseteq Sems /\ z \in Sems /\ value \in [Sems -> Int] /\ curr \in Nat
  BY DEF IInv, TypeOK
<1>1. \A s \in Sems \ {z} : InsideOf(s)' = InsideOf(s) /\ OutsideOf(s)' = OutsideOf(s)
  BY DEF InsideOf, OutsideOf
<1>2. \A s \in Sems : /\ IsFiniteSet(InsideOf(s)) /\ IsFiniteSet(OutsideOf(s))
                      /\ Cardinality(InsideOf(s)) \in Nat /\ Cardinality(OutsideOf(s)) \in Nat
  <2> TAKE s \in Sems
  <2>1. InsideOf(s) \subseteq Live /\ OutsideOf(s) \subseteq Live
    BY DEF InsideOf, OutsideOf
  <2> QED BY <2>1, KernelConstants, LiveFinite, FS_Subset, FS_CardinalityType
<1>3. value[z] + Cardinality(InsideOf(z)) <= 1 /\ Cardinality(OutsideOf(z)) < curr + value[z]
  BY DEF CountInv
<1>4. /\ value'[z] + Cardinality(InsideOf(z)') <= 1
      /\ Cardinality(OutsideOf(z)') < curr + value'[z]
  <2>1. CASE ~Inside(stack[csel], z) /\ Inside(stack'[csel], z) /\ value'[z] = value[z] - 1
    <3>1. /\ InsideOf(z)' = InsideOf(z) \cup {csel} /\ csel \notin InsideOf(z)
          /\ OutsideOf(z)' = OutsideOf(z) \ {csel} /\ csel \in OutsideOf(z)
      BY <1>0, <2>1 DEF InsideOf, OutsideOf
    <3>2. Cardinality(InsideOf(z)') = Cardinality(InsideOf(z)) + 1
      BY <1>0, <1>2, <3>1, FS_AddElement
    <3>3. Cardinality(OutsideOf(z)') = Cardinality(OutsideOf(z)) - 1
      BY <1>0, <1>2, <3>1, FS_RemoveElement
    <3> QED BY <1>0, <1>2, <1>3, <2>1, <3>2, <3>3
  <2>2. CASE Inside(stack[csel], z) /\ ~Inside(stack'[csel], z) /\ value'[z] = value[z] + 1
    <3>1. /\ OutsideOf(z)' = OutsideOf(z) \cup {csel} /\ csel \notin OutsideOf(z)
          /\ InsideOf(z)' = InsideOf(z) \ {csel} /\ csel \in InsideOf(z)
      BY <1>0, <2>2 DEF InsideOf, OutsideOf
    <3>2. Cardinality(OutsideOf(z)') = Cardinality(OutsideOf(z)) + 1
      BY <1>0, <1>2, <3>1, FS_AddElement
    <3>3. Cardinality(InsideOf(z)') = Cardinality(InsideOf(z)) - 1
      BY <1>0, <1>2, <3>1, FS_RemoveElement
    <3> QED BY <1>0, <1>2, <1>3, <2>2, <3>2, <3>3
  <2> QED BY <2>1, <2>2
<1> QED BY <1>0, <1>1, <1>4 DEF CountInv

\* With the value above -curr and at most 1 the i8 does not wrap.
LEMMA NoWrap ==
  ASSUME IInv, CountInv, MAX_PCB <= I8_MAX + 3, NEW z \in sems, csel \in Live
  PROVE  /\ value[z] \in Int
         /\ ~Inside(stack[csel], z) => I8(value[z] - 1) = value[z] - 1
         /\ Inside(stack[csel], z) => I8(value[z] + 1) = value[z] + 1
         /\ value[z] >= 1 => InsideOf(z) = {}
<1>0. /\ value[z] \in Int /\ curr \in Nat /\ curr <= MAX_PCB - 1 /\ MAX_PCB \in Nat
      /\ I8_MAX \in Nat \ {0}
  BY KernelConstants DEF IInv, TypeOK, CreateInv, KernelConstants
<1>1. value[z] + Cardinality(InsideOf(z)) <= 1 /\ Cardinality(OutsideOf(z)) < curr + value[z]
  BY DEF CountInv
<1>2. /\ IsFiniteSet(InsideOf(z)) /\ IsFiniteSet(OutsideOf(z))
      /\ Cardinality(InsideOf(z)) \in Nat /\ Cardinality(OutsideOf(z)) \in Nat
  <2>1. InsideOf(z) \subseteq Live /\ OutsideOf(z) \subseteq Live
    BY DEF InsideOf, OutsideOf
  <2> QED BY <2>1, KernelConstants, LiveFinite, FS_Subset, FS_CardinalityType
<1>3. csel \in OutsideOf(z) => Cardinality(OutsideOf(z)) >= 1
  <2>1. Cardinality(OutsideOf(z)) = 0 => OutsideOf(z) = {}
    BY <1>2, FS_EmptySet
  <2> QED BY <1>2, <2>1
<1>4. csel \in InsideOf(z) => Cardinality(InsideOf(z)) >= 1
  <2>1. Cardinality(InsideOf(z)) = 0 => InsideOf(z) = {}
    BY <1>2, FS_EmptySet
  <2> QED BY <1>2, <2>1
<1>5. ~Inside(stack[csel], z) => I8(value[z] - 1) = value[z] - 1
  <2> HAVE ~Inside(stack[csel], z)
  <2>1. Cardinality(OutsideOf(z)) >= 1
    BY <1>3 DEF OutsideOf
  <2> QED BY <1>0, <1>1, <1>2, <2>1 DEF I8
<1>6. Inside(stack[csel], z) => I8(value[z] + 1) = value[z] + 1
  <2> HAVE Inside(stack[csel], z)
  <2>1. Cardinality(InsideOf(z)) >= 1
    BY <1>4 DEF InsideOf
  <2> QED BY <1>0, <1>1, <1>2, <2>1 DEF I8
<1>7. value[z] >= 1 => InsideOf(z) = {}
  <2>1. value[z] >= 1 => Cardinality(InsideOf(z)) = 0
    BY <1>0, <1>1, <1>2
  <2> QED BY <1>2, <2>1, FS_EmptySet
<1> QED BY <1>0, <1>5, <1>6, <1>7

LEMMA PInside ==
  ASSUME IInv, IInv', WellFormed, SelectInv, RingsInv, InsideInv, ExecP, ~Stray,
         MAX_PCB <= I8_MAX + 3
  PROVE  InsideInv'
<1>0. CountInv /\ NamedInv /\ AtInv /\ HoldsInv
  BY DEF InsideInv
<1>1. /\ Executing /\ csel \in Live /\ csel \in Slots /\ Live = {k \in Slots : Occupied(k)}
      /\ UNCHANGED <<curr, csel, sems, rpc, rnew>> /\ Hole' = NULL
      /\ sems \subseteq Sems /\ stack[csel].pid \in Nat /\ NULL \notin Slots
      /\ waiters \in [Sems -> Seq(Nat)] /\ value \in [Sems -> Int]
  <2>1. Executing /\ cpc' # "shift"
    BY DEF ExecP, CanRun, At, Executing
  <2> QED BY <2>1, KernelConstants, ExecFacts, LiveExec DEF ExecP, Hole, rndVars, IInv, TypeOK
<1>2. stack[csel].status # "WAITING"
  BY <1>1 DEF Executing, SelectInv, Stops
<1>3. PICK z \in sems :
        /\ \E c \in Fetch : c.op = "P" /\ c.sem = z
        /\ value' = [value EXCEPT ![z] = I8(value[z] - 1)]
        /\ IF MustWait(I8(value[z] - 1))
           THEN /\ waiters' = [waiters EXCEPT ![z] = waiter_push(@, stack[csel].pid)]
                /\ stack' = Forward(Mark(stack, csel, "WAITING"))
           ELSE waiters' = waiters /\ stack' = Forward(stack)
  BY PWaits
<1> DEFINE wait == MustWait(I8(value[z] - 1))
           p == stack[csel]
           q == stack'[csel]
<1>4. /\ SameProcs(stack, stack')
      /\ \A k \in Slots : /\ stack'[k].status =
                               IF k = csel /\ wait THEN "WAITING" ELSE stack[k].status
                          /\ stack'[k].PC = IF k = csel THEN NextPC(stack[k]) ELSE stack[k].PC
  <2>1. CASE wait
    BY <1>1, <1>3, <2>1, MarkForward DEF Statuses
  <2>2. CASE ~wait
    <3>1. stack' = Forward(stack)
      BY <1>3, <2>2
    <3> HIDE DEF wait
    <3> QED BY <1>1, <2>2, <3>1, KernelConstants, ExecFacts, ForwardTable
  <2> QED BY <2>1, <2>2
<1>5. \A k \in Slots : Occupied(k)' <=> Occupied(k)
  BY <1>4 DEF SameProcs, Occupied
<1>6. Live' = Live
  BY <1>1, <1>5 DEF Live
<1>7. /\ p.PC < Len(Code[p.prog]) /\ q.PC = p.PC + 1 /\ q.PC <= Len(Code[p.prog])
      /\ q.prog = p.prog /\ Code[q.prog][q.PC].sem = z
      /\ \A s \in Sems : s # z => (Inside(q, s) <=> Inside(p, s))
      /\ Inside(q, z) /\ ~Inside(p, z)
  <2>1. PICK c \in Fetch : c.op = "P" /\ c.sem = z
    BY <1>3
  <2>2. q.prog = Running.prog /\ q.PC = NextPC(Running)
    BY <1>1, <1>4 DEF SameProcs, Running
  <2>3. Running.PC < Len(Code[Running.prog])
    BY <1>1, OwnCode
  <2> QED BY <1>0, <1>1, <2>1, <2>2, <2>3, PlaceAfter DEF Running
<1>8. \A k \in Slots \ {csel} : /\ stack'[k].PC = stack[k].PC /\ stack'[k].prog = stack[k].prog
                                /\ stack'[k].status = stack[k].status
                                /\ stack'[k].pid = stack[k].pid
                                /\ \A s \in Sems : Inside(stack'[k], s) <=> Inside(stack[k], s)
  BY <1>4 DEF SameProcs, Inside
<1>9. I8(value[z] - 1) = value[z] - 1 /\ value[z] \in Int /\ (value[z] >= 1 => InsideOf(z) = {})
  BY <1>0, <1>1, <1>7, NoWrap
<1> HIDE DEF wait, p, q
<1>10. CountInv'
  <2>1. \A k \in Live \ {csel} : \A s \in Sems : Inside(stack'[k], s) <=> Inside(stack[k], s)
    BY <1>1, <1>8
  <2>2. value'[z] = value[z] - 1 /\ \A s \in Sems \ {z} : value'[s] = value[s]
    BY <1>1, <1>3, <1>9
  <2>3. \A s \in Sems \ {z} : Inside(stack'[csel], s) <=> Inside(stack[csel], s)
    BY <1>7 DEF p, q
  <2>4. Inside(stack'[csel], z) /\ ~Inside(stack[csel], z)
    BY <1>7 DEF p, q
  <2> QED BY <1>0, <1>1, <1>6, <2>1, <2>2, <2>3, <2>4, CountMoved
<1>11. NamedInv'
  BY <1>0, <1>1, <1>4, <1>5 DEF NamedInv, SameProcs
<1>12. AtInv'
  <2> SUFFICES ASSUME NEW s \in Sems, NEW i \in 1 .. Len(waiters'[s]), NEW k \in Live,
                      stack'[k].pid = waiters'[s][i]
               PROVE  WaitsAt(stack'[k], s)
    BY <1>6 DEF AtInv
  <2>1. stack'[k].pid = stack[k].pid /\ k \in Slots
    BY <1>1, <1>4 DEF SameProcs
  <2>2. CASE i \in 1 .. Len(waiters[s]) /\ waiters'[s][i] = waiters[s][i]
    <3>1. WaitsAt(stack[k], s)
      BY <1>0, <2>1, <2>2 DEF AtInv
    <3>2. k # csel
      BY <1>2, <3>1 DEF WaitsAt
    <3> QED BY <1>8, <2>1, <3>1, <3>2 DEF WaitsAt
  <2>3. CASE wait /\ s = z /\ waiters'[s][i] = stack[csel].pid
    <3>1. k = csel
      BY <1>1, <2>1, <2>3, LivePids
    <3>2. q.status = "WAITING" /\ Code[q.prog][q.PC].sem = z
      BY <1>1, <1>4, <1>7, <2>3 DEF q
    <3> QED BY <2>3, <3>1, <3>2 DEF WaitsAt, q
  <2>4. CASE wait
    <3>1. z \in Sems
      BY <1>1
    <3>2. PushedOn(z, stack[csel].pid)
      BY <1>1, <1>3, <2>4, <3>1, Pushed DEF wait
    <3> QED BY <2>2, <2>3, <2>4, <3>2 DEF PushedOn
  <2>5. CASE ~wait
    BY <1>3, <2>2, <2>5 DEF wait
  <2> QED BY <2>4, <2>5
<1>13. HoldsInv'
  <2>1. ASSUME NEW s \in Sems, NEW k \in Slots, Holds(k, s)', s # z \/ k # csel
        PROVE  Holds(k, s) /\ stack'[k].pid = stack[k].pid
    <3>1. CASE k # csel
      BY <1>5, <1>8, <2>1, <3>1 DEF Holds
    <3>2. CASE k = csel
      <4>1. s # z /\ Inside(p, s)
        BY <1>7, <2>1, <3>2 DEF Holds, Inside, q
      <4>2. p.PC <= Len(Code[p.prog]) /\ Occupied(csel)
        <5>1. p.PC \in Nat /\ Len(Code[p.prog]) \in Nat
          BY <1>1, TableFacts DEF p
        <5> QED BY <1>1, <1>7, <5>1
      <4> QED BY <1>2, <1>4, <3>2, <4>1, <4>2 DEF Holds, Inside, SameProcs, p
    <3> QED BY <3>1, <3>2
  <2>2. ASSUME wait, Holds(csel, z)' PROVE FALSE
    <3>1. q.status = "WAITING" /\ Code[q.prog][q.PC].sem = z
      BY <1>1, <1>4, <1>7, <2>2 DEF q
    <3> QED BY <1>1, <2>2, <3>1 DEF Holds, q
  <2>3. ~wait => \A k \in Slots : ~Holds(k, z)
    <3>1. ~wait => InsideOf(z) = {}
      BY <1>9 DEF wait, MustWait
    <3> QED BY <1>1, <3>1 DEF InsideOf, Holds, Inside
  <2> SUFFICES ASSUME NEW s \in Sems, NEW k \in Slots, NEW l \in Slots, Holds(k, s)', Holds(l, s)'
               PROVE  stack'[k].pid = stack'[l].pid
    BY DEF HoldsInv
  <2>4. CASE s # z \/ (k # csel /\ l # csel)
    BY <1>0, <2>1, <2>4 DEF HoldsInv
  <2>5. CASE s = z /\ (k = csel \/ l = csel)
    <3>1. ~wait
      <4> SUFFICES ASSUME wait PROVE FALSE
        OBVIOUS
      <4>1. Holds(csel, z)'
        BY <1>1, <2>5
      <4> QED BY <2>2, <4>1
    <3>2. \A h \in Slots : ~Holds(h, z)
      BY <2>3, <3>1
    <3> QED BY <2>1, <2>5, <3>2
  <2> QED BY <2>4, <2>5
<1> QED BY <1>10, <1>11, <1>12, <1>13 DEF InsideInv

LEMMA VInside ==
  ASSUME IInv, IInv', WellFormed, SelectInv, RingsInv, InsideInv, ExecV, ~Stray,
         MAX_PCB <= I8_MAX + 3
  PROVE  InsideInv'
<1>0. CountInv /\ NamedInv /\ AtInv /\ HoldsInv /\ RingsWait /\ RingsDistinct
  BY RingsParts DEF InsideInv
<1>1. /\ Executing /\ csel \in Live /\ csel \in Slots /\ Live = {k \in Slots : Occupied(k)}
      /\ UNCHANGED <<curr, csel, sems, rpc, rnew>> /\ Hole' = NULL
      /\ sems \subseteq Sems /\ stack[csel].pid \in Nat /\ NULL \notin Slots
      /\ waiters \in [Sems -> Seq(Nat)] /\ value \in [Sems -> Int]
  <2>1. Executing /\ cpc' # "shift"
    BY DEF ExecV, CanRun, At, Executing
  <2> QED BY <2>1, KernelConstants, ExecFacts, LiveExec DEF ExecV, Hole, rndVars, IInv, TypeOK
<1>2. stack[csel].status # "WAITING"
  BY <1>1 DEF Executing, SelectInv, Stops
<1>3. PICK z \in sems :
        /\ \E c \in Fetch : c.op = "V" /\ c.sem = z
        /\ value' = [value EXCEPT ![z] = I8(@ + 1)]
        /\ IF waiters[z] # <<>>
           THEN /\ waiters' = [waiters EXCEPT ![z] = Tail(@)]
                /\ stack' = Forward(Mark(stack, p_find(Head(waiters[z])), "READY"))
           ELSE waiters' = waiters /\ stack' = Forward(stack)
  BY VWakes
<1> DEFINE j == IF waiters[z] # <<>> THEN p_find(Head(waiters[z])) ELSE NULL
           p == stack[csel]
           q == stack'[csel]
\* The process that is woken, if there is one.
<1>4. j # NULL => /\ j \in Live /\ j # csel /\ waiters[z] # <<>> /\ stack[j].pid = waiters[z][1]
                  /\ WaitsAt(stack[j], z)
  <2> HAVE j # NULL
  <2>1. waiters[z] # <<>> /\ j = p_find(Head(waiters[z])) /\ z \in Sems /\ waiters[z] \in Seq(Nat)
    BY <1>1
  <2>2. j \in Live /\ stack[j].status = "WAITING" /\ stack[j].pid = waiters[z][1]
    BY <1>1, <2>1, PoppedWaits
  <2>3. 1 \in 1 .. Len(waiters[z])
    BY <2>1, TailCells
  <2> HIDE DEF j
  <2>4. WaitsAt(stack[j], z)
    BY <1>0, <2>1, <2>2, <2>3 DEF AtInv
  <2> QED BY <1>2, <2>1, <2>2, <2>4
<1>5. waiters[z] # <<>> => j # NULL
  <2> HAVE waiters[z] # <<>>
  <2>1. p_find(Head(waiters[z])) \in Live
    BY <1>1, PoppedWaits
  <2> QED BY <1>1, <2>1 DEF Live
<1>6. /\ SameProcs(stack, stack')
      /\ \A k \in Slots : /\ stack'[k].status = IF k = j THEN "READY" ELSE stack[k].status
                          /\ stack'[k].PC = IF k = csel THEN NextPC(stack[k]) ELSE stack[k].PC
  <2>1. CASE waiters[z] # <<>>
    BY <1>1, <1>3, <2>1, MarkForward DEF Statuses
  <2>2. CASE ~(waiters[z] # <<>>)
    <3>1. j = NULL /\ stack' = Forward(stack)
      BY <1>3, <2>2
    <3> HIDE DEF j
    <3> QED BY <1>1, <3>1, KernelConstants, ExecFacts, ForwardTable
  <2> QED BY <2>1, <2>2
<1> HIDE DEF j
<1>7. \A k \in Slots : Occupied(k)' <=> Occupied(k)
  BY <1>6 DEF SameProcs, Occupied
<1>8. Live' = Live
  BY <1>1, <1>7 DEF Live
<1>9. /\ p.PC < Len(Code[p.prog]) /\ q.PC = p.PC + 1 /\ q.prog = p.prog
      /\ \A s \in Sems : s # z => (Inside(q, s) <=> Inside(p, s))
      /\ ~Inside(q, z) /\ Inside(p, z)
  <2>1. PICK c \in Fetch : c.op = "V" /\ c.sem = z
    BY <1>3
  <2>2. q.prog = Running.prog /\ q.PC = NextPC(Running)
    BY <1>1, <1>6 DEF SameProcs, Running
  <2>3. Running.PC < Len(Code[Running.prog])
    BY <1>1, OwnCode
  <2> QED BY <1>0, <1>1, <2>1, <2>2, <2>3, PlaceAfter DEF Running
<1>10. \A k \in Slots \ {csel} : /\ stack'[k].PC = stack[k].PC /\ stack'[k].prog = stack[k].prog
                                 /\ stack'[k].status = IF k = j THEN "READY" ELSE stack[k].status
                                 /\ stack'[k].pid = stack[k].pid
                                 /\ \A s \in Sems : Inside(stack'[k], s) <=> Inside(stack[k], s)
  BY <1>6 DEF SameProcs, Inside
<1>11. I8(value[z] + 1) = value[z] + 1 /\ value[z] \in Int
  BY <1>0, <1>1, <1>9, NoWrap
<1>12. p.PC \in Nat /\ Len(Code[p.prog]) \in Nat /\ Occupied(csel)
  BY <1>1, TableFacts
<1> HIDE DEF p, q
<1>13. CountInv'
  <2>1. \A k \in Live \ {csel} : \A s \in Sems : Inside(stack'[k], s) <=> Inside(stack[k], s)
    BY <1>1, <1>10
  <2>2. value'[z] = value[z] + 1 /\ \A s \in Sems \ {z} : value'[s] = value[s]
    BY <1>1, <1>3, <1>11
  <2>3. \A s \in Sems \ {z} : Inside(stack'[csel], s) <=> Inside(stack[csel], s)
    BY <1>9 DEF p, q
  <2>4. ~Inside(stack'[csel], z) /\ Inside(stack[csel], z)
    BY <1>9 DEF p, q
  <2> QED BY <1>0, <1>1, <1>8, <2>1, <2>2, <2>3, <2>4, CountMoved
<1>14. NamedInv'
  BY <1>0, <1>1, <1>6, <1>7 DEF NamedInv, SameProcs
<1>15. ASSUME NEW s \in Sems, NEW i \in 1 .. Len(waiters'[s])
       PROVE  \E h \in 1 .. Len(waiters[s]) :
                /\ waiters'[s][i] = waiters[s][h]
                /\ waiters[z] # <<>> => waiters[s][h] # waiters[z][1]
  <2>1. CASE waiters[z] # <<>>
    <3>1. PoppedFrom(z)
      BY <1>1, <1>3, <2>1, Popped
    <3>0. 1 \in 1 .. Len(waiters[z]) /\ z \in Sems
      BY <1>1, <3>1 DEF PoppedFrom
    <3>2. \A h \in 1 .. Len(waiters[s]) : waiters[s][h] = waiters[z][1] => s = z /\ h = 1
      BY <1>0, <3>0 DEF RingsDistinct
    <3>3. CASE s = z
      <4>1. i \in 1 .. Len(waiters'[z]) /\ i + 1 # 1
        BY <3>3
      <4>2. i + 1 \in 1 .. Len(waiters[z]) /\ waiters'[z][i] = waiters[z][i + 1]
        BY <3>1, <4>1 DEF PoppedFrom
      <4> QED BY <3>2, <3>3, <4>1, <4>2
    <3>4. CASE s # z
      BY <3>1, <3>2, <3>4 DEF PoppedFrom
    <3> QED BY <3>3, <3>4
  <2>2. CASE ~(waiters[z] # <<>>)
    BY <1>3, <2>2
  <2> QED BY <2>1, <2>2
<1>16. AtInv'
  <2> SUFFICES ASSUME NEW s \in Sems, NEW i \in 1 .. Len(waiters'[s]), NEW k \in Live,
                      stack'[k].pid = waiters'[s][i]
               PROVE  WaitsAt(stack'[k], s)
    BY <1>8 DEF AtInv
  <2>1. stack'[k].pid = stack[k].pid /\ k \in Slots
    BY <1>1, <1>6 DEF SameProcs
  <2>2. PICK h \in 1 .. Len(waiters[s]) :
          /\ waiters'[s][i] = waiters[s][h]
          /\ waiters[z] # <<>> => waiters[s][h] # waiters[z][1]
    BY <1>15
  <2>3. WaitsAt(stack[k], s)
    BY <1>0, <2>1, <2>2 DEF AtInv
  <2>4. k # csel
    BY <1>2, <2>3 DEF WaitsAt
  <2>5. k # j
    <3>1. NULL \notin Live
      BY <1>1
    <3> QED BY <1>4, <2>1, <2>2, <3>1
  <2> QED BY <1>10, <2>1, <2>3, <2>4, <2>5 DEF WaitsAt
<1>17. HoldsInv'
  <2>1. ASSUME NEW s \in Sems, NEW k \in Slots, Holds(k, s)', s # z \/ k # j
        PROVE  Holds(k, s) /\ stack'[k].pid = stack[k].pid /\ ~(s = z /\ k = csel)
    <3>1. CASE k # csel
      <4>1. Inside(stack[k], s) /\ Occupied(k) /\ stack[k].PC <= Len(Code[stack[k].prog])
        BY <1>7, <1>10, <2>1, <3>1 DEF Holds, Inside
      <4>2. k = j => ~(stack[k].status = "WAITING" /\ Code[stack[k].prog][stack[k].PC].sem = s)
        <5>1. k = j => s # z /\ WaitsAt(stack[k], z)
          BY <1>1, <1>4, <2>1
        <5> QED BY <5>1 DEF WaitsAt
      <4>3. k # j => ~(stack[k].status = "WAITING" /\ Code[stack[k].prog][stack[k].PC].sem = s)
        BY <1>10, <2>1, <3>1 DEF Holds
      <4>4. Holds(k, s)
        BY <4>1, <4>2, <4>3 DEF Holds, Inside
      <4> QED BY <1>10, <3>1, <4>4
    <3>2. CASE k = csel
      <4>1. s # z /\ Inside(p, s)
        BY <1>9, <2>1, <3>2 DEF Holds, Inside, q
      <4>2. p.PC <= Len(Code[p.prog])
        BY <1>9, <1>12
      <4> QED BY <1>2, <1>6, <1>12, <3>2, <4>1, <4>2 DEF Holds, Inside, SameProcs, p
    <3> QED BY <3>1, <3>2
  <2>2. Holds(csel, z)
    BY <1>2, <1>9, <1>12 DEF Holds, Inside, p
  <2>3. ASSUME NEW k \in Slots, Holds(k, z) PROVE k = csel
    <3>1. stack[k].pid = stack[csel].pid /\ Occupied(k)
      BY <1>0, <1>1, <2>2, <2>3 DEF HoldsInv, Holds
    <3> QED BY <1>1, <3>1, LivePids
  <2> SUFFICES ASSUME NEW s \in Sems, NEW k \in Slots, NEW l \in Slots, Holds(k, s)', Holds(l, s)'
               PROVE  stack'[k].pid = stack'[l].pid
    BY DEF HoldsInv
  <2>4. CASE s # z
    BY <1>0, <2>1, <2>4 DEF HoldsInv
  <2>5. CASE s = z
    <3>1. k = j /\ l = j
      BY <2>1, <2>3, <2>5
    <3> QED BY <3>1
  <2> QED BY <2>4, <2>5
<1> QED BY <1>13, <1>14, <1>16, <1>17 DEF InsideInv

-----------------------------------------------------------------------------
(* Where the processes come from. *)

\* A process runs a program that was loaded or that a user may submit.
LEMMA OriginStep ==
  ASSUME IInv, SelectInv, OriginInv, [Next]_vars
  PROVE  OriginInv' /\ load' = load
<1>1. load' = load
  BY DEF Next, CpuThread, RenderThread, DiskThread, Tick, NoRunning, ReapScan, Shift,
         ReapDone, Select, SelectFault, Dispatch, Kill, ExecNull, ExecCompute, ExecOther,
         ExecP, ExecV, Hang, ExecDisk, ExecDiskMiss, Load, LoadBroken, Submit, SubmitBroken,
         SubmitAppend, SubmitLog, DrawFault, FinishFind, FinishFault, UnblockFault, p_unblock,
         FinishWrite, Fault, vars, cpuVars
<1>2. rpc' = "append" => rnew'.prog \in Started
  <2>1. ASSUME NEW prog \in UserPrograms, Submit(prog), ~TableFull
        PROVE  rnew'.prog \in Started
    BY <2>1 DEF Submit, NewProcess, Started
  <2>2. CASE rpc' = "append" /\ ~\E prog \in UserPrograms : Submit(prog) /\ ~TableFull
    <3>1. rpc = "append" /\ rnew' = rnew
      BY <2>2 DEF Next, CpuThread, RenderThread, DiskThread, Tick, NoRunning, ReapScan, Shift,
         ReapDone, Select, SelectFault, Dispatch, Kill, ExecNull, ExecCompute, ExecOther,
         ExecP, ExecV, Hang, ExecDisk, ExecDiskMiss, Load, LoadBroken, Submit, SubmitBroken,
         SubmitAppend, SubmitLog, DrawFault, FinishFind, FinishFault, UnblockFault, p_unblock,
         FinishWrite, Fault, vars, rndVars
    <3> QED BY <3>1 DEF OriginInv
  <2> QED BY <2>1, <2>2
<1>3. ASSUME SameProcs(stack, stack')
      PROVE  \A k \in Slots : Occupied(k)' => stack'[k].prog \in Started
  BY <1>3 DEF SameProcs, Occupied, OriginInv
<1>4. \A k \in Slots : Occupied(k)' => stack'[k].prog \in Started
  <2>1. CASE FinishWrite
    <3>1. stack' = Mark(stack, dptr, "READY")
      BY <2>1 DEF FinishWrite
    <3>2. SameProcs(stack, stack')
      BY <3>1, TypedTable, MarkTable DEF Statuses
    <3> QED BY <1>3, <3>2
  <2>2. CASE ExecP
    <3>1. Executing
      BY <2>2 DEF ExecP, CanRun, At, Executing
    <3>2. stack' = Forward(stack) \/ stack' = Forward(Mark(stack, csel, "WAITING"))
      BY <2>2, PWaits
    <3>3. SameProcs(stack, stack')
      BY <3>1, <3>2, MarkForward, KernelConstants, ExecFacts, ForwardTable DEF Statuses
    <3> QED BY <1>3, <3>3
  <2>3. CASE ExecV
    <3>1. Executing
      BY <2>3 DEF ExecV, CanRun, At, Executing
    <3>2. stack' = Forward(stack) \/ \E x : stack' = Forward(Mark(stack, x, "READY"))
      BY <2>3 DEF ExecV
    <3>3. CASE stack' = Forward(stack)
      BY <1>3, <3>1, <3>3, KernelConstants, ExecFacts, ForwardTable
    <3>4. ASSUME NEW x, stack' = Forward(Mark(stack, x, "READY"))
          PROVE  \A k \in Slots : Occupied(k)' => stack'[k].prog \in Started
      BY <1>3, <3>1, <3>4, MarkForward DEF Statuses
    <3> QED BY <3>2, <3>3, <3>4
  <2>4. CASE ~FinishWrite /\ ~ExecP /\ ~ExecV
    <3>1. CASE Followed({})
      BY <3>1 DEF Followed, Same, OriginInv
    <3>2. CASE Followed({curr}) /\ curr' = curr + 1
      <4>1. Load \/ SubmitAppend
        <5>1. curr' # curr
          BY <3>2 DEF IInv, TypeOK
        <5> QED BY <5>1 DEF Next, CpuThread, RenderThread, DiskThread, Tick, NoRunning, ReapScan,
              Shift, ReapDone, Select, SelectFault, Dispatch, Kill, ExecNull, ExecCompute,
              ExecOther, ExecP, ExecV, Hang, ExecDisk, ExecDiskMiss, LoadBroken, Submit,
              SubmitBroken, SubmitLog, DrawFault, FinishFind, FinishFault, UnblockFault,
              p_unblock, FinishWrite, Fault, vars, pcbVars
      <4>2. curr \in Slots => stack'[curr].prog \in Started
        <5>1. CASE SubmitAppend
          <6>1. stack' = [stack EXCEPT ![curr] = rnew] /\ rnew.prog \in Started
            BY <5>1 DEF SubmitAppend, OriginInv
          <6> QED BY <6>1, TypedTable DEF Tables
        <5>2. CASE Load
          <6>1. /\ stack' = [stack EXCEPT ![curr] = NewProcess(load[quantum])]
                /\ quantum <= Len(load) /\ cpc = "load"
            BY <3>2, <5>2 DEF Load, At, pcbVars, IInv, TypeOK
          <6>2. quantum \in Nat \ {0} /\ load \in Seq(Programs)
            BY <6>1, KernelConstants DEF IInv, TypeOK, PlaceInv, KernelConstants
          <6>3. NewProcess(load[quantum]).prog \in Started
            BY <6>1, <6>2 DEF Started, NewProcess
          <6> QED BY <6>1, <6>3, TypedTable DEF Tables
        <5> QED BY <4>1, <5>1, <5>2
      <4> QED BY <3>2, <4>2 DEF Followed, Same, OriginInv
    <3> QED BY <2>4, <3>1, <3>2, OtherSteps
  <2> QED BY <2>1, <2>2, <2>3, <2>4
<1>5. Started' = Started
  BY <1>1 DEF Started
<1> QED BY <1>1, <1>2, <1>4, <1>5 DEF OriginInv

\* Without a disk instruction none is fetched.
LEMMA NoDiskFetched ==
  ASSUME NoDisk, IInv, OriginInv, Executing, NEW c \in Fetch
  PROVE  c.op # "disk"
<1> SUFFICES ASSUME c.op = "disk" PROVE FALSE
  OBVIOUS
<1>1. Running.PC < Len(Code[Running.prog])
  BY DEF Fetch, NoDisk
<1>2. /\ Running.prog \in Started /\ load \in Loads
      /\ Running.PC + 1 \in 1 .. Len(Code[Running.prog])
  BY <1>1, KernelConstants, ExecFacts, TableFacts DEF Running, OriginInv, IInv, TypeOK
<1>3. Code[Running.prog][Running.PC + 1].op = "disk"
  BY <1>1, FetchOp
<1> QED BY <1>2, <1>3 DEF NoDisk, Started

\* Without a disk instruction nobody ever waits for the disk.
LEMMA IdleDiskStep ==
  ASSUME NoDisk, IInv, OriginInv, IdleDisk, [Next]_vars
  PROVE  IdleDisk'
<1>1. ~ExecDisk
  <2>1. ExecDisk => Executing /\ \E c \in Fetch : c.op = "disk"
    BY DEF ExecDisk, CanRun, At, Executing
  <2> QED BY <2>1, NoDiskFetched
<1>2. ~FinishWrite /\ \A pid \in Pids : ~FinishFind(pid)
  BY DEF IdleDisk, FinishWrite, FinishFind
<1>3. UNCHANGED dskVars \/ UNCHANGED <<dpc, io>>
  BY <1>1, <1>2 DEF Next, CpuThread, RenderThread, DiskThread, Tick, NoRunning, ReapScan, Shift,
         ReapDone, Select, SelectFault, Dispatch, Kill, ExecNull, ExecCompute, ExecOther,
         ExecP, ExecV, Hang, ExecDiskMiss, Load, LoadBroken, Submit, SubmitBroken,
         SubmitAppend, SubmitLog, DrawFault, FinishFault, UnblockFault, Fault, vars, dskVars
<1> QED BY <1>3 DEF IdleDisk, dskVars

-----------------------------------------------------------------------------
(* Who stops and who goes on. *)

\* Only processes stop, so at least one slot holds no stopped one; while the CPU
\* executes another one does not.
LEMMA StoppedFinite ==
  ASSUME IInv
  PROVE  /\ IsFiniteSet(Stopped) /\ Cardinality(Stopped) \in Nat
         /\ Cardinality(Stopped) <= MAX_PCB - 1
         /\ Executing /\ SelectInv => Cardinality(Stopped) < MAX_PCB - 1
<1>1. MAX_PCB \in Nat /\ curr \in Nat /\ curr <= MAX_PCB - 1
  BY KernelConstants DEF KernelConstants, IInv, TypeOK, CreateInv
<1> DEFINE N == 0 .. curr - 1
<1>2. Stopped \in SUBSET N
  BY <1>1 DEF Stopped, IInv, TableInv, Slots
<1>3. IsFiniteSet(N) /\ Cardinality(N) = curr
  BY <1>1, FS_Interval
<1>4. IsFiniteSet(Stopped) /\ Cardinality(Stopped) <= curr
  BY <1>2, <1>3, FS_Subset
<1>5. Cardinality(Stopped) \in Nat
  BY <1>4, FS_CardinalityType
<1>6. ASSUME Executing, SelectInv PROVE Cardinality(Stopped) < MAX_PCB - 1
  <2>1. csel \in N /\ csel \notin Stopped
    <3>1. csel \in Slots /\ Occupied(csel) /\ cpc \in {"exec", "run"}
      BY <1>6, KernelConstants, ExecFacts
    <3> QED BY <1>1, <1>6, <3>1 DEF IInv, TableInv, Slots, SelectInv, Stopped
  <2>2. IsFiniteSet(N \ {csel}) /\ Cardinality(N \ {csel}) = curr - 1
    <3> HIDE DEF N
    <3> QED BY <1>3, <2>1, FS_RemoveElement
  <2>3. Stopped \in SUBSET (N \ {csel})
    BY <1>2, <2>1
  <2>4. Cardinality(Stopped) <= curr - 1
    <3> HIDE DEF N
    <3> QED BY <2>2, <2>3, FS_Subset
  <2> QED BY <1>1, <1>5, <2>4
<1> QED BY <1>1, <1>4, <1>5, <1>6

\* A change of the table that stops no process and lets no stopped one go on.
Calm(t, u) ==
  /\ SameProcs(t, u)
  /\ \A k \in Slots : /\ u[k].status \in Stops <=> t[k].status \in Stops
                      /\ u[k].status = "BLOCKED" <=> t[k].status = "BLOCKED"

\* As many processes are stopped as before, and the blocked ones are the same.
SameStops ==
  Cardinality(Stopped') = Cardinality(Stopped) /\ \A p : IsBlocked(p)' <=> IsBlocked(p)

\* A table that does not change is calm.
LEMMA CalmSame == ASSUME NEW t \in Tables PROVE Calm(t, t)
BY DEF Calm, SameProcs

\* Statuses that do not matter here may be written into processes that run.
LEMMA CalmMark ==
  ASSUME NEW t \in Tables, NEW x, NEW s \in Statuses \ Stops,
         x \in Slots => t[x].status \notin Stops
  PROVE  Calm(t, Mark(t, x, s))
<1>1. s \notin Stops /\ s # "BLOCKED"
  BY DEF Stops
<1> QED BY <1>1, MarkTable DEF Calm, Stops

\* The advance of the selected process alone.
LEMMA ForwardCalm == ASSUME IInv, Executing PROVE Calm(stack, Forward(stack))
<1>1. /\ SameProcs(stack, Forward(stack))
      /\ \A k \in Slots : Forward(stack)[k].status = stack[k].status
  BY KernelConstants, ExecFacts, ForwardTable
<1> QED BY <1>1 DEF Calm

\* A calm change of the table leaves who is stopped, and the hole, as they were.
LEMMA CalmTable ==
  ASSUME Calm(stack, stack'), Hole' = Hole
  PROVE  SameStops
<1>1. \A k \in Slots : Occupied(k)' <=> Occupied(k)
  BY DEF Calm, SameProcs, Occupied
<1>2. Stopped' = Stopped
  BY <1>1 DEF Calm, Stopped
<1>3. \A p : IsBlocked(p)' <=> IsBlocked(p)
  BY <1>1 DEF Calm, SameProcs, IsBlocked
<1> QED BY <1>2, <1>3 DEF SameStops

\* Steps that write no table, or only statuses of processes that run.
CalmStep ==
  \/ Tick \/ NoRunning \/ (ReapScan /\ stack[ci].status # "KILL")
  \/ ReapDone \/ Select \/ Fault \/ Dispatch \/ Kill
  \/ ExecCompute \/ ExecOther \/ Hang
  \/ (Load /\ UNCHANGED pcbVars)
  \/ \E prog \in UserPrograms : Submit(prog)
  \/ SubmitLog
LEMMA CalmSteps ==
  ASSUME IInv, SelectInv, CalmStep
  PROVE  /\ Calm(stack, stack') /\ cj' = cj /\ (cpc = "shift" <=> cpc' = "shift")
         /\ Hole' = Hole /\ waiters' = waiters
<1>1. stack \in Tables
  BY TypedTable
<1> SUFFICES Calm(stack, stack') /\ cj' = cj /\ (cpc = "shift" <=> cpc' = "shift")
             /\ waiters' = waiters
  BY DEF Hole
<1>2. CASE \/ Tick \/ (ReapScan /\ stack[ci].status # "KILL") \/ ReapDone \/ Select
           \/ Fault \/ Hang \/ SubmitLog \/ (Load /\ UNCHANGED pcbVars)
           \/ \E prog \in UserPrograms : Submit(prog)
  <2>1. stack' = stack
    BY <1>2 DEF Tick, ReapScan, ReapDone, Select, Fault, Hang, Load, Submit, SubmitLog,
                pcbVars
  <2>2. cj' = cj /\ (cpc = "shift" <=> cpc' = "shift")
    BY <1>2 DEF Tick, ReapScan, ReapDone, Select, Fault, Hang, Load, Submit, SubmitLog, At,
                CanRun, cpuVars
  <2>3. waiters' = waiters
    BY <1>2 DEF Tick, ReapScan, ReapDone, Select, Fault, Hang, Load, Submit, SubmitLog,
                semVars, InitSemaphores, init_semaphore
  <2> QED BY <1>1, <2>1, <2>2, <2>3, CalmSame
<1>3. CASE NoRunning
  <2>1. Calm(stack, stack')
    <3>1. "READY" \in Statuses \ Stops /\ "RUNNING" \notin Stops
      BY DEF Statuses, Stops
    <3> QED BY <1>1, <1>3, <3>1, CalmSame, CalmMark DEF NoRunning
  <2> QED BY <1>3, <2>1 DEF NoRunning, At, semVars
<1>4. CASE Dispatch
  <2>1. Calm(stack, stack')
    <3>1. "RUNNING" \in Statuses \ Stops
      BY DEF Statuses, Stops
    <3>2. csel # NULL => stack[csel].status \notin Stops
      BY <1>1, <1>4 DEF Dispatch, At, SelectInv
    <3> QED BY <1>1, <1>4, <3>1, <3>2, CalmSame, CalmMark DEF Dispatch
  <2> QED BY <1>4, <2>1 DEF Dispatch, At, semVars
<1>5. CASE Kill
  <2>1. Executing
    BY <1>5 DEF Kill, At, Executing
  <2>2. stack' = Mark(stack, csel, "KILL") /\ stack[csel].status \notin Stops
    BY <1>1, <1>5, <2>1, KernelConstants, ExecFacts, FindRunning DEF Kill, SelectInv
  <2>3. "KILL" \in Statuses \ Stops
    BY DEF Statuses, Stops
  <2>4. Calm(stack, stack')
    BY <1>1, <2>2, <2>3, CalmMark
  <2> QED BY <1>5, <2>4 DEF Kill, At, semVars
<1>6. CASE ExecCompute
  <2>1. Calm(stack, stack')
    BY <1>1, <1>6, KernelConstants, ComputeTable DEF Calm
  <2> QED BY <1>6, <2>1 DEF ExecCompute, CanRun, At, semVars
<1>7. CASE ExecOther
  <2>1. Executing
    BY <1>7 DEF ExecOther, CanRun, At, Executing
  <2>2. Calm(stack, stack')
    BY <1>1, <1>7, <2>1, ForwardCalm DEF ExecOther
  <2> QED BY <1>7, <2>2 DEF ExecOther, CanRun, At, semVars
<1> QED BY <1>2, <1>3, <1>4, <1>5, <1>6, <1>7 DEF CalmStep

\* The compaction begins: what is killed is not stopped.
LEMMA ReapStops ==
  ASSUME IInv, ReapScan, stack[ci].status = "KILL"
  PROVE  /\ SameStops /\ stack' = stack /\ waiters' = waiters
         /\ cpc' = "shift" /\ ci \in Slots /\ Occupied(ci) /\ Hole = NULL /\ Hole' = ci
<1>1. /\ stack' = stack /\ waiters' = waiters
      /\ cpc = "reap" /\ cpc' = "shift" /\ cj' = ci + 1 /\ ci < MAX_PCB
  BY DEF ReapScan, At, pcbVars, semVars
<1>2. ci \in Slots /\ Occupied(ci) /\ ci \in Nat
  BY <1>1, KernelConstants DEF IInv, TypeOK, TableInv, Slots, KernelConstants
<1>3. Hole = NULL /\ Hole' = ci /\ NULL \notin Slots
  <2>1. NULL \notin Slots
    BY DEF NULL, Slots
  <2>2. Hole = NULL /\ Hole' = ci
    BY <1>1, <1>2 DEF Hole
  <2> QED BY <2>1, <2>2
<1>4. Stopped' = Stopped
  BY <1>1, <1>3 DEF Stopped, Occupied, Stops
<1>5. \A p : IsBlocked(p)' <=> IsBlocked(p)
  BY <1>1, <1>3 DEF IsBlocked, Occupied
<1> QED BY <1>1, <1>2, <1>3, <1>4, <1>5 DEF SameStops

\* One copy of the compaction moves a process, stopped or not, to the hole.
LEMMA CopyStops ==
  ASSUME IInv, Shift, cj < MAX_PCB
  PROVE  /\ SameStops /\ waiters' = waiters /\ cpc' = "shift"
         /\ cj \in Slots /\ cj - 1 \in Slots /\ cj \in Nat
         /\ Hole = cj - 1 /\ Hole' = cj /\ cj - 1 < cj /\ cj - 1 # cj
         /\ \A k \in Slots : stack'[k] = IF k = cj - 1 THEN stack[cj] ELSE stack[k]
         /\ \A k \in Slots : Occupied(k)' <=> IF k = cj - 1 THEN Occupied(cj) ELSE Occupied(k)
<1>1. /\ stack' = [stack EXCEPT ![cj - 1] = stack[cj]] /\ cj' = cj + 1
      /\ cpc = "shift" /\ cpc' = "shift" /\ waiters' = waiters
  BY DEF Shift, At, semVars
<1>2. /\ cj \in Slots /\ cj - 1 \in Slots /\ cj \in Nat
      /\ Hole = cj - 1 /\ Hole' = cj /\ cj - 1 < cj /\ cj - 1 # cj
  <2>1. cj \in 1 .. MAX_PCB - 1
    <3>1. cj \in 1 .. MAX_PCB
      BY <1>1 DEF IInv, PlaceInv
    <3> QED BY <3>1, KernelConstants DEF KernelConstants
  <2>2. Hole = cj - 1 /\ Hole' = cj
    BY <1>1, <2>1 DEF Hole
  <2> QED BY <2>1, <2>2, KernelConstants DEF Slots, KernelConstants
<1>3. /\ \A k \in Slots : stack'[k] = IF k = cj - 1 THEN stack[cj] ELSE stack[k]
      /\ \A k \in Slots : Occupied(k)' <=> IF k = cj - 1 THEN Occupied(cj) ELSE Occupied(k)
  <2>1. stack \in Tables
    BY TypedTable
  <2>2. \A k \in Slots : stack'[k] = IF k = cj - 1 THEN stack[cj] ELSE stack[k]
    BY <1>1, <1>2, <2>1 DEF Tables
  <2> QED BY <2>2 DEF Occupied
<1>4. /\ cj - 1 \in Stopped' <=> cj \in Stopped
      /\ cj \in Stopped' <=> cj - 1 \in Stopped
      /\ \A i : i \notin {cj - 1, cj} => (i \in Stopped' <=> i \in Stopped)
  BY <1>2, <1>3 DEF Stopped
<1>5. Cardinality(Stopped') = Cardinality(Stopped)
  <2>1. IsFiniteSet(Stopped)
    BY StoppedFinite
  <2> DEFINE A == Stopped
             B == Stopped'
  <2>2. IsFiniteSet(A) /\ (cj - 1 \in B <=> cj \in A) /\ (cj \in B <=> cj - 1 \in A)
        /\ \A i : i \notin {cj - 1, cj} => (i \in B <=> i \in A)
    BY <1>4, <2>1
  <2> HIDE DEF A, B
  <2>3. Cardinality(B) = Cardinality(A)
    BY <2>2, SwapCount
  <2> QED BY <2>3 DEF A, B
<1>6. \A p : IsBlocked(p)' <=> IsBlocked(p)
  <2> TAKE p
  <2>1. ASSUME NEW k \in Slots \ {cj}, Occupied(k)', stack'[k].pid = p,
               stack'[k].status = "BLOCKED"
        PROVE  IsBlocked(p)
    BY <1>2, <1>3, <2>1 DEF IsBlocked
  <2>2. ASSUME NEW k \in Slots \ {cj - 1}, Occupied(k), stack[k].pid = p,
               stack[k].status = "BLOCKED"
        PROVE  IsBlocked(p)'
    <3>1. CASE k = cj
      <4>1. PICK h \in Slots : h = cj - 1
        BY <1>2
      <4>2. h \in Slots \ {cj} /\ Occupied(h)' /\ stack'[h] = stack[k]
        BY <1>2, <1>3, <2>2, <3>1, <4>1
      <4> QED BY <1>2, <2>2, <4>2 DEF IsBlocked
    <3>2. CASE k # cj
      <4>1. k \in Slots \ {cj} /\ Occupied(k)' /\ stack'[k] = stack[k]
        BY <1>3, <2>2, <3>2
      <4> QED BY <1>2, <2>2, <4>1 DEF IsBlocked
    <3> QED BY <3>1, <3>2
  <2> QED BY <1>2, <2>1, <2>2 DEF IsBlocked
<1> QED BY <1>1, <1>2, <1>3, <1>5, <1>6 DEF SameStops

\* Its end: the last slot, which was the hole, is empty.
LEMMA EndStops ==
  ASSUME IInv, Shift, ~(cj < MAX_PCB)
  PROVE  SameStops /\ waiters' = waiters /\ cpc' = "reap"
<1>1. stack' = stack /\ cpc = "shift" /\ cpc' = "reap" /\ waiters' = waiters
  BY DEF Shift, At, semVars
<1>2. Hole = MAX_PCB - 1 /\ Hole' = NULL /\ NULL \notin Slots /\ ~Occupied(MAX_PCB - 1)
  <2>1. cj = MAX_PCB
    BY <1>1, KernelConstants DEF IInv, PlaceInv, KernelConstants
  <2>2. NULL \notin Slots
    BY DEF NULL, Slots
  <2>3. ~Occupied(MAX_PCB - 1)
    BY KernelConstants DEF IInv, TypeOK, CreateInv, TableInv, Slots, KernelConstants
  <2> QED BY <1>1, <2>1, <2>2, <2>3 DEF Hole
<1>3. Stopped' = Stopped
  BY <1>1, <1>2 DEF Stopped, Occupied
<1>4. \A p : IsBlocked(p)' <=> IsBlocked(p)
  BY <1>1, <1>2 DEF IsBlocked, Occupied
<1> QED BY <1>1, <1>3, <1>4 DEF SameStops

\* p_create fills an empty slot, also in the middle of a compaction, with a
\* process that is not stopped.
LEMMA CreateStops ==
  ASSUME IInv, SubmitAppend \/ (Load /\ ~UNCHANGED pcbVars)
  PROVE  /\ SameStops /\ waiters' = waiters
         /\ cj' = cj /\ (cpc = "shift" <=> cpc' = "shift") /\ Hole' = Hole
         /\ curr \in Slots /\ curr \in Nat
         /\ stack'[curr].pid = curr /\ stack'[curr].status = "NEW" /\ stack'[curr].PC = 0
         /\ \A k \in Slots : k # curr => stack'[k] = stack[k]
         /\ \A k \in Slots : Occupied(k)' <=> k = curr \/ Occupied(k)
<1>1. \E q \in Process : /\ q.pid = curr /\ q.prog # NoProg /\ q.status = "NEW" /\ q.PC = 0
                         /\ stack' = [stack EXCEPT ![curr] = q]
  <2>1. CASE SubmitAppend
    <3>1. /\ rnew \in Process /\ rnew.pid = curr /\ rnew.prog # NoProg /\ rnew.status = "NEW"
          /\ rnew.PC = 0 /\ stack' = [stack EXCEPT ![curr] = rnew]
      BY <2>1 DEF SubmitAppend, IInv, TypeOK, CreateInv
    <3> QED BY <3>1
  <2>2. CASE Load /\ ~UNCHANGED pcbVars
    <3>1. /\ quantum <= Len(load) /\ cpu_s = "free"
          /\ stack' = [stack EXCEPT ![curr] = NewProcess(load[quantum])] /\ cpc = "load"
      BY <2>2 DEF Load, At
    <3>2. load[quantum] \in Programs
      <4>1. quantum \in Nat \ {0} /\ load \in Seq(Programs)
        BY <3>1, KernelConstants DEF IInv, TypeOK, PlaceInv, KernelConstants
      <4> QED BY <3>1, <4>1
    <3>3. last_pid = curr /\ last_pid \in Nat
      BY <3>1 DEF IInv, TypeOK, LockInv, CreateInv
    <3> DEFINE q == NewProcess(load[quantum])
    <3>4. q \in Process /\ q.pid = curr /\ q.prog # NoProg /\ q.status = "NEW"
      BY <3>2, <3>3, KernelConstants, NewProcessType
    <3>6. q.PC = 0
      BY DEF NewProcess
    <3>5. stack' = [stack EXCEPT ![curr] = q]
      BY <3>1
    <3> HIDE DEF q
    <3> QED BY <3>4, <3>5, <3>6
  <2> QED BY <2>1, <2>2
<1>2. /\ waiters' = waiters /\ cj' = cj /\ (cpc = "shift" <=> cpc' = "shift")
  BY DEF SubmitAppend, Load, At, cpuVars, semVars, InitSemaphores, init_semaphore
<1>3. PICK q \in Process : /\ q.pid = curr /\ q.prog # NoProg /\ q.status = "NEW" /\ q.PC = 0
                           /\ stack' = [stack EXCEPT ![curr] = q]
  BY <1>1
<1>4. curr \in Slots /\ curr \in Nat /\ ~Occupied(curr) /\ Hole' = Hole /\ stack \in Tables
  <2>1. curr \in Nat /\ curr <= MAX_PCB - 1 /\ MAX_PCB \in Nat
    BY KernelConstants DEF IInv, TypeOK, CreateInv, KernelConstants
  <2>2. curr \in Slots
    BY <2>1 DEF Slots
  <2> QED BY <1>2, <2>1, <2>2, TypedTable DEF IInv, TableInv, Hole
<1>5. /\ \A k \in Slots : stack'[k] = IF k = curr THEN q ELSE stack[k]
      /\ \A k \in Slots : Occupied(k)' <=> k = curr \/ Occupied(k)
  <2>1. \A k \in Slots : stack'[k] = IF k = curr THEN q ELSE stack[k]
    BY <1>3, <1>4 DEF Tables
  <2> QED BY <1>3, <2>1 DEF Occupied
<1>6. Stopped' = Stopped
  <2>1. \A k \in Slots : /\ k \in Stopped' => k \in Stopped
                         /\ k \in Stopped => k \in Stopped'
    BY <1>3, <1>4, <1>5 DEF Stopped, Stops
  <2> QED BY <2>1 DEF Stopped
<1>7. \A p : IsBlocked(p)' <=> IsBlocked(p)
  BY <1>3, <1>4, <1>5 DEF IsBlocked
<1> QED BY <1>2, <1>3, <1>4, <1>5, <1>6, <1>7 DEF SameStops

-----------------------------------------------------------------------------
(* What the stopped processes wait for. *)

\* The cells of the rings, one by one.
LEMMA CellsAre ==
  \A x : x \in Cells <=> \E z \in Sems : \E i \in 1 .. Len(waiters[z]) : x = <<z, i>>
BY DEF Cells

\* P stops the process that runs, and uses at most one cell for it.
LEMMA WaitCounts ==
  ASSUME IInv, SelectInv, IsFiniteSet(Cells), Executing, cpc' = "load", NEW z \in Sems,
         waiters' = [waiters EXCEPT ![z] = waiter_push(@, stack[csel].pid)],
         stack' = Forward(Mark(stack, csel, "WAITING"))
  PROVE  /\ Cardinality(Stopped') = Cardinality(Stopped) + 1
         /\ IsFiniteSet(Cells') /\ Cardinality(Cells') <= Cardinality(Cells) + 1
         /\ \A p : IsBlocked(p)' <=> IsBlocked(p)
<1>1. /\ SameProcs(stack, stack')
      /\ \A k \in Slots : stack'[k].status = IF k = csel THEN "WAITING"
                                             ELSE stack[k].status
  BY MarkForward DEF Statuses
<1>2. /\ csel \in Slots \ {Hole} /\ Occupied(csel) /\ Hole' = Hole
      /\ stack[csel].status \notin Stops /\ cpc # "shift"
  <2>1. csel \in Slots /\ Occupied(csel) /\ cpc \in {"exec", "run"}
    BY KernelConstants, ExecFacts
  <2>2. stack[csel].status \notin Stops /\ Hole # csel
    BY <2>1, FindRunning DEF SelectInv
  <2> QED BY <2>1, <2>2 DEF Hole
<1>3. \A k \in Slots : Occupied(k)' <=> Occupied(k)
  BY <1>1 DEF SameProcs, Occupied
<1>4. Stopped' = Stopped \cup {csel} /\ csel \notin Stopped
  BY <1>1, <1>2, <1>3 DEF Stopped, Stops
<1>5. Cardinality(Stopped') = Cardinality(Stopped) + 1
  BY <1>4, StoppedFinite, FS_AddElement
<1>6. IsFiniteSet(Cells') /\ Cardinality(Cells') <= Cardinality(Cells) + 1
  <2> DEFINE w == waiters[z]
             x == <<z, Len(w) + 1>>
  <2>1. w \in Seq(Nat) /\ waiters \in [Sems -> Seq(Nat)] /\ stack[csel].pid \in Nat
    BY KernelConstants, ExecFacts DEF IInv, TypeOK
  <2>2. /\ Len(waiters'[z]) \in {Len(w), Len(w) + 1} /\ Len(w) \in Nat
        /\ \A y \in Sems : y # z => waiters'[y] = waiters[y]
    BY <2>1 DEF waiter_push
  <2>3. \A y \in Cells' : y \in Cells \cup {x}
    <3> TAKE y \in Cells'
    <3>1. PICK t \in Sems : \E i \in 1 .. Len(waiters'[t]) : y = <<t, i>>
      BY DEF Cells
    <3>2. PICK i \in 1 .. Len(waiters'[t]) : y = <<t, i>>
      BY <3>1
    <3>3. CASE t # z
      BY <2>2, <3>2, <3>3, CellsAre
    <3>4. CASE t = z
      <4>1. i \in 1 .. Len(w) \/ i = Len(w) + 1
        BY <2>2, <3>2, <3>4
      <4> QED BY <3>2, <3>4, <4>1, CellsAre
    <3> QED BY <3>3, <3>4
  <2> HIDE DEF x
  <2>4. IsFiniteSet(Cells) /\ Cardinality(Cells) \in Nat
    BY FS_CardinalityType
  <2>5. IsFiniteSet(Cells \cup {x}) /\ Cardinality(Cells \cup {x}) <= Cardinality(Cells) + 1
    BY <2>4, AddOne
  <2>6. Cells' \in SUBSET (Cells \cup {x})
    BY <2>3
  <2>7. IsFiniteSet(Cells') /\ Cardinality(Cells') <= Cardinality(Cells \cup {x})
    BY <2>5, <2>6, FS_Subset
  <2>8. Cardinality(Cells') \in Nat /\ Cardinality(Cells \cup {x}) \in Nat
    BY <2>5, <2>7, FS_CardinalityType
  <2> QED BY <2>4, <2>5, <2>7, <2>8
<1>7. \A p : IsBlocked(p)' <=> IsBlocked(p)
  <2>1. \A k \in Slots : /\ stack'[k].status = "BLOCKED" <=> stack[k].status = "BLOCKED"
                         /\ stack'[k].pid = stack[k].pid
    BY <1>1, <1>2 DEF SameProcs, Stops
  <2> QED BY <1>2, <1>3, <2>1 DEF IsBlocked
<1> QED BY <1>5, <1>6, <1>7

\* V empties a cell and lets at most one process go on.
LEMMA WakeCounts ==
  ASSUME IInv, IsFiniteSet(Cells), Executing, cpc' = "load", NEW z \in Sems,
         waiters[z] # <<>>, NEW k0, waiters' = [waiters EXCEPT ![z] = Tail(@)],
         stack' = Forward(Mark(stack, k0, "READY"))
  PROVE  /\ Cardinality(Stopped') >= Cardinality(Stopped) - 1 /\ Cardinality(Stopped') \in Nat
         /\ IsFiniteSet(Cells') /\ Cardinality(Cells') = Cardinality(Cells) - 1
         /\ \A p : IsBlocked(p)' => IsBlocked(p)
         /\ (k0 \in Slots => stack[k0].status # "BLOCKED") =>
              \A p : IsBlocked(p) => IsBlocked(p)'
<1>1. /\ SameProcs(stack, stack')
      /\ \A k \in Slots : stack'[k].status = IF k = k0 THEN "READY"
                                             ELSE stack[k].status
  BY MarkForward DEF Statuses
<1>2. Hole' = Hole
  BY KernelConstants, ExecFacts DEF Hole
<1>3. \A k \in Slots : Occupied(k)' <=> Occupied(k)
  BY <1>1 DEF SameProcs, Occupied
<1>4. Stopped' = Stopped \ {k0}
  BY <1>1, <1>2, <1>3 DEF Stopped, Stops
<1>5. Cardinality(Stopped') >= Cardinality(Stopped) - 1 /\ Cardinality(Stopped') \in Nat
  <2>1. IsFiniteSet(Stopped) /\ Cardinality(Stopped) \in Nat
    BY StoppedFinite
  <2>2. IsFiniteSet(Stopped') /\ Cardinality(Stopped') = IF k0 \in Stopped
                                 THEN Cardinality(Stopped) - 1 ELSE Cardinality(Stopped)
    BY <1>4, <2>1, FS_RemoveElement
  <2>3. Cardinality(Stopped') \in Nat
    BY <2>2, FS_CardinalityType
  <2> QED BY <2>1, <2>2, <2>3
<1>6. IsFiniteSet(Cells') /\ Cardinality(Cells') = Cardinality(Cells) - 1
  <2> DEFINE w == waiters[z]
             x == <<z, Len(w)>>
  <2>1. w \in Seq(Nat) /\ waiters \in [Sems -> Seq(Nat)]
    BY DEF IInv, TypeOK
  <2>2. /\ Len(waiters'[z]) = Len(w) - 1 /\ Len(w) \in Nat \ {0}
        /\ \A y \in Sems : y # z => waiters'[y] = waiters[y]
    BY <2>1
  <2>3. x \in Cells
    BY <2>2, CellsAre
  <2>4. \A y : y \in Cells' <=> y \in Cells /\ y # x
    <3> TAKE y
    <3>1. ASSUME y \in Cells' PROVE y \in Cells /\ y # x
      <4>1. PICK t \in Sems : \E i \in 1 .. Len(waiters'[t]) : y = <<t, i>>
        BY <3>1 DEF Cells
      <4>2. PICK i \in 1 .. Len(waiters'[t]) : y = <<t, i>>
        BY <4>1
      <4>3. CASE t # z
        BY <2>2, <4>2, <4>3, CellsAre
      <4>4. CASE t = z
        <5>1. i \in 1 .. Len(w) /\ i # Len(w)
          BY <2>2, <4>2, <4>4
        <5> QED BY <4>2, <4>4, <5>1, CellsAre
      <4> QED BY <4>3, <4>4
    <3>2. ASSUME y \in Cells, y # x PROVE y \in Cells'
      <4>1. PICK t \in Sems : \E i \in 1 .. Len(waiters[t]) : y = <<t, i>>
        BY <3>2, CellsAre
      <4>2. PICK i \in 1 .. Len(waiters[t]) : y = <<t, i>>
        BY <4>1
      <4>3. i \in 1 .. Len(waiters'[t])
        BY <2>2, <3>2, <4>2
      <4> QED BY <4>2, <4>3 DEF Cells
    <3> QED BY <3>1, <3>2
  <2> HIDE DEF x
  <2>5. Cells' = Cells \ {x}
    BY <2>4
  <2> QED BY <2>3, <2>5, FS_RemoveElement
<1>7. \A p : IsBlocked(p)' => IsBlocked(p)
  <2> SUFFICES ASSUME NEW p, NEW k \in Slots \ {Hole}, Occupied(k)',
                      stack'[k].status = "BLOCKED", stack'[k].pid = p
               PROVE  IsBlocked(p)
    BY <1>2 DEF IsBlocked
  <2>1. Occupied(k) /\ stack[k].status = "BLOCKED" /\ stack[k].pid = p
    BY <1>1, <1>3 DEF SameProcs
  <2> QED BY <2>1 DEF IsBlocked
<1>8. ASSUME k0 \in Slots => stack[k0].status # "BLOCKED"
      PROVE  \A p : IsBlocked(p) => IsBlocked(p)'
  <2> SUFFICES ASSUME NEW p, NEW k \in Slots \ {Hole}, Occupied(k),
                      stack[k].status = "BLOCKED", stack[k].pid = p
               PROVE  IsBlocked(p)'
    BY DEF IsBlocked
  <2>1. /\ Occupied(k)' /\ k # k0 /\ k \in Slots \ {Hole'}
        /\ stack'[k].status = "BLOCKED" /\ stack'[k].pid = p
    BY <1>1, <1>2, <1>3, <1>8 DEF SameProcs
  <2> QED BY <2>1 DEF IsBlocked
<1> QED BY <1>5, <1>6, <1>7, <1>8

\* disk_request adds one request, and disk_finish takes one.
LEMMA IoCounts ==
  ASSUME IInv, IsFiniteSet(Requests), NEW pid
  PROVE  /\ io' = [io EXCEPT ![pid] = @ + 1] =>
              IsFiniteSet(Requests') /\ Cardinality(Requests') <= Cardinality(Requests) + 1
         /\ pid \in Pids /\ io[pid] > 0 /\ io' = [io EXCEPT ![pid] = @ - 1] =>
              IsFiniteSet(Requests') /\ Cardinality(Requests') <= Cardinality(Requests) - 1
<1>1. io \in [Pids -> Nat] /\ Cardinality(Requests) \in Nat
  BY FS_CardinalityType DEF IInv, TypeOK
<1>2. \A x : x \in Requests <=> \E p \in Pids : \E n \in 1 .. io[p] : x = <<p, n>>
  BY DEF Requests
<1>3. \A x : x \in Requests' <=> \E p \in Pids : \E n \in 1 .. io'[p] : x = <<p, n>>
  BY DEF Requests
<1>4. ASSUME io' = [io EXCEPT ![pid] = @ + 1]
      PROVE  IsFiniteSet(Requests') /\ Cardinality(Requests') <= Cardinality(Requests) + 1
  <2> DEFINE x == <<pid, io[pid] + 1>>
             R == Requests \cup {x}
  <2>1. \A y \in Requests' : y \in R
    <3> SUFFICES ASSUME NEW p \in Pids, NEW n \in 1 .. io'[p] PROVE <<p, n>> \in R
      BY <1>3
    <3>1. CASE p # pid
      BY <1>1, <1>2, <1>4, <3>1
    <3>2. CASE p = pid
      <4>1. n \in 1 .. io[p] \/ n = io[p] + 1
        BY <1>1, <1>4, <3>2
      <4> QED BY <1>2, <3>2, <4>1
    <3> QED BY <3>1, <3>2
  <2> HIDE DEF x
  <2>2. IsFiniteSet(R) /\ Cardinality(R) <= Cardinality(Requests) + 1
    BY <1>1, AddOne
  <2>3. Requests' \in SUBSET R
    BY <2>1
  <2> HIDE DEF R
  <2>4. IsFiniteSet(Requests') /\ Cardinality(Requests') <= Cardinality(R)
    BY <2>2, <2>3, FS_Subset
  <2>5. Cardinality(Requests') \in Nat /\ Cardinality(R) \in Nat
    BY <2>2, <2>4, FS_CardinalityType
  <2> QED BY <1>1, <2>2, <2>4, <2>5
<1>5. ASSUME pid \in Pids, io[pid] > 0, io' = [io EXCEPT ![pid] = @ - 1]
      PROVE  IsFiniteSet(Requests') /\ Cardinality(Requests') <= Cardinality(Requests) - 1
  <2> DEFINE x == <<pid, io[pid]>>
             R == Requests \ {x}
  <2>1. x \in Requests
    BY <1>1, <1>2, <1>5
  <2>2. \A y \in Requests' : y \in R
    <3> SUFFICES ASSUME NEW p \in Pids, NEW n \in 1 .. io'[p] PROVE <<p, n>> \in R
      BY <1>3
    <3>1. CASE p # pid
      BY <1>1, <1>2, <1>5, <3>1
    <3>2. CASE p = pid
      <4>1. n \in 1 .. io[p] /\ n # io[p]
        BY <1>1, <1>5, <3>2
      <4> QED BY <1>2, <3>2, <4>1
    <3> QED BY <3>1, <3>2
  <2> HIDE DEF x
  <2>3. IsFiniteSet(R) /\ Cardinality(R) = Cardinality(Requests) - 1
    BY <2>1, FS_RemoveElement
  <2>4. Requests' \in SUBSET R
    BY <2>2
  <2> HIDE DEF R
  <2> QED BY <2>3, <2>4, FS_Subset
<1> QED BY <1>4, <1>5

\* Every step that takes a cell or a request stops a process, and every step
\* that lets one go on gives one back.
LEMMA ClaimsStep ==
  ASSUME IInv, SelectInv, ClaimsInv, [Next]_vars
  PROVE  ClaimsInv'
<1>1. /\ IsFiniteSet(Cells) /\ IsFiniteSet(Requests)
      /\ Cardinality(Cells) + Cardinality(Requests) + Finishing <= Cardinality(Stopped)
      /\ Cardinality(Cells) \in Nat /\ Cardinality(Requests) \in Nat
      /\ Cardinality(Stopped) \in Nat
  BY StoppedFinite, FS_CardinalityType DEF ClaimsInv
<1>2. ~ExecDisk /\ ~FinishWrite /\ ~(\E pid \in Pids : FinishFind(pid))
      => UNCHANGED <<io, dpc>>
  BY DEF Next, CpuThread, RenderThread, DiskThread, Tick, NoRunning, ReapScan, Shift,
         ReapDone, Select, SelectFault, Dispatch, Kill, ExecNull, ExecCompute, ExecOther,
         ExecP, ExecV, Hang, ExecDiskMiss, Load, LoadBroken, Submit, SubmitBroken,
         SubmitAppend, SubmitLog, DrawFault, FinishFault, UnblockFault, Fault, vars, dskVars
<1>3. ASSUME SameStops, waiters' = waiters, UNCHANGED <<io, dpc>> PROVE ClaimsInv'
  <2>1. Cells' = Cells /\ Requests' = Requests /\ Finishing' = Finishing
    BY <1>3 DEF Cells, Requests, Finishing
  <2> QED BY <1>1, <1>3, <2>1 DEF ClaimsInv, SameStops
<1>4. CASE CalmStep
  <2>1. SameStops /\ waiters' = waiters
    BY <1>4, CalmSteps, CalmTable
  <2>2. ~ExecDisk /\ ~FinishWrite /\ ~(\E pid \in Pids : FinishFind(pid)) =>
        UNCHANGED <<io, dpc>>
    BY <1>2
  <2>3. UNCHANGED <<io, dpc>>
    BY <1>4 DEF CalmStep, Tick, NoRunning, ReapScan, ReapDone, Select, Fault, Dispatch, Kill,
                ExecCompute, ExecOther, Hang, Load, Submit, SubmitLog, dskVars
  <2> QED BY <1>3, <2>1, <2>3
<1>5. CASE (ReapScan /\ stack[ci].status = "KILL") \/ Shift
           \/ SubmitAppend \/ (Load /\ ~UNCHANGED pcbVars)
  <2>1. SameStops /\ waiters' = waiters
    BY <1>5, ReapStops, CopyStops, EndStops, CreateStops
  <2>2. UNCHANGED <<io, dpc>>
    BY <1>5 DEF ReapScan, Shift, SubmitAppend, Load, dskVars
  <2> QED BY <1>3, <2>1, <2>2
<1>6. CASE ExecP \/ ExecV
  <2>1. /\ Executing /\ cpc' = "load" /\ UNCHANGED <<io, dpc>> /\ Hole' = Hole
    BY <1>6, KernelConstants, ExecFacts
       DEF ExecP, ExecV, CanRun, At, Executing, dskVars, Hole
  <2>2. Requests' = Requests /\ Finishing' = Finishing
    BY <2>1 DEF Requests, Finishing
  <2>3. CASE stack' = Forward(stack) /\ waiters' = waiters
    <3>1. SameStops
      BY <2>1, <2>3, ForwardCalm, CalmTable
    <3> QED BY <1>3, <2>1, <2>3, <3>1
  <2>4. CASE ExecP /\ ~(stack' = Forward(stack) /\ waiters' = waiters)
    <3>1. PICK z \in sems :
            /\ waiters' = [waiters EXCEPT ![z] = waiter_push(@, stack[csel].pid)]
            /\ stack' = Forward(Mark(stack, csel, "WAITING"))
      BY <2>4, PWaits
    <3>2. z \in Sems
      BY DEF IInv, TypeOK
    <3>3. /\ Cardinality(Stopped') = Cardinality(Stopped) + 1
          /\ IsFiniteSet(Cells') /\ Cardinality(Cells') <= Cardinality(Cells) + 1
      BY <1>1, <2>1, <3>1, <3>2, WaitCounts
    <3>4. Cardinality(Cells') \in Nat
      BY <3>3, FS_CardinalityType
    <3> QED BY <1>1, <2>2, <3>3, <3>4 DEF ClaimsInv, Finishing
  <2>5. CASE ExecV /\ ~(stack' = Forward(stack) /\ waiters' = waiters)
    <3>1. PICK z \in sems :
            /\ waiters[z] # <<>> /\ waiters' = [waiters EXCEPT ![z] = Tail(@)]
            /\ stack' = Forward(Mark(stack, p_find(Head(waiters[z])), "READY"))
      BY <2>5, VWakes
    <3>2. z \in Sems
      BY DEF IInv, TypeOK
    <3>3. /\ Cardinality(Stopped') >= Cardinality(Stopped) - 1 /\ Cardinality(Stopped') \in Nat
          /\ IsFiniteSet(Cells') /\ Cardinality(Cells') = Cardinality(Cells) - 1
      BY <1>1, <2>1, <3>1, <3>2, WakeCounts
    <3> QED BY <1>1, <2>2, <3>3 DEF ClaimsInv, Finishing
  <2> QED BY <1>6, <2>3, <2>4, <2>5
<1>7. CASE ExecDisk
  <2>1. /\ Executing /\ waiters' = waiters /\ dpc' = dpc /\ cpc' = "load"
        /\ io' = [io EXCEPT ![Running.pid] = @ + 1]
    BY <1>7 DEF ExecDisk, CanRun, At, Executing, semVars
  <2>2. /\ p_find(Running.pid) = csel /\ csel \in Slots \ {Hole} /\ Occupied(csel)
        /\ Hole' = Hole /\ stack[csel].status \notin Stops
    BY <2>1, KernelConstants, ExecFacts, FindRunning DEF SelectInv, Hole
  <2>3. Stopped' = Stopped \cup {csel} /\ csel \notin Stopped
    BY <1>7, <2>2, KernelConstants, BlockTable DEF Stopped, Stops, SameProcs, Occupied
  <2>4. Cardinality(Stopped') = Cardinality(Stopped) + 1
    BY <2>3, StoppedFinite, FS_AddElement
  <2>5. IsFiniteSet(Requests') /\ Cardinality(Requests') <= Cardinality(Requests) + 1
    BY <1>1, <2>1, IoCounts
  <2>6. Cardinality(Requests') \in Nat
    BY <2>5, FS_CardinalityType
  <2>7. Cells' = Cells /\ Finishing' = Finishing
    BY <2>1 DEF Cells, Finishing
  <2> QED BY <1>1, <2>4, <2>5, <2>6, <2>7 DEF ClaimsInv, Finishing
<1>8. ASSUME NEW pid \in Pids, FinishFind(pid) PROVE ClaimsInv'
  <2>1. /\ UNCHANGED <<stack, waiters, cpc, cj>> /\ dpc = "idle" /\ dpc' = "write"
        /\ io[pid] > 0 /\ io' = [io EXCEPT ![pid] = @ - 1]
    BY <1>8 DEF FinishFind, p_unblock, pcbVars, cpuVars, semVars
  <2>2. Cells' = Cells /\ Stopped' = Stopped /\ Finishing = 0 /\ Finishing' = 1
    BY <2>1 DEF Cells, Stopped, Hole, Occupied, Finishing
  <2>3. IsFiniteSet(Requests') /\ Cardinality(Requests') <= Cardinality(Requests) - 1
    BY <1>1, <2>1, IoCounts
  <2>4. Cardinality(Requests') \in Nat
    BY <2>3, FS_CardinalityType
  <2> QED BY <1>1, <2>2, <2>3, <2>4 DEF ClaimsInv
<1>9. CASE FinishWrite
  <2>1. /\ stack' = Mark(stack, dptr, "READY") /\ UNCHANGED <<waiters, io, cpc, cj>>
        /\ dpc = "write" /\ dpc' = "idle"
    BY <1>9 DEF FinishWrite, cpuVars, semVars
  <2>2. Cells' = Cells /\ Requests' = Requests /\ Finishing = 1 /\ Finishing' = 0
    BY <2>1 DEF Cells, Requests, Finishing
  <2>3. Stopped' = Stopped \ {dptr}
    BY <2>1, TypedTable, MarkTable DEF Stopped, Stops, SameProcs, Occupied, Hole, Statuses
  <2>4. Cardinality(Stopped') >= Cardinality(Stopped) - 1 /\ Cardinality(Stopped') \in Nat
    <3>1. IsFiniteSet(Stopped')
            /\ Cardinality(Stopped') = IF dptr \in Stopped
                                       THEN Cardinality(Stopped) - 1 ELSE Cardinality(Stopped)
      BY <2>3, StoppedFinite, FS_RemoveElement
    <3>2. Cardinality(Stopped') \in Nat
      BY <3>1, FS_CardinalityType
    <3> QED BY <1>1, <3>1, <3>2
  <2> QED BY <1>1, <2>2, <2>4 DEF ClaimsInv
<1>10. CASE UNCHANGED vars
  <2>1. UNCHANGED <<stack, waiters, cpc, cj, io, dpc>>
    BY <1>10 DEF vars, pcbVars, cpuVars, dskVars, semVars
  <2> QED BY <2>1 DEF ClaimsInv, Cells, Requests, Finishing, Stopped, Hole, Occupied
<1> QED BY <1>4, <1>5, <1>6, <1>7, <1>8, <1>9, <1>10
        DEF Next, CpuThread, RenderThread, DiskThread, SelectFault, ExecNull, ExecDiskMiss,
            LoadBroken, SubmitBroken, DrawFault, FinishFault, UnblockFault, CalmStep

\* No more cells are in use than processes are stopped.
LEMMA CellsCharged ==
  ASSUME IInv, ClaimsInv
  PROVE  IsFiniteSet(Cells) /\ Cardinality(Cells) <= Cardinality(Stopped)
<1>1. /\ IsFiniteSet(Cells) /\ IsFiniteSet(Requests)
      /\ Cardinality(Cells) + Cardinality(Requests) + Finishing <= Cardinality(Stopped)
  BY DEF ClaimsInv
<1>2. /\ Cardinality(Cells) \in Nat /\ Cardinality(Requests) \in Nat
      /\ Cardinality(Stopped) \in Nat
  BY <1>1, StoppedFinite, FS_CardinalityType
<1> QED BY <1>1, <1>2 DEF Finishing

\* A ring is no longer than there are other processes: when P or V runs, every
\* ring has room.
LEMMA RingsShort ==
  ASSUME MAX_PCB <= WAITERS_NUM, IInv, SelectInv, Executing,
         IsFiniteSet(Cells), Cardinality(Cells) <= Cardinality(Stopped)
  PROVE  RingHasRoom /\ \A s \in Sems : Len(waiters[s]) < MAX_PCB - 1
<1>0. WAITERS_NUM \in Nat /\ MAX_PCB \in Nat
  BY KernelConstants DEF KernelConstants
<1>1. Cardinality(Cells) < MAX_PCB - 1 /\ Cardinality(Cells) \in Nat
  <2>1. Cardinality(Stopped) < MAX_PCB - 1 /\ Cardinality(Stopped) \in Nat
    BY StoppedFinite
  <2>2. Cardinality(Cells) \in Nat
    BY FS_CardinalityType
  <2> QED BY <1>0, <2>1, <2>2
<1>2. ASSUME NEW s \in Sems PROVE Len(waiters[s]) <= Cardinality(Cells)
  <2> DEFINE n == Len(waiters[s])
             f == [i \in 1 .. n |-> <<s, i>>]
  <2>1. n \in Nat
    BY DEF IInv, TypeOK
  <2>2. f \in [1 .. n -> Cells] /\ \A x, y \in 1 .. n : f[x] = f[y] => x = y
    BY CellsAre
  <2> HIDE DEF f, n
  <2>3. Cardinality(1 .. n) <= Cardinality(Cells)
    BY <2>2, NotMore
  <2>4. Cardinality(1 .. n) = n
    <3>1. Cardinality(1 .. n) = IF 1 > n THEN 0 ELSE n - 1 + 1
      BY <2>1, FS_Interval
    <3> QED BY <2>1, <3>1
  <2> QED BY <2>3, <2>4 DEF n
<1>3. \A s \in Sems : Len(waiters[s]) \in Nat
  BY DEF IInv, TypeOK
<1>4. \A s \in Sems : Len(waiters[s]) < MAX_PCB - 1
  BY <1>0, <1>1, <1>2, <1>3
<1>5. \A s \in Sems : Len(waiters[s]) + 1 < WAITERS_NUM
  <2> TAKE s \in Sems
  <2> QED BY <1>0, <1>3, <1>4
<1> QED BY <1>4, <1>5 DEF RingHasRoom

-----------------------------------------------------------------------------
(* What is proved of the semaphores. *)

\* Values count the rings, so they are not below what the i8 holds either.
LEMMA ValuesFit ==
  ASSUME MAX_PCB <= WAITERS_NUM, MAX_PCB <= I8_MAX + 2, IInv, SelectInv, Executing,
         IsFiniteSet(Cells), Cardinality(Cells) <= Cardinality(Stopped),
         ValueCountsWaiters, \A s \in Sems : value[s] < I8_MAX
  PROVE  RoomLeft
<1>1. RingHasRoom /\ \A s \in Sems : Len(waiters[s]) < MAX_PCB - 1
  BY RingsShort
<1>2. /\ \A s \in Sems : value[s] \in Int /\ Len(waiters[s]) \in Nat
      /\ MAX_PCB \in Nat /\ I8_MAX \in Nat
  BY KernelConstants DEF IInv, TypeOK, KernelConstants
<1>3. \A s \in Sems : value[s] \in -I8_MAX .. I8_MAX - 1
  <2> TAKE s \in Sems
  <2>1. Len(waiters[s]) < MAX_PCB - 1 /\ Len(waiters[s]) = IF value[s] < 0 THEN -value[s] ELSE 0
    BY <1>1 DEF ValueCountsWaiters
  <2> QED BY <1>2, <2>1
<1> QED BY <1>1, <1>3 DEF RoomLeft

\* P and V are executed by the CPU.
LEMMA PVExecute == ExecP \/ ExecV => Executing
BY DEF ExecP, ExecV, CanRun, At, Executing

\* Programs that pair P and V keep the values at 1 or below.
LEMMA ValuesLow ==
  ASSUME IInv, CountInv, UnnamedInv
  PROVE  \A s \in Sems : value[s] <= 1
<1> TAKE s \in Sems
<1>1. value[s] \in Int /\ IsFiniteSet(InsideOf(s))
  <2>1. InsideOf(s) \subseteq Live
    BY DEF InsideOf
  <2> QED BY <2>1, KernelConstants, LiveFinite, FS_Subset DEF IInv, TypeOK
<1>2. Cardinality(InsideOf(s)) \in Nat
  BY <1>1, FS_CardinalityType
<1> QED BY <1>1, <1>2 DEF CountInv, UnnamedInv

\* What the start gives.
LEMMA InitSems ==
  ASSUME Init
  PROVE  /\ SelectInv /\ ClaimsInv /\ RingsInv /\ UnnamedInv /\ InsideInv /\ OriginInv
         /\ IdleDisk
         /\ WaitingIsQueued /\ ValueCountsWaiters
<1>1. /\ \A k \in Slots : stack[k] = ZeroSlot /\ ~Occupied(k)
      /\ \A s \in Sems : waiters[s] = <<>> /\ value[s] = 0
      /\ sems = {} /\ rpc = "idle" /\ dpc = "idle" /\ cpc = "sleep"
  BY ZeroSlotType DEF Init, Occupied
<1>2. SelectInv /\ UnnamedInv /\ WaitingIsQueued /\ ValueCountsWaiters
  BY <1>1 DEF SelectInv, UnnamedInv, WaitingIsQueued, ValueCountsWaiters
<1>3. RingsInv
  BY <1>1 DEF RingsInv
<1>4. CountInv /\ NamedInv /\ AtInv /\ HoldsInv
  BY <1>1 DEF CountInv, NamedInv, AtInv, HoldsInv, Holds
<1>5. OriginInv /\ IdleDisk
  BY <1>1 DEF OriginInv, IdleDisk, Init
<1>6. ClaimsInv
  <2>1. Cells = {} /\ Requests = {} /\ Stopped = {} /\ Finishing = 0
    BY <1>1 DEF Init, Cells, Requests, Stopped, Finishing
  <2> QED BY <2>1, FS_EmptySet DEF ClaimsInv
<1> QED BY <1>2, <1>3, <1>4, <1>5, <1>6 DEF InsideInv

\* One more step of everything about rings and values.
LEMMA InsideStep ==
  ASSUME WellFormed, MAX_PCB <= I8_MAX + 3, ExclusionInv, FinishWrite => NoStrayWake,
         [Next]_vars, ~Stray
  PROVE  ExclusionInv'
<1>1. IInv /\ SelectInv /\ RingsInv /\ CountInv /\ NamedInv /\ AtInv /\ HoldsInv /\ InsideInv
  BY DEF ExclusionInv, InsideInv
<1>2. IInv' /\ SelectInv' /\ RingsInv'
  BY <1>1, KernelConstants, NextInv, SelectStep, RingsStep
<1>3. CASE ExecP
  BY <1>1, <1>2, <1>3, PInside DEF ExclusionInv
<1>4. CASE ExecV
  BY <1>1, <1>2, <1>4, VInside DEF ExclusionInv
<1>5. CASE ~ExecP /\ ~ExecV
  <2>1. CountInv'
    BY <1>1, <1>2, <1>5, CountOther
  <2>2. NamedInv'
    BY <1>1, <1>5, NamedStep
  <2>3. AtInv'
    BY <1>1, <1>5, AtOther
  <2>4. HoldsInv'
    BY <1>1, <1>2, <1>5, HoldsOther
  <2> QED BY <1>2, <2>1, <2>2, <2>3, <2>4 DEF ExclusionInv, InsideInv
<1> QED BY <1>3, <1>4, <1>5

\* All holders are one process.
LEMMA OneHolder == HoldsInv => Exclusion
<1> SUFFICES ASSUME HoldsInv, NEW s \in Sems
             PROVE  Cardinality({stack[k].pid : k \in {l \in Slots : Holds(l, s)}}) <= 1
  BY DEF Exclusion
<1> DEFINE pids == {stack[k].pid : k \in {l \in Slots : Holds(l, s)}}
<1>1. \A x, y \in pids : x = y
  BY DEF HoldsInv
<1>2. pids = {} \/ \E x : pids = {x}
  BY <1>1
<1> HIDE DEF pids
<1>3. Cardinality(pids) = 0 \/ Cardinality(pids) = 1
  BY <1>2, FS_EmptySet, FS_Singleton
<1> QED BY <1>3 DEF pids

\* A process that waits is queued: the ring of a semaphore never overflows, as
\* every cell of it is charged to a stopped process of its own.
THEOREM WaitersAreQueued ==
  ASSUME MAX_PCB <= WAITERS_NUM
  PROVE  Spec => []WaitingIsQueued
<1>1. Init => SelectInv /\ ClaimsInv /\ WaitingIsQueued
  BY InitSems
<1>2. /\ IInv /\ SelectInv /\ ClaimsInv /\ WaitingIsQueued /\ [Next]_vars
      => SelectInv' /\ ClaimsInv' /\ WaitingIsQueued'
  <2> SUFFICES ASSUME IInv, SelectInv, ClaimsInv, WaitingIsQueued, [Next]_vars
               PROVE  SelectInv' /\ ClaimsInv' /\ WaitingIsQueued'
    OBVIOUS
  <2>1. ExecP => RingHasRoom
    BY PVExecute, RingsShort, CellsCharged
  <2> QED BY <2>1, SelectStep, ClaimsStep, QueuedStep
<1> QED BY <1>1, <1>2, InvariantHolds, PTL DEF Spec

\* Unless V is called I8_MAX times more than P, the value of a semaphore counts
\* the processes in its ring, whatever order disk, user and scheduler take.
THEOREM ValuesCountWaiters ==
  ASSUME MAX_PCB <= WAITERS_NUM, MAX_PCB <= I8_MAX + 2
  PROVE  Spec /\ [](\A s \in Sems : value[s] < I8_MAX) => []ValueCountsWaiters
<1> DEFINE Low == \A s \in Sems : value[s] < I8_MAX
<1>1. Init => SelectInv /\ ClaimsInv /\ UnnamedInv /\ ValueCountsWaiters
  BY InitSems
<1>2. /\ IInv /\ SelectInv /\ ClaimsInv /\ UnnamedInv /\ ValueCountsWaiters
      /\ Low /\ [Next]_vars
      => SelectInv' /\ ClaimsInv' /\ UnnamedInv' /\ ValueCountsWaiters'
  <2> SUFFICES ASSUME IInv, SelectInv, ClaimsInv, UnnamedInv, ValueCountsWaiters, Low,
                      [Next]_vars
               PROVE  SelectInv' /\ ClaimsInv' /\ UnnamedInv' /\ ValueCountsWaiters'
    OBVIOUS
  <2>1. ExecP \/ ExecV => RoomLeft
    BY PVExecute, ValuesFit, CellsCharged
  <2> QED BY <2>1, SelectStep, ClaimsStep, ValueStep
<1> HIDE DEF Low
<1>3. Spec /\ []Low => []ValueCountsWaiters
  BY <1>1, <1>2, InvariantHolds, PTL DEF Spec
<1> QED BY <1>3 DEF Low

\* Between a program's P and its V no other program is inside, for any programs
\* that pair them and any contents of the pages behind them, as long as no late
\* disk answer wakes a waiting process, up to the first P, V or disk request of a
\* process that has been killed.
THEOREM MutualExclusion ==
  ASSUME WellFormed, MAX_PCB <= I8_MAX + 3
  PROVE  HistSpec /\ []NoStrayWake => []ExclusionUnlessStray
<1> DEFINE J == stray \/ ExclusionInv
<1>1. HistInit => J
  BY KernelConstants, InitInv, InitSems DEF ExclusionInv, HistInit
<1>2. J /\ NoStrayWake /\ [HistNext]_strayVars => J'
  <2>1. ASSUME J, NoStrayWake, HistNext, ~stray' PROVE J'
    <3>1. Next /\ ~Stray /\ ExclusionInv
      BY <2>1 DEF HistNext
    <3> QED BY <2>1, <3>1, InsideStep
  <2>2. ASSUME J, NoStrayWake, UNCHANGED strayVars, ~stray' PROVE J'
    <3>1. UNCHANGED vars /\ ExclusionInv
      BY <2>2 DEF strayVars
    <3> QED BY <2>2, <3>1, StillOwn, InsideStep
  <2> QED BY <2>1, <2>2
<1>3. J => ExclusionUnlessStray
  BY OneHolder DEF ExclusionInv, InsideInv, ExclusionUnlessStray
<1> HIDE DEF J
<1> QED BY <1>1, <1>2, <1>3, PTL DEF HistSpec

\* In a batch without disk instructions no answer of the disk comes late: up to
\* that first P or V of a killed process its semaphores exclude and keep count.
THEOREM BatchSynchronises ==
  ASSUME WellFormed, NoDisk, MAX_PCB <= WAITERS_NUM, MAX_PCB <= I8_MAX + 2, I8_MAX > 1
  PROVE  HistSpec => [](ExclusionUnlessStray /\ (stray \/ ValueCountsWaiters))
<1> DEFINE K == /\ ExclusionInv /\ ClaimsInv /\ UnnamedInv /\ OriginInv /\ IdleDisk
                /\ ValueCountsWaiters
           J == stray \/ K
<1>1. HistInit => J
  BY KernelConstants, InitInv, InitSems DEF ExclusionInv, HistInit
<1>2. K /\ [Next]_vars /\ ~Stray => K'
  <2> SUFFICES ASSUME K, [Next]_vars, ~Stray PROVE K'
    OBVIOUS
  <2>1. IInv /\ SelectInv /\ RingsInv /\ CountInv /\ NoStrayWake
    BY DEF ExclusionInv, InsideInv, IdleDisk, NoStrayWake
  <2>2. ExclusionInv'
    <3>1. MAX_PCB <= I8_MAX + 3
      BY KernelConstants DEF KernelConstants
    <3> QED BY <2>1, <3>1, InsideStep
  <2>3. OriginInv' /\ IdleDisk' /\ ClaimsInv'
    BY <2>1, OriginStep, IdleDiskStep, ClaimsStep
  <2>4. \A s \in Sems : value[s] < I8_MAX
    <3>1. \A s \in Sems : value[s] <= 1 /\ value[s] \in Int
      BY <2>1, ValuesLow DEF IInv, TypeOK
    <3> QED BY <3>1, KernelConstants DEF KernelConstants
  <2>5. ExecP \/ ExecV => RoomLeft
    BY <2>1, <2>4, PVExecute, ValuesFit, CellsCharged
  <2>6. UnnamedInv' /\ ValueCountsWaiters'
    BY <2>1, <2>5, ValueStep
  <2> QED BY <2>2, <2>3, <2>6
<1> HIDE DEF K
<1>3. J /\ [HistNext]_strayVars => J'
  <2>1. ASSUME K, [Next]_vars, ~Stray PROVE J'
    BY <1>2, <2>1
  <2>2. ASSUME K, UNCHANGED vars PROVE J'
    BY <1>2, <2>2, StillOwn
  <2>3. ASSUME stray, HistNext \/ UNCHANGED strayVars PROVE J'
    BY <2>3 DEF HistNext, strayVars
  <2>4. ASSUME K, HistNext PROVE J'
    BY <2>1, <2>4 DEF HistNext
  <2> QED BY <2>2, <2>3, <2>4 DEF strayVars
<1>4. J => ExclusionUnlessStray /\ (stray \/ ValueCountsWaiters)
  BY OneHolder DEF K, ExclusionInv, InsideInv, ExclusionUnlessStray
<1> HIDE DEF J
<1> QED BY <1>1, <1>3, <1>4, PTL DEF HistSpec

-----------------------------------------------------------------------------
(* How far the processes have come. *)

\* A process that has not moved on; a change of the table in which at most the
\* selected one does.
Unmoved(p, q) == q.prog = p.prog /\ q.PC = p.PC /\ q.rem = p.rem
Resting(t, u) == SameProcs(t, u) /\ \A k \in Slots : Unmoved(t[k], u[k])
Moving(t, u) ==
  /\ SameProcs(t, u)
  /\ \A k \in Slots :
       \/ Unmoved(t[k], u[k])
       \/ k = csel /\ u[k].PC \in {t[k].PC, NextPC(t[k])} /\ Fresh(u[k])

\* A status is all that Mark writes.
LEMMA MarkRests ==
  ASSUME NEW t \in Tables, NEW x, NEW s \in Statuses
  PROVE  Resting(t, Mark(t, x, s))
<1>1. SameProcs(t, Mark(t, x, s))
  BY MarkTable
<1>2. ASSUME NEW k \in Slots PROVE Unmoved(t[k], Mark(t, x, s)[k])
  <2>1. t[k] \in Process
    BY DEF Tables
  <2>2. Mark(t, x, s)[k] = IF k = x THEN [t[k] EXCEPT !.status = s] ELSE t[k]
    BY DEF Tables, Mark
  <2> QED BY <2>1, <2>2 DEF Process, Unmoved
<1> QED BY <1>1, <1>2 DEF Resting

\* A process that moves on begins its next instruction.
LEMMA AdvanceFresh ==
  ASSUME NEW p \in Process, p.prog # NoProg
  PROVE  Fresh(Advance(p))
<1>1. p.prog \in Programs /\ p.PC \in Nat /\ Len(Code[p.prog]) \in Nat
  BY KernelConstants DEF Process, KernelConstants
<1> DEFINE q == Advance(p)
<1>2. q.prog = p.prog /\ q.PC = NextPC(p)
  BY KernelConstants, AdvanceKeeps
<1>3. q.rem = TimeAt(p.prog, p.PC + 1)
  BY DEF Advance, Process
<1> HIDE DEF q
<1>4. q.PC < Len(Code[q.prog]) => q.PC = p.PC + 1 /\ q.rem = Code[q.prog][q.PC + 1].t
  BY <1>1, <1>2, <1>3 DEF NextPC, TimeAt
<1> QED BY <1>4 DEF Fresh, q

\* The step forward of a table in which only statuses were written.
LEMMA ForwardMoves ==
  ASSUME IInv, Executing, NEW t, Resting(stack, t)
  PROVE  Moving(stack, Forward(t))
<1>1. t \in Tables /\ csel \in Slots /\ t[csel].prog # NoProg /\ t[csel] \in Process
  BY KernelConstants, ExecFacts DEF Resting, SameProcs, Tables
<1>2. /\ SameProcs(t, Forward(t))
      /\ \A k \in Slots : Forward(t)[k].PC = IF k = csel THEN NextPC(t[k]) ELSE t[k].PC
  BY <1>1, KernelConstants, ForwardTable
<1>3. \A k \in Slots : Forward(t)[k] = IF k = csel THEN Advance(t[csel]) ELSE t[k]
  BY <1>1, SMTT(60) DEF Tables, Forward
<1>4. Fresh(Forward(t)[csel]) /\ Forward(t)[csel].PC = NextPC(stack[csel])
  <2>1. NextPC(t[csel]) = NextPC(stack[csel])
    BY <1>1 DEF Resting, Unmoved, NextPC
  <2> QED BY <1>1, <1>2, <1>3, <2>1, AdvanceFresh
<1>5. SameProcs(stack, Forward(t))
  BY <1>2 DEF Resting, SameProcs
<1>6. \A k \in Slots : k # csel => Unmoved(stack[k], Forward(t)[k])
  BY <1>3 DEF Resting
<1> QED BY <1>4, <1>5, <1>6 DEF Moving

\* process_exec leaves an exec instruction half done, or moves on.
LEMMA ComputeMoves == ASSUME IInv, ExecCompute PROVE Moving(stack, stack')
<1>1. Executing
  BY DEF ExecCompute, CanRun, At, Executing
<1>2. PICK c \in Fetch :
        LET l == IF c.t < TIME_SLICE THEN c.t ELSE TIME_SLICE
            left == c.t - l
            ran == [stack[csel] EXCEPT !.h = (@ + 1) % H_MOD, !.rem = left]
            worked == IF l >= MAX_TIME_MORE_PAGES THEN p_realloc(ran) ELSE ran
        IN  /\ c.op = "exec"
            /\ stack' = [stack EXCEPT ![csel] = IF left > 0 THEN worked ELSE Advance(worked)]
  BY DEF ExecCompute, Running
<1> DEFINE l == IF c.t < TIME_SLICE THEN c.t ELSE TIME_SLICE
           left == c.t - l
           p == stack[csel]
           ran == [p EXCEPT !.h = (@ + 1) % H_MOD, !.rem = left]
           worked == IF l >= MAX_TIME_MORE_PAGES THEN p_realloc(ran) ELSE ran
           q == IF left > 0 THEN worked ELSE Advance(worked)
<1>3. left \in Nat
  BY <1>1, FetchType, KernelConstants DEF KernelConstants
<1>4. p \in Process /\ csel \in Slots /\ stack \in Tables /\ p.prog # NoProg
  BY <1>1, ExecFacts, KernelConstants
<1>5. (p.h + 1) % H_MOD \in Nat
  BY <1>4, KernelConstants DEF Process, KernelConstants
<1> HIDE DEF left
<1>6. worked \in Process /\ worked.prog = p.prog /\ worked.PC = p.PC
  BY <1>3, <1>4, <1>5 DEF Process, p_realloc
<1> HIDE DEF worked
<1>7. p.PC < Len(Code[p.prog]) => Code[p.prog][p.PC + 1].op = "exec"
  <2>1. c.op = "exec"
    BY <1>2
  <2> QED BY <1>1, <2>1, FetchOp DEF Running
<1>8. Fresh(q) /\ q.PC \in {p.PC, NextPC(p)}
  <2>1. CASE left > 0
    BY <1>6, <1>7, <2>1 DEF Fresh
  <2>2. CASE ~(left > 0)
    <3>1. q = Advance(worked) /\ NextPC(worked) = NextPC(p)
      BY <1>6, <2>2 DEF NextPC
    <3> QED BY <1>4, <1>6, <3>1, AdvanceFresh, AdvanceKeeps, KernelConstants
  <2> QED BY <2>1, <2>2
<1>9. stack' = [stack EXCEPT ![csel] = q]
  BY <1>2 DEF worked, left
<1> HIDE DEF q
<1>10. stack'[csel] = q /\ \A k \in Slots : k # csel => stack'[k] = stack[k]
  BY <1>4, <1>9 DEF Tables
<1>11. SameProcs(stack, stack')
  BY KernelConstants, ComputeTable
<1> QED BY <1>8, <1>10, <1>11 DEF Moving, Unmoved

\* disk_request counts the request, blocks the process and moves it on.
LEMMA RequestMoves == ASSUME IInv, ExecDisk PROVE Moving(stack, stack')
<1>1. Executing
  BY DEF ExecDisk, CanRun, At, Executing
<1> DEFINE counted == [stack EXCEPT ![csel].rw = IF @ < RW_MAX THEN @ + 1 ELSE @]
           marked == Mark(counted, p_find(Running.pid), "BLOCKED")
<1>2. stack' = Forward(marked)
  BY DEF ExecDisk
<1>3. Resting(stack, counted)
  <2>1. /\ stack \in Tables /\ csel \in Slots /\ stack[csel] \in Process
        /\ stack[csel].rw \in Nat
    BY <1>1, ExecFacts, KernelConstants DEF Process
  <2> DEFINE n == IF stack[csel].rw < RW_MAX THEN stack[csel].rw + 1 ELSE stack[csel].rw
             q == [stack[csel] EXCEPT !.rw = n]
  <2>2. counted = [stack EXCEPT ![csel] = q]
    OBVIOUS
  <2>3. n \in Nat
    BY <2>1, KernelConstants DEF KernelConstants
  <2> HIDE DEF n
  <2>4. /\ q \in Process /\ q.pid = stack[csel].pid /\ q.prog = stack[csel].prog
        /\ q.PC = stack[csel].PC /\ q.rem = stack[csel].rem
    BY <2>1, <2>3 DEF Process
  <2> HIDE DEF q
  <2>5. \A k \in Slots : counted[k] = IF k = csel THEN q ELSE stack[k]
    BY <2>1, <2>2 DEF Tables, q
  <2>6. counted \in Tables
    BY <2>1, <2>2, <2>4 DEF Tables, q
  <2> HIDE DEF counted
  <2> QED BY <2>4, <2>5, <2>6 DEF SameProcs, Resting, Unmoved
<1> HIDE DEF counted
<1>4. Resting(counted, marked)
  <2>1. counted \in Tables /\ "BLOCKED" \in Statuses
    BY <1>3 DEF Resting, SameProcs, Statuses
  <2> QED BY <2>1, MarkRests
<1> HIDE DEF marked
<1>5. Resting(stack, marked)
  BY <1>3, <1>4 DEF Resting, SameProcs, Unmoved
<1> QED BY <1>1, <1>2, <1>5, ForwardMoves

\* Only p_create and the compaction put processes into slots and take them out.
\* In the other steps at most the one that executes moves on, and only at the
\* end of its code is one killed.
Refills == Shift \/ SubmitAppend \/ (Load /\ ~UNCHANGED pcbVars)
LEMMA SlotsStay ==
  ASSUME IInv, [Next]_vars, ~Refills
  PROVE  /\ SameProcs(stack, stack') /\ UNCHANGED <<curr, last>>
         /\ Moving(stack, stack')
         /\ Resting(stack, stack') \/ (Executing /\ cpc' = "load")
         /\ \A k \in Slots : stack'[k].status = "KILL" => stack[k].status = "KILL" \/ Kill
<1>0. stack \in Tables
  BY TypedTable
<1>1. \A t, u : Resting(t, u) => Moving(t, u) /\ SameProcs(t, u)
  BY DEF Resting, Moving
<1>2. UNCHANGED <<curr, last>>
  BY DEF Next, CpuThread, RenderThread, DiskThread, Tick, NoRunning, ReapScan, Refills,
         ReapDone, Select, SelectFault, Dispatch, Kill, ExecNull, ExecCompute, ExecOther,
         ExecP, ExecV, Hang, ExecDisk, ExecDiskMiss, Load, LoadBroken, Submit, SubmitBroken,
         SubmitLog, DrawFault, FinishFind, FinishFault, UnblockFault, p_unblock,
         FinishWrite, Fault, vars, pcbVars
<1>3. CASE stack' = stack
  BY <1>0, <1>1, <1>2, <1>3 DEF Resting, SameProcs, Unmoved
<1>4. ASSUME NEW x, NEW s \in Statuses, stack' = Mark(stack, x, s), s = "KILL" => Kill
      PROVE  /\ Resting(stack, stack')
             /\ \A k \in Slots : stack'[k].status = "KILL" => stack[k].status = "KILL" \/ Kill
  BY <1>0, <1>4, MarkRests, MarkTable
<1>5. CASE NoRunning \/ Dispatch \/ Kill \/ FinishWrite
  <2>1. \/ stack' = stack
        \/ \E x : \E s \in Statuses : stack' = Mark(stack, x, s) /\ (s = "KILL" => Kill)
    BY <1>5 DEF NoRunning, Dispatch, Kill, FinishWrite, Statuses
  <2> QED BY <1>1, <1>2, <1>3, <1>4, <2>1
<1>6. CASE ExecOther \/ ExecP \/ ExecV
  <2>1. Executing /\ cpc' = "load"
    BY <1>6 DEF ExecOther, ExecP, ExecV, CanRun, At, Executing
  <2>2. \/ stack' = Forward(stack)
        \/ \E x : \E s \in {"WAITING", "READY"} : stack' = Forward(Mark(stack, x, s))
    BY <1>6 DEF ExecOther, ExecP, ExecV
  <2>3. CASE stack' = Forward(stack)
    <3>1. Resting(stack, stack)
      BY <1>0 DEF Resting, SameProcs, Unmoved
    <3>2. \A k \in Slots : stack'[k].status = stack[k].status
      BY <1>0, <2>1, <2>3, KernelConstants, ExecFacts, ForwardTable
    <3> QED BY <1>2, <2>1, <2>3, <3>1, <3>2, ForwardMoves DEF Moving
  <2>4. ASSUME NEW x, NEW s \in {"WAITING", "READY"}, stack' = Forward(Mark(stack, x, s))
        PROVE  /\ Moving(stack, stack')
               /\ \A k \in Slots : stack'[k].status = "KILL" => stack[k].status = "KILL"
    <3>1. s \in Statuses /\ s # "KILL"
      BY DEF Statuses
    <3>2. Resting(stack, Mark(stack, x, s))
      BY <1>0, <3>1, MarkRests
    <3> QED BY <2>1, <2>4, <3>1, <3>2, ForwardMoves, MarkForward
  <2> QED BY <1>2, <2>1, <2>2, <2>3, <2>4 DEF Moving
<1>7. CASE ExecDisk
  <2>1. Executing /\ cpc' = "load"
    BY <1>7 DEF ExecDisk, CanRun, At, Executing
  <2>2. \A k \in Slots : stack'[k].status = "KILL" => stack[k].status = "KILL"
    BY <1>7, KernelConstants, BlockTable
  <2> QED BY <1>2, <1>7, <2>1, <2>2, RequestMoves DEF Moving
<1>8. CASE ExecCompute
  <2>1. Executing /\ cpc' = "load"
    BY <1>8 DEF ExecCompute, CanRun, At, Executing
  <2>2. \A k \in Slots : stack'[k].status = stack[k].status
    BY <1>8, KernelConstants, ComputeTable
  <2> QED BY <1>2, <1>8, <2>1, <2>2, ComputeMoves DEF Moving
<1>9. CASE ~(NoRunning \/ Dispatch \/ Kill \/ FinishWrite \/ ExecOther \/ ExecP \/ ExecV
             \/ ExecDisk \/ ExecCompute)
  <2>1. stack' = stack
    BY <1>9 DEF Next, CpuThread, RenderThread, DiskThread, Tick, ReapScan, Refills,
         ReapDone, Select, SelectFault, ExecNull,
         Hang, ExecDiskMiss, Load, LoadBroken, Submit, SubmitBroken,
         SubmitLog, DrawFault, FinishFind, FinishFault, UnblockFault, p_unblock,
         Fault, vars, pcbVars
  <2> QED BY <1>1, <1>2, <1>3, <2>1
<1> QED BY <1>5, <1>6, <1>7, <1>8, <1>9

-----------------------------------------------------------------------------
(* Why a batch does not fault. *)

\* What the sint files hold is read once.
LEMMA LoadStays == ASSUME [Next]_vars PROVE load' = load
BY DEF Next, CpuThread, RenderThread, DiskThread, Tick, NoRunning, ReapScan, Shift,
       ReapDone, Select, SelectFault, Dispatch, Kill, ExecNull, ExecCompute, ExecOther,
       ExecP, ExecV, Hang, ExecDisk, ExecDiskMiss, Load, LoadBroken, Submit, SubmitBroken,
       SubmitAppend, SubmitLog, DrawFault, FinishFind, FinishFault, UnblockFault, p_unblock,
       FinishWrite, Fault, vars, cpuVars

\* p_create fills the slot curr with a process at the start of its program.
LEMMA LoadCreates ==
  ASSUME IInv, Load, ~UNCHANGED pcbVars
  PROVE  /\ cpc = "load" /\ quantum \in 1 .. Len(load) /\ ~TableFull
         /\ curr' = curr + 1 /\ last' = last + 1
         /\ \E q : stack'[curr] = q /\ Fresh(q) /\ q.PC = 0 /\ q.status = "NEW"
<1>1. /\ quantum <= Len(load) /\ ~TableFull /\ cpc = "load"
      /\ curr' = curr + 1 /\ last' = last + 1
      /\ stack' = [stack EXCEPT ![curr] = NewProcess(load[quantum])]
  BY DEF Load, At
<1>2. quantum \in 1 .. Len(load)
  BY <1>1, KernelConstants DEF IInv, TypeOK, PlaceInv, KernelConstants
<1>3. stack'[curr] = NewProcess(load[quantum])
  BY <1>1, CreateStops, TypedTable DEF Tables
<1> DEFINE prog == load[quantum]
           q == NewProcess(prog)
<1>4. q.PC = 0 /\ q.status = "NEW" /\ q.prog = prog /\ q.rem = TimeAt(prog, 0)
  BY DEF NewProcess
<1>5. Fresh(q)
  <2> HIDE DEF q, prog
  <2> QED BY <1>4 DEF Fresh, TimeAt
<1>6. stack'[curr] = q
  BY <1>3
<1> HIDE DEF q
<1> QED BY <1>1, <1>2, <1>4, <1>5, <1>6

\* The remaining times stay those of the programs.
LEMMA RemStep ==
  ASSUME IInv, RemInv, rpc = "idle", [Next]_vars
  PROVE  RemInv'
<1>1. CASE ~Refills
  <2>1. SameProcs(stack, stack') /\ Moving(stack, stack')
    BY <1>1, SlotsStay
  <2>2. \A k \in Slots : Unmoved(stack[k], stack'[k]) /\ Fresh(stack[k]) => Fresh(stack'[k])
    BY DEF Unmoved, Fresh
  <2>3. \A k \in Slots : Occupied(k)' <=> Occupied(k)
    BY <2>1 DEF SameProcs, Occupied
  <2>4. \A k \in Slots : Occupied(k) => Fresh(stack'[k])
    BY <2>1, <2>2 DEF Moving, RemInv
  <2> QED BY <2>3, <2>4 DEF RemInv, Fresh
<1>2. CASE Shift /\ cj < MAX_PCB
  <2>1. /\ cj \in Slots
        /\ \A k \in Slots : stack'[k] = IF k = cj - 1 THEN stack[cj] ELSE stack[k]
        /\ \A k \in Slots : Occupied(k)' <=> IF k = cj - 1 THEN Occupied(cj) ELSE Occupied(k)
    BY <1>2, CopyStops
  <2>2. \A k \in Slots : Occupied(k)' => Fresh(stack'[k])
    BY <2>1 DEF RemInv
  <2> QED BY <2>2 DEF RemInv, Fresh
<1>3. CASE Shift /\ ~(cj < MAX_PCB)
  BY <1>3 DEF Shift, RemInv, Occupied, Fresh
<1>4. CASE Load /\ ~UNCHANGED pcbVars
  <2>1. PICK q : stack'[curr] = q /\ Fresh(q)
    BY <1>4, LoadCreates
  <2>2. /\ \A k \in Slots : k # curr => stack'[k] = stack[k]
        /\ \A k \in Slots : Occupied(k)' <=> k = curr \/ Occupied(k)
    BY <1>4, CreateStops
  <2>3. \A k \in Slots : Occupied(k)' => Fresh(stack'[k])
    BY <2>1, <2>2 DEF RemInv
  <2> QED BY <2>3 DEF RemInv, Fresh
<1>5. ~SubmitAppend
  BY DEF SubmitAppend
<1> QED BY <1>1, <1>2, <1>3, <1>4, <1>5 DEF Refills

\* Without a user at most one process is created per quantum.
LEMMA BatchStep ==
  ASSUME IInv, BatchInv, UserPrograms = {}, [Next]_vars
  PROVE  BatchInv'
<1>1. rpc = "idle" /\ submitted = 0 /\ curr <= LOAD_MAX
  BY DEF BatchInv
<1>2. /\ curr \in Nat /\ quantum \in Nat /\ LOAD_MAX \in Nat
      /\ Len(load) \in Nat /\ Len(load) <= LOAD_MAX
  BY KernelConstants DEF IInv, TypeOK, KernelConstants
<1>3. rpc' = "idle" /\ submitted' = 0
  BY <1>1 DEF Next, CpuThread, RenderThread, DiskThread, Tick, NoRunning, ReapScan, Shift,
         ReapDone, Select, SelectFault, Dispatch, Kill, ExecNull, ExecCompute, ExecOther,
         ExecP, ExecV, Hang, ExecDisk, ExecDiskMiss, Load, LoadBroken, Submit, SubmitBroken,
         SubmitAppend, SubmitLog, DrawFault, FinishFind, FinishFault, UnblockFault, p_unblock,
         FinishWrite, Fault, vars, rndVars
<1>4. CASE Tick
  <2>1. /\ cpc = "sleep" /\ cpc' = "norun" /\ curr' = curr
        /\ quantum' = IF quantum < LOAD_MAX + 1 THEN quantum + 1 ELSE quantum
    BY <1>4 DEF Tick, At, pcbVars, QUANTUM_MAX
  <2> QED BY <1>1, <1>2, <1>3, <2>1 DEF BatchInv
<1>5. CASE Load
  <2>1. cpc = "load" /\ cpc' = "sleep" /\ quantum' = quantum
    BY <1>5 DEF Load, At
  <2>2. curr' = curr \/ (curr' = curr + 1 /\ quantum <= Len(load))
    BY <1>5 DEF Load, pcbVars
  <2> QED BY <1>1, <1>2, <1>3, <2>1, <2>2 DEF BatchInv
<1>6. CASE ~Tick /\ ~Load
  <2>1. curr' = curr /\ quantum' = quantum /\ (cpc' = "sleep" <=> cpc = "sleep")
    BY <1>1, <1>6 DEF Next, CpuThread, RenderThread, DiskThread, NoRunning, ReapScan, Shift,
         ReapDone, Select, SelectFault, Dispatch, Kill, ExecNull, ExecCompute, ExecOther,
         ExecP, ExecV, Hang, ExecDisk, ExecDiskMiss, LoadBroken, Submit, SubmitBroken,
         SubmitAppend, SubmitLog, DrawFault, FinishFind, FinishFault, UnblockFault, p_unblock,
         FinishWrite, Fault, At, CanRun, vars, pcbVars, cpuVars
  <2> QED BY <1>1, <1>3, <2>1 DEF BatchInv
<1> QED BY <1>4, <1>5, <1>6

\* Without a user, and with fewer programs than slots, the CPU thread goes down
\* for a file or a track that does not exist, unless a process stands behind an
\* empty slot or a ring holds one that does not wait.
LEMMA FaultCause ==
  ASSUME IInv, RingsInv, NoGap, BatchInv, LOAD_MAX <= MAX_PCB - 1,
         ~should_render, UserPrograms = {}, CpuThread \/ RenderThread, sys' # sys
  PROVE  LoadBroken \/ ExecDiskMiss
<1>1. \/ SelectFault \/ ExecNull \/ ExecDiskMiss \/ LoadBroken
      \/ (Load /\ TableFull /\ quantum <= Len(load)) \/ SubmitLog
  BY DEF CpuThread, RenderThread, Tick, NoRunning, ReapScan, Shift,
         ReapDone, Select, Dispatch, Kill, ExecCompute, ExecOther,
         ExecP, ExecV, Hang, ExecDisk, Load, SubmitAppend, DrawFault
<1>2. ~SubmitLog
  BY DEF SubmitLog, BatchInv
<1>3. \A k \in Slots : cpc # "shift" /\ k < last => Occupied(k)
  BY DEF NoGap
<1>4. ~SelectFault
  <2> SUFFICES ASSUME SelectFault PROVE FALSE
    OBVIOUS
  <2>1. cpc = "select" /\ ci < last /\ csel # NULL /\ csel < last /\ csel \in Slots
    BY DEF SelectFault, At, MoreCandidates, IInv, TypeOK, PlaceInv
  <2>2. ci \in Slots
    <3>1. ci \in Nat /\ last \in Nat /\ curr \in Nat /\ last <= curr /\ curr <= MAX_PCB - 1
      BY DEF IInv, TypeOK, LastBoundsLive, CreateInv
    <3> QED BY <2>1, <3>1, KernelConstants DEF Slots, KernelConstants
  <2> QED BY <1>3, <2>1, <2>2 DEF SelectFault
<1>5. ~ExecNull
  <2> SUFFICES ASSUME ExecNull PROVE FALSE
    OBVIOUS
  <2>1. CASE WaiterGone
    <3>1. PICK c \in Fetch : /\ c.sem \in sems /\ waiters[c.sem] # <<>>
                             /\ p_find(Head(waiters[c.sem])) = NULL
      BY <2>1 DEF WaiterGone
    <3>2. Executing /\ c.sem \in Sems /\ waiters[c.sem] \in Seq(Nat)
      BY <2>1, <3>1 DEF WaiterGone, CanRun, At, Executing, IInv, TypeOK
    <3>3. NULL \in Slots
      BY <3>1, <3>2, PoppedWaits DEF Live
    <3> QED BY <3>3 DEF NULL, Slots
  <2>2. CASE At("exec") /\ ~Occupied(csel)
    BY <1>3, <2>2 DEF At, IInv, PlaceInv
  <2> QED BY <2>1, <2>2 DEF ExecNull
<1>6. ~(Load /\ TableFull /\ quantum <= Len(load))
  <2> SUFFICES ASSUME Load, TableFull, quantum <= Len(load) PROVE FALSE
    OBVIOUS
  <2>1. cpc = "load"
    BY DEF Load, At
  <2>2. /\ curr \in Nat /\ quantum \in Nat /\ LOAD_MAX \in Nat /\ MAX_PCB \in Nat
        /\ Len(load) \in Nat /\ Len(load) <= LOAD_MAX
    BY KernelConstants DEF IInv, TypeOK, KernelConstants
  <2>3. curr < quantum
    BY <2>1 DEF BatchInv
  <2> QED BY <2>2, <2>3 DEF TableFull
<1> QED BY <1>1, <1>2, <1>4, <1>5, <1>6

\* The bound of the occupied slots at a place of the table.
FillAt(k) == IF cpc = "shift" /\ k < Hole THEN last - 1 ELSE last
Filled == \A k \in Slots \ {Hole} : Occupied(k) <=> k < FillAt(k)

\* How far a process may be, and when it may be killed, while programs are still
\* to come.
Lead == IF cpc \in {"sleep", "load", "hung"} THEN 1 ELSE 2
Early ==
  /\ cpc # "shift" /\ last = curr
  /\ \A k \in Slots :
       /\ Occupied(k) => stack[k].PC + Lead <= quantum
       /\ stack[k].status = "KILL" => quantum = Len(load) /\ cpc \in {"run", "load", "hung"}
LEMMA FilledParts ==
  FilledInv <=> (LongEnough(load) => Filled /\ (Loading => Early))
BY DEF FilledInv, Filled, FillAt, Early, Lead

\* A step that neither fills a slot nor begins a compaction.
LEMMA FilledRests ==
  ASSUME IInv, Filled, SameProcs(stack, stack'), UNCHANGED <<last, cj>>,
         cpc = "shift" <=> cpc' = "shift"
  PROVE  Filled'
<1>1. Hole' = Hole
  BY DEF Hole
<1>2. \A k \in Slots : Occupied(k)' <=> Occupied(k)
  BY DEF SameProcs, Occupied
<1>3. \A k \in Slots : FillAt(k)' = FillAt(k)
  BY <1>1 DEF FillAt
<1> QED BY <1>1, <1>2, <1>3 DEF Filled

\* A compaction opens a slot, copies it upwards and counts last down.
LEMMA FilledReap ==
  ASSUME IInv, Filled, Shift \/ (ReapScan /\ stack[ci].status = "KILL")
  PROVE  Filled'
<1>0. last \in Nat /\ curr \in Nat /\ last <= curr /\ curr <= MAX_PCB - 1 /\ MAX_PCB \in 2 .. 256
  BY KernelConstants DEF IInv, TypeOK, LastBoundsLive, CreateInv, KernelConstants
<1>1. CASE ReapScan /\ stack[ci].status = "KILL"
  <2>1. /\ stack' = stack /\ cpc' = "shift" /\ ci \in Slots /\ Occupied(ci)
        /\ Hole = NULL /\ Hole' = ci /\ cpc = "reap" /\ last' = last
    BY <1>1, ReapStops DEF ReapScan, At, pcbVars
  <2>2. NULL \notin Slots
    BY DEF NULL, Slots
  <2>3. \A k \in Slots : Occupied(k) <=> k < last
    BY <2>1, <2>2 DEF Filled, FillAt
  <2>4. ci < last
    BY <2>1, <2>3
  <2>5. \A k \in Slots : Occupied(k)' <=> Occupied(k)
    BY <2>1 DEF Occupied
  <2>6. \A k \in Slots \ {ci} : FillAt(k)' = IF k < ci THEN last - 1 ELSE last
    BY <2>1 DEF FillAt
  <2>7. \A k \in Slots \ {ci} : k < last <=> k < FillAt(k)'
    BY <1>0, <2>1, <2>4, <2>6 DEF Slots
  <2> QED BY <2>1, <2>3, <2>5, <2>7 DEF Filled
<1>2. CASE Shift /\ cj < MAX_PCB
  <2>1. /\ cpc' = "shift" /\ cj \in Slots /\ cj - 1 \in Slots /\ cj \in Nat
        /\ Hole = cj - 1 /\ Hole' = cj
        /\ \A k \in Slots : Occupied(k)' <=> IF k = cj - 1 THEN Occupied(cj) ELSE Occupied(k)
    BY <1>2, CopyStops
  <2>2. last' = last /\ cpc = "shift"
    BY <1>2 DEF Shift, At
  <2>3. /\ \A k \in Slots \ {cj - 1} : Occupied(k) <=> k < (IF k < cj - 1 THEN last - 1 ELSE last)
        /\ \A k \in Slots : FillAt(k)' = IF k < cj THEN last - 1 ELSE last
    BY <2>1, <2>2 DEF Filled, FillAt
  <2>4. ASSUME NEW k \in Slots \ {cj}
        PROVE  Occupied(k)' <=> k < (IF k < cj THEN last - 1 ELSE last)
    <3>1. CASE k = cj - 1
      <4>1. Occupied(k)' <=> cj < last
        BY <2>1, <2>3, <3>1
      <4> QED BY <1>0, <2>1, <3>1, <4>1
    <3>2. CASE k # cj - 1
      <4>1. Occupied(k)' <=> k < (IF k < cj - 1 THEN last - 1 ELSE last)
        BY <2>1, <2>3, <3>2
      <4>2. k < cj - 1 <=> k < cj
        BY <2>1, <3>2 DEF Slots
      <4> QED BY <4>1, <4>2
    <3> QED BY <3>1, <3>2
  <2> QED BY <2>1, <2>3, <2>4 DEF Filled
<1>3. CASE Shift /\ ~(cj < MAX_PCB)
  <2>1. /\ stack' = stack /\ cpc = "shift" /\ cpc' = "reap" /\ last' = (last + 255) % 256
    BY <1>3 DEF Shift, At
  <2>2. /\ Hole = MAX_PCB - 1 /\ Hole' = NULL /\ NULL \notin Slots /\ ~Occupied(MAX_PCB - 1)
    <3>1. cj = MAX_PCB
      BY <1>3, <2>1, KernelConstants DEF IInv, PlaceInv, KernelConstants
    <3>2. NULL \notin Slots
      BY DEF NULL, Slots
    <3>3. ~Occupied(MAX_PCB - 1)
      BY <1>0 DEF IInv, TableInv, Slots
    <3> QED BY <2>1, <3>1, <3>2, <3>3 DEF Hole
  <2>3. last' = last - 1
    <3>1. Cardinality(Live) <= last - 1
      BY <2>1 DEF IInv, LastBoundsLive
    <3>2. last \in 1 .. 255
      BY <1>0, <3>1, KernelConstants, LiveFinite
    <3> QED BY <2>1, <3>2, LastDown
  <2>4. /\ \A k \in Slots : FillAt(k)' = last - 1
        /\ \A k \in Slots \ {MAX_PCB - 1} :
             Occupied(k) <=> k < (IF k < MAX_PCB - 1 THEN last - 1 ELSE last)
    BY <2>1, <2>2, <2>3 DEF Filled, FillAt
  <2>5. \A k \in Slots : Occupied(k) <=> k < last - 1
    <3>1. \A k \in Slots : k = MAX_PCB - 1 \/ k < MAX_PCB - 1
      BY <1>0 DEF Slots
    <3> QED BY <1>0, <2>2, <2>4, <3>1
  <2> QED BY <2>1, <2>2, <2>4, <2>5 DEF Filled, Occupied
<1> QED BY <1>1, <1>2, <1>3

\* A step within a quantum: the process that executes moves on by one, and the
\* end of a program is not reached before all programs are created.
LEMMA EarlyRests ==
  ASSUME IInv, OriginInv, UserPrograms = {}, LongEnough(load), Early, Loading,
         [Next]_vars, ~Refills, ~Tick, ~Load
  PROVE  Early' /\ (cpc = "shift" <=> cpc' = "shift")
<1>1. /\ UNCHANGED <<last, curr>> /\ SameProcs(stack, stack') /\ Moving(stack, stack')
      /\ Resting(stack, stack') \/ (Executing /\ cpc' = "load")
      /\ \A k \in Slots : stack'[k].status = "KILL" => stack[k].status = "KILL" \/ Kill
  BY SlotsStay
<1>2. /\ quantum' = quantum /\ load' = load
      /\ cpc' \in {"norun", "reap", "select", "exec", "shift"} =>
           cpc \notin {"sleep", "load", "hung", "run"} \/ cpc' = cpc
      /\ cpc \in {"load", "hung", "sleep"} => cpc' = cpc
      /\ cpc = "run" => cpc' \in {"run", "load", "hung"}
      /\ cpc' = "sleep" => cpc = "sleep"
      /\ Kill => cpc' = "run" /\ cpc = "exec"
      /\ cpc' = "run" => Kill \/ cpc = "run"
  BY DEF Next, CpuThread, RenderThread, DiskThread, NoRunning, ReapScan, Shift,
       ReapDone, Select, SelectFault, Dispatch, Kill, ExecNull, ExecCompute, ExecOther,
       ExecP, ExecV, Hang, ExecDisk, ExecDiskMiss, LoadBroken, Submit, SubmitBroken,
       SubmitAppend, SubmitLog, DrawFault, FinishFind, FinishFault, UnblockFault, p_unblock,
       FinishWrite, Fault, At, CanRun, vars, cpuVars, Refills
<1>3. cpc # "shift" /\ cpc' # "shift"
  <2>1. ReapScan => stack[ci].status # "KILL"
    <3> SUFFICES ASSUME ReapScan, stack[ci].status = "KILL" PROVE FALSE
      OBVIOUS
    <3>1. cpc = "reap" /\ ci \in Slots
      BY ReapStops DEF ReapScan, At
    <3> QED BY <3>1 DEF Early
  <2> QED BY <1>2, <2>1 DEF Early, ReapScan, Next, CpuThread, RenderThread, DiskThread, NoRunning,
       Refills,
       ReapDone, Select, SelectFault, Dispatch, Kill, ExecNull, ExecCompute, ExecOther,
       ExecP, ExecV, Hang, ExecDisk, ExecDiskMiss, LoadBroken, Submit, SubmitBroken,
       SubmitAppend, SubmitLog, DrawFault, FinishFind, FinishFault, UnblockFault, p_unblock,
       FinishWrite, Fault, At, CanRun, vars, cpuVars
<1>4. ASSUME NEW k \in Slots, Occupied(k)' PROVE stack'[k].PC + Lead' <= quantum'
  <2>1. Occupied(k) /\ stack[k].PC + Lead <= quantum /\ stack[k].PC \in Nat /\ quantum \in Nat
    BY <1>1, <1>4, TableFacts DEF SameProcs, Occupied, Early, IInv, TypeOK
  <2>2. CASE Unmoved(stack[k], stack'[k])
    <3>1. stack'[k].PC = stack[k].PC /\ Lead' <= Lead /\ Lead \in Nat /\ Lead' \in Nat
      BY <1>2, <2>2 DEF Unmoved, Lead
    <3> QED BY <1>2, <2>1, <3>1
  <2>3. CASE ~Unmoved(stack[k], stack'[k])
    <3>1. Executing /\ cpc' = "load" /\ stack'[k].PC \in {stack[k].PC, NextPC(stack[k])}
      BY <1>1, <2>3 DEF Resting, Moving
    <3>2. Lead' = 1 /\ Lead = 2
      BY <3>1 DEF Lead, Executing
    <3>3. stack'[k].PC \in {stack[k].PC, stack[k].PC + 1}
      BY <3>1 DEF NextPC
    <3> QED BY <1>2, <2>1, <3>2, <3>3
  <2> QED BY <2>2, <2>3
<1>5. ASSUME NEW k \in Slots, stack'[k].status = "KILL"
      PROVE  quantum' = Len(load') /\ cpc' \in {"run", "load", "hung"}
  <2>1. CASE stack[k].status = "KILL"
    BY <1>2, <2>1 DEF Early
  <2>2. CASE Kill
    <3>1. /\ csel \in Slots /\ Occupied(csel) /\ cpc = "exec"
          /\ stack[csel].PC = Len(Code[stack[csel].prog])
      BY <2>2 DEF Kill, At, AtEnd, Running, IInv, PlaceInv
    <3>2. PICK i \in 1 .. Len(load) : stack[csel].prog = load[i]
      BY <3>1 DEF OriginInv, Started
    <3>3. stack[csel].PC + 2 >= Len(load)
      BY <3>1, <3>2 DEF LongEnough
    <3>4. stack[csel].PC + 2 <= quantum
      BY <3>1 DEF Early, Lead
    <3>5. /\ Len(load) \in Nat /\ quantum \in Nat /\ stack[csel].PC \in Nat
      BY <3>1, TableFacts, KernelConstants DEF IInv, TypeOK, KernelConstants
    <3>6. quantum <= Len(load)
      BY <3>5 DEF Loading
    <3> QED BY <1>2, <2>2, <3>3, <3>4, <3>5, <3>6
  <2> QED BY <1>1, <1>5, <2>1, <2>2
<1>6. last' = curr'
  BY <1>1 DEF Early
<1> QED BY <1>3, <1>4, <1>5, <1>6 DEF Early

\* The slots below last are the occupied ones.
LEMMA FilledStep ==
  ASSUME IInv, OriginInv, BatchInv, FilledInv, UserPrograms = {}, [Next]_vars
  PROVE  FilledInv'
<1> SUFFICES ASSUME LongEnough(load) PROVE Filled' /\ (Loading' => Early')
  BY LoadStays, FilledParts DEF FilledInv, Filled, FillAt, Early, Lead, LongEnough
<1>1. Filled /\ (Loading => Early)
  BY FilledParts
<1>2. /\ load' = load /\ Len(load) \in Nat /\ quantum \in Nat /\ curr \in Nat
      /\ Len(load) <= LOAD_MAX /\ LOAD_MAX \in Nat
  BY LoadStays, KernelConstants DEF IInv, TypeOK, KernelConstants
<1>3. CASE Tick
  <2>1. /\ stack' = stack /\ cpc = "sleep" /\ cpc' = "norun" /\ UNCHANGED <<last, curr, cj>>
        /\ quantum' = IF quantum < LOAD_MAX + 1 THEN quantum + 1 ELSE quantum
    BY <1>3 DEF Tick, At, pcbVars, QUANTUM_MAX
  <2>2. Filled'
    <3>1. SameProcs(stack, stack')
      BY <2>1, TypedTable DEF SameProcs
    <3> QED BY <1>1, <2>1, <3>1, FilledRests
  <2>3. ASSUME Loading' PROVE Early'
    <3>1. quantum' = quantum + 1 /\ Loading /\ quantum < Len(load)
      BY <1>2, <2>1, <2>3 DEF Loading
    <3>2. ASSUME NEW k \in Slots PROVE stack[k].status # "KILL"
      BY <1>1, <1>2, <2>1, <3>1 DEF Early
    <3>3. ASSUME NEW k \in Slots, Occupied(k) PROVE stack[k].PC + 2 <= quantum + 1
      <4>1. stack[k].PC \in Nat /\ stack[k].PC + 1 <= quantum
        BY <1>1, <2>1, <3>1, <3>3, TableFacts DEF Early, Lead
      <4> QED BY <1>2, <4>1
    <3> QED BY <1>1, <2>1, <3>1, <3>2, <3>3 DEF Early, Lead, Occupied
  <2> QED BY <2>2, <2>3
<1>4. CASE Load /\ UNCHANGED pcbVars
  <2>1. /\ stack' = stack /\ UNCHANGED <<last, curr, cj, quantum>>
        /\ cpc = "load" /\ cpc' = "sleep"
    BY <1>4 DEF Load, At, pcbVars
  <2>2. Filled'
    <3>1. SameProcs(stack, stack')
      BY <2>1, TypedTable DEF SameProcs
    <3> QED BY <1>1, <2>1, <3>1, FilledRests
  <2>3. ASSUME Loading' PROVE Early'
    <3>1. Loading /\ quantum < Len(load)
      BY <1>2, <2>1, <2>3 DEF Loading
    <3>2. ASSUME NEW k \in Slots PROVE stack[k].status # "KILL"
      BY <1>1, <1>2, <3>1 DEF Early
    <3> QED BY <1>1, <1>2, <2>1, <3>1, <3>2 DEF Early, Lead, Occupied
  <2> QED BY <2>2, <2>3
<1>5. CASE Load /\ ~UNCHANGED pcbVars
  <2>1. /\ cpc = "load" /\ quantum \in 1 .. Len(load) /\ curr' = curr + 1 /\ last' = last + 1
        /\ \E q : stack'[curr] = q /\ q.PC = 0 /\ q.status = "NEW"
    BY <1>5, LoadCreates
  <2>2. /\ curr \in Slots
        /\ \A k \in Slots : k # curr => stack'[k] = stack[k]
        /\ \A k \in Slots : Occupied(k)' <=> k = curr \/ Occupied(k)
    BY <1>5, CreateStops
  <2>3. quantum' = quantum /\ cpc' = "sleep"
    BY <1>5 DEF Load
  <2>4. Loading /\ Early /\ last = curr
    BY <1>1, <1>2, <2>1 DEF Loading, Early
  <2>5. Hole = NULL /\ Hole' = NULL /\ NULL \notin Slots
    BY <2>1, <2>3 DEF Hole, NULL, Slots
  <2>6. Filled'
    <3>1. \A k \in Slots : Occupied(k) <=> k < curr
      BY <1>1, <2>1, <2>4, <2>5 DEF Filled, FillAt
    <3>2. \A k \in Slots : FillAt(k)' = curr + 1
      BY <2>1, <2>3, <2>4 DEF FillAt
    <3>3. \A k \in Slots : k = curr \/ k < curr <=> k < curr + 1
      BY <1>2 DEF Slots
    <3> QED BY <2>2, <3>1, <3>2, <3>3 DEF Filled
  <2>7. ASSUME Loading' PROVE Early'
    <3>1. quantum < Len(load)
      BY <1>2, <2>3, <2>7 DEF Loading
    <3>2. ASSUME NEW k \in Slots
          PROVE  /\ Occupied(k)' => stack'[k].PC + 1 <= quantum
                 /\ stack'[k].status # "KILL"
      <4>1. CASE k = curr
        <5>1. PICK q : stack'[k] = q /\ q.PC = 0 /\ q.status = "NEW"
          BY <2>1, <4>1
        <5> QED BY <1>2, <2>1, <5>1
      <4>2. CASE k # curr
        <5>1. stack'[k] = stack[k] /\ (Occupied(k)' => Occupied(k))
          BY <2>2, <4>2
        <5>2. stack[k].status # "KILL" /\ (Occupied(k) => stack[k].PC + 1 <= quantum)
          BY <1>2, <2>1, <2>4, <3>1 DEF Early, Lead
        <5> QED BY <5>1, <5>2
      <4> QED BY <4>1, <4>2
    <3> QED BY <2>1, <2>3, <2>4, <3>1, <3>2 DEF Early, Lead
  <2> QED BY <2>6, <2>7
<1>6. CASE Shift \/ (ReapScan /\ stack[ci].status = "KILL")
  <2>1. ~Loading
    <3>1. CASE Shift
      BY <1>1, <3>1 DEF Shift, At, Early
    <3>2. CASE ReapScan /\ stack[ci].status = "KILL"
      <4>1. cpc = "reap" /\ ci \in Slots
        BY <3>2, ReapStops DEF ReapScan, At
      <4> QED BY <1>1, <3>2, <4>1 DEF Early
    <3> QED BY <1>6, <3>1, <3>2
  <2>2. quantum' = quantum /\ cpc # "sleep" /\ cpc' # "sleep"
    BY <1>6 DEF Shift, ReapScan, At
  <2>3. ~Loading'
    BY <1>2, <2>1, <2>2 DEF Loading
  <2> QED BY <1>1, <1>6, <2>3, FilledReap
<1>7. CASE ~Tick /\ ~Load /\ ~Shift /\ ~(ReapScan /\ stack[ci].status = "KILL")
  <2>1. ~Refills
    BY <1>7 DEF Refills, SubmitAppend, BatchInv
  <2>2. /\ SameProcs(stack, stack') /\ UNCHANGED last
    BY <2>1, SlotsStay
  <2>3. /\ cpc = "shift" <=> cpc' = "shift"
        /\ UNCHANGED <<cj, quantum>> /\ (cpc' = "sleep" <=> cpc = "sleep")
    BY <1>7 DEF Next, CpuThread, RenderThread, DiskThread, NoRunning, ReapScan,
       ReapDone, Select, SelectFault, Dispatch, Kill, ExecNull, ExecCompute, ExecOther,
       ExecP, ExecV, Hang, ExecDisk, ExecDiskMiss, LoadBroken, Submit, SubmitBroken,
       SubmitAppend, SubmitLog, DrawFault, FinishFind, FinishFault, UnblockFault, p_unblock,
       FinishWrite, Fault, At, CanRun, vars, cpuVars
  <2>4. Filled'
    BY <1>1, <2>2, <2>3, FilledRests
  <2>5. Loading' => Loading
    BY <1>2, <2>3 DEF Loading
  <2> QED BY <1>1, <1>7, <2>1, <2>4, <2>5, EarlyRests
<1> QED BY <1>3, <1>4, <1>5, <1>6, <1>7

\* At the start no slot is filled and nothing has been created.
LEMMA InitBatch ==
  ASSUME Init
  PROVE  RemInv /\ BatchInv /\ FilledInv
<1>1. /\ \A k \in Slots : ~Occupied(k) /\ stack[k].status = "RUNNING"
      /\ cpc = "sleep" /\ last = 0 /\ curr = 0 /\ quantum = 0 /\ rpc = "idle" /\ submitted = 0
  BY DEF Init, Occupied, ZeroSlot
<1>2. RemInv /\ BatchInv
  BY <1>1, KernelConstants DEF RemInv, BatchInv, KernelConstants
<1>3. FilledInv
  <2>1. Filled /\ Early
    BY <1>1 DEF Filled, FillAt, Early, Slots
  <2> QED BY <2>1, FilledParts
<1> QED BY <1>2, <1>3

\* The programs of the sint files exist, and none can end before all of them are
\* created.
SoundBatch ==
  \A l \in Loads : LongEnough(l) /\ \A i \in 1 .. Len(l) : l[i] \notin Broken

\* A batch of such programs that only compute, print and synchronise never
\* makes the kernel fault or exit, whatever its schedule.
THEOREM BatchNeverFaults ==
  ASSUME SoundBatch, NoDisk, ~should_render, UserPrograms = {}, LOAD_MAX <= MAX_PCB - 1
  PROVE  Spec => []NoFault
<1> DEFINE J == /\ IInv /\ SelectInv /\ RingsInv /\ OriginInv /\ IdleDisk
                /\ BatchInv /\ FilledInv /\ NoFault
<1>1. Init => J
  BY KernelConstants, InitInv, InitSems, InitBatch DEF NoFault, Init
<1>2. J /\ [Next]_vars => J'
  <2> SUFFICES ASSUME J, [Next]_vars PROVE J'
    OBVIOUS
  <2>1. IInv' /\ SelectInv' /\ OriginInv' /\ IdleDisk' /\ BatchInv' /\ FilledInv'
    BY KernelConstants, NextInv, SelectStep, OriginStep, IdleDiskStep, BatchStep, FilledStep
  <2>2. RingsInv'
    <3>1. FinishWrite => NoStrayWake
      BY DEF IdleDisk, NoStrayWake
    <3> QED BY <3>1, RingsStep
  <2>3. NoGap
    <3>1. load \in Loads /\ NULL \notin Slots
      BY DEF IInv, TypeOK, NULL, Slots
    <3> QED BY <3>1 DEF SoundBatch, FilledInv, NoGap, Hole
  <2>4. ~LoadBroken
    <3> SUFFICES ASSUME LoadBroken PROVE FALSE
      OBVIOUS
    <3>1. load \in Loads /\ quantum \in 1 .. Len(load) /\ load[quantum] \in Broken
      BY KernelConstants DEF LoadBroken, At, IInv, TypeOK, PlaceInv, KernelConstants
    <3> QED BY <3>1 DEF SoundBatch
  <2>5. ~ExecDiskMiss
    <3> SUFFICES ASSUME ExecDiskMiss PROVE FALSE
      OBVIOUS
    <3>1. Executing
      BY DEF ExecDiskMiss, CanRun, At, Executing
    <3>2. PICK c \in Fetch : c.op = "disk"
      BY DEF ExecDiskMiss
    <3> QED BY <3>1, <3>2, NoDiskFetched
  <2>6. sys' = sys
    <3>1. CASE CpuThread \/ RenderThread
      BY <2>3, <2>4, <2>5, <3>1, FaultCause
    <3>2. CASE DiskThread
      <4>1. ~FinishWrite /\ \A pid \in Pids : ~FinishFind(pid) /\ ~FinishFault(pid)
        BY DEF IdleDisk, FinishWrite, FinishFind, FinishFault
      <4> QED BY <3>2, <4>1 DEF DiskThread
    <3>3. CASE UNCHANGED vars
      BY <3>3 DEF vars
    <3> QED BY <3>1, <3>2, <3>3 DEF Next
  <2> QED BY <2>1, <2>2, <2>6 DEF NoFault
<1>3. J => NoFault
  OBVIOUS
<1> HIDE DEF J
<1> QED BY <1>1, <1>2, <1>3, PTL DEF Spec

-----------------------------------------------------------------------------
(* Who leaves the table. *)

\* In this step only killed processes leave.
KilledLeave ==
  \A p \in Pids :
    Present(p) /\ ~Present(p)' =>
      \E k \in Slots : stack[k].pid = p /\ stack[k].status = "KILL"

\* Processes that keep their slots stay, and only the write of the disk could
\* hide from the compaction that the process it removes was killed.
LEMMA KeepersStay ==
  ASSUME IInv, OverwriteInv, HoleUntouched, [Next]_vars, ~Refills
  PROVE  OverwriteInv' /\ KilledLeave
<1>1. \A k \in Slots : stack'[k].pid = stack[k].pid /\ (Occupied(k)' <=> Occupied(k))
  BY SlotsStay DEF SameProcs, Occupied
<1>2. KilledLeave
  BY <1>1 DEF KilledLeave, Present
<1>3. OverwriteInv'
  <2> SUFFICES ASSUME cpc' = "shift", Hole' \in Slots, Occupied(Hole)' PROVE OverwriteInv'
    BY DEF OverwriteInv
  <2>1. CASE cpc = "shift"
    <3>1. cj' = cj /\ Hole' = Hole /\ (stack' = stack \/ FinishWrite)
      <4>1. cj' = cj /\ (stack' = stack \/ FinishWrite)
        <5>1. CASE CpuThread
          <6>1. ~CpuThread
            BY <2>1 DEF CpuThread, Tick, NoRunning, ReapScan, Refills, ReapDone, Select,
                 SelectFault, Dispatch, Kill, ExecNull, ExecCompute, ExecOther, ExecP, ExecV,
                 Hang, ExecDisk, ExecDiskMiss, Load, LoadBroken, At, CanRun, Executing, WaiterGone
          <6> QED BY <5>1, <6>1
        <5>2. CASE RenderThread
          BY <5>2 DEF RenderThread, Refills, Submit, SubmitBroken, SubmitLog, DrawFault,
               Fault, vars, pcbVars, cpuVars
        <5>3. CASE DiskThread
          BY <5>3 DEF DiskThread, FinishFind, FinishFault, FinishWrite, UnblockFault, p_unblock,
               Fault, vars, pcbVars, cpuVars
        <5> QED BY <5>1, <5>2, <5>3 DEF Next, vars, pcbVars, cpuVars
      <4> QED BY <2>1, <4>1 DEF Hole
    <3>2. stack'[Hole].status = stack[Hole].status
      <4>1. CASE FinishWrite
        <5>1. dptr # Hole /\ stack' = Mark(stack, dptr, "READY")
          BY <2>1, <4>1 DEF HoleUntouched, FinishWrite
        <5>2. stack'[Hole] = stack[Hole]
          BY <3>1, <5>1, TypedTable DEF Tables, Mark
        <5> QED BY <5>2
      <4> QED BY <3>1, <4>1
    <3> QED BY <1>1, <2>1, <3>1, <3>2 DEF OverwriteInv
  <2>2. CASE cpc # "shift"
    <3>1. ReapScan /\ stack[ci].status = "KILL"
      BY <2>2 DEF Next, CpuThread, RenderThread, DiskThread, Tick, NoRunning, ReapScan, Refills,
           ReapDone, Select, SelectFault, Dispatch, Kill, ExecNull, ExecCompute, ExecOther,
           ExecP, ExecV, Hang, ExecDisk, ExecDiskMiss, Load, LoadBroken, Submit, SubmitBroken,
           SubmitLog, DrawFault, FinishFind, FinishFault, UnblockFault, p_unblock,
           FinishWrite, Fault, vars, pcbVars, cpuVars
    <3>2. stack' = stack /\ Hole' = ci
      BY <3>1, ReapStops
    <3> QED BY <3>1, <3>2 DEF OverwriteInv
  <2> QED BY <2>1, <2>2
<1> QED BY <1>2, <1>3

\* A copy overwrites one process, which stays if it was not killed.
LEMMA CopiesStay ==
  ASSUME IInv, OverwriteInv, Shift
  PROVE  OverwriteInv' /\ KilledLeave
<1>1. CASE cj < MAX_PCB
  <2>1. /\ cpc' = "shift" /\ cpc = "shift" /\ cj \in Slots /\ cj - 1 \in Slots
        /\ Hole = cj - 1 /\ Hole' = cj /\ cj - 1 # cj
        /\ \A k \in Slots : stack'[k] = IF k = cj - 1 THEN stack[cj] ELSE stack[k]
        /\ \A k \in Slots : Occupied(k)' <=> IF k = cj - 1 THEN Occupied(cj) ELSE Occupied(k)
    BY <1>1, CopyStops DEF Shift, At
  <2>2. OverwriteInv'
    <3>1. stack'[cj - 1] = stack[cj] /\ stack'[cj] = stack[cj]
      BY <2>1
    <3>2. \E k \in Slots \ {cj} : stack'[k].prog = stack'[cj].prog /\ stack'[k].pid = stack'[cj].pid
      BY <2>1, <3>1
    <3> QED BY <2>1, <3>2 DEF OverwriteInv, Occupied
  <2>3. KilledLeave
    <3> SUFFICES ASSUME NEW p \in Pids, Present(p), ~Present(p)'
                 PROVE  \E k \in Slots : stack[k].pid = p /\ stack[k].status = "KILL"
      BY DEF KilledLeave
    <3>1. \A k \in Slots \ {cj - 1} : Occupied(k) => stack[k].pid # p
      BY <2>1 DEF Present
    <3>2. Occupied(cj - 1) /\ stack[cj - 1].pid = p
      BY <3>1 DEF Present
    <3>3. stack[cj - 1].status = "KILL"
      BY <2>1, <3>1, <3>2 DEF OverwriteInv
    <3> QED BY <2>1, <3>2, <3>3
  <2> QED BY <2>2, <2>3
<1>2. CASE ~(cj < MAX_PCB)
  <2>1. cpc' = "reap" /\ stack' = stack
    BY <1>2 DEF Shift
  <2>2. KilledLeave
    BY <2>1 DEF KilledLeave, Present, Occupied
  <2> QED BY <2>1, <2>2 DEF OverwriteInv
<1> QED BY <1>1, <1>2

\* A creation takes an empty slot.
LEMMA CreationsStay ==
  ASSUME IInv, OverwriteInv, HoleUntouched, SubmitAppend \/ (Load /\ ~UNCHANGED pcbVars)
  PROVE  OverwriteInv' /\ KilledLeave
<1>1. /\ cj' = cj /\ (cpc = "shift" <=> cpc' = "shift") /\ Hole' = Hole
      /\ curr \in Slots
      /\ \A k \in Slots : k # curr => stack'[k] = stack[k]
      /\ \A k \in Slots : Occupied(k)' <=> k = curr \/ Occupied(k)
  BY CreateStops
<1>2. ~Occupied(curr)
  BY <1>1 DEF IInv, TypeOK, TableInv, Slots
<1>3. KilledLeave
  <2>1. \A k \in Slots : Occupied(k) => Occupied(k)' /\ stack'[k] = stack[k]
    BY <1>1, <1>2
  <2> QED BY <2>1 DEF KilledLeave, Present
<1>4. OverwriteInv'
  <2> SUFFICES ASSUME cpc' = "shift", Hole' \in Slots, Occupied(Hole)' PROVE OverwriteInv'
    BY DEF OverwriteInv
  <2>1. cpc = "shift" /\ Hole \in Slots
    BY <1>1
  <2>2. SubmitAppend
    BY <2>1 DEF Load, At
  <2>3. curr # Hole
    BY <2>1, <2>2 DEF SubmitAppend, HoleUntouched
  <2>4. Occupied(Hole) /\ stack'[Hole] = stack[Hole]
    BY <1>1, <2>1, <2>3
  <2>5. \A k \in Slots : Occupied(k) => Occupied(k)' /\ stack'[k] = stack[k]
    BY <1>1, <1>2
  <2> QED BY <1>1, <2>1, <2>4, <2>5 DEF OverwriteInv
<1> QED BY <1>3, <1>4

LEMMA LeaveStep ==
  ASSUME IInv, OverwriteInv, HoleUntouched, [Next]_vars
  PROVE  OverwriteInv' /\ KilledLeave
BY KeepersStay, CopiesStay, CreationsStay DEF Refills

\* A process that was not killed stays in the table, through any compaction, as
\* long as no other thread writes to the slot that is overwritten next.
THEOREM RemovedWereKilled == Spec /\ []HoleUntouched => OnlyKilledLeave
<1>1. Init => OverwriteInv
  BY DEF Init, OverwriteInv
<1>2. IInv /\ OverwriteInv /\ HoleUntouched /\ [Next]_vars => OverwriteInv' /\ KilledLeave
  BY LeaveStep
<1>3. [KilledLeave]_vars <=>
        [\A p \in Pids :
           Present(p) /\ ~Present(p)' =>
             \E k \in Slots : stack[k].pid = p /\ stack[k].status = "KILL"]_vars
  BY DEF KilledLeave
<1> QED BY <1>1, <1>2, <1>3, InvariantHolds, PTL DEF Spec, OnlyKilledLeave

\* Without users and disk instructions nobody else writes into a compaction.
THEOREM BatchRemovesKilled ==
  ASSUME NoDisk, UserPrograms = {} PROVE Spec => OnlyKilledLeave
<1> DEFINE J == IInv /\ SelectInv /\ OriginInv /\ IdleDisk /\ rpc = "idle"
<1>1. Init => J
  BY KernelConstants, InitInv, InitSems DEF Init
<1>2. J /\ [Next]_vars => J'
  <2> SUFFICES ASSUME J, [Next]_vars PROVE J'
    OBVIOUS
  <2>1. IInv' /\ SelectInv' /\ OriginInv' /\ IdleDisk'
    BY KernelConstants, NextInv, SelectStep, OriginStep, IdleDiskStep
  <2>2. rpc' = "idle"
    BY DEF Next, CpuThread, RenderThread, DiskThread, Tick, NoRunning, ReapScan, Shift,
         ReapDone, Select, SelectFault, Dispatch, Kill, ExecNull, ExecCompute, ExecOther,
         ExecP, ExecV, Hang, ExecDisk, ExecDiskMiss, Load, LoadBroken, SubmitBroken,
         SubmitAppend, SubmitLog, DrawFault, FinishFind, FinishFault, UnblockFault, p_unblock,
         FinishWrite, Fault, vars, rndVars
  <2> QED BY <2>1, <2>2
<1>3. J => HoleUntouched
  BY DEF IdleDisk, HoleUntouched
<1> HIDE DEF J
<1> QED BY <1>1, <1>2, <1>3, RemovedWereKilled, PTL DEF Spec

\* In this step only killed processes leave, and those that are overwritten.
ExplainedLeave ==
  \A p \in Pids :
    Present(p) /\ ~Present(p)' =>
      \E k \in Slots :
        /\ Occupied(k) /\ stack[k].pid = p
        /\ \/ stack[k].status = "KILL"
           \/ Overwritten(k)

\* Only at its end is a process killed, and it does not go back.
LEMMA EndedStep ==
  ASSUME IInv, EndedInv, [Next]_vars
  PROVE  EndedInv'
<1> DEFINE Ended(p) == p.status = "KILL" => p.PC >= Len(Code[p.prog])
<1>0. /\ \A k \in Slots : stack[k].status = "KILL" => Occupied(k)
      /\ \A k \in Slots : Ended(stack[k])
  BY DEF IInv, TableInv, EndedInv
<1>1. CASE ~Refills
  <2>1. /\ SameProcs(stack, stack') /\ Moving(stack, stack')
        /\ \A k \in Slots : stack'[k].status = "KILL" => stack[k].status = "KILL" \/ Kill
    BY <1>1, SlotsStay
  <2>2. ASSUME NEW k \in Slots, stack'[k].status = "KILL", stack[k].status = "KILL"
        PROVE  stack'[k].PC >= Len(Code[stack'[k].prog])
    <3>1. /\ stack[k].PC >= Len(Code[stack[k].prog]) /\ stack'[k].prog = stack[k].prog
          /\ stack'[k].PC \in {stack[k].PC, NextPC(stack[k])}
      BY <1>0, <2>1, <2>2 DEF SameProcs, Moving, Unmoved
    <3>2. stack[k].PC \in Nat /\ Len(Code[stack[k].prog]) \in Nat
      BY <1>0, <2>2, TableFacts, KernelConstants
    <3> QED BY <3>1, <3>2 DEF NextPC
  <2>3. ASSUME NEW k \in Slots, stack'[k].status = "KILL", stack[k].status # "KILL"
        PROVE  stack'[k].PC >= Len(Code[stack'[k].prog])
    <3>1. Kill /\ Executing
      BY <2>1, <2>3 DEF Kill, At, Executing
    <3>2. stack' = Mark(stack, csel, "KILL") /\ stack[csel].PC = Len(Code[stack[csel].prog])
      BY <3>1, FindRunning DEF Kill, AtEnd, Running
    <3>3. /\ \A l \in Slots : stack'[l].status = IF l = csel THEN "KILL" ELSE stack[l].status
          /\ Resting(stack, stack')
      BY <3>2, TypedTable, MarkTable, MarkRests DEF Statuses
    <3>4. k = csel /\ stack'[k].PC = stack[k].PC /\ stack'[k].prog = stack[k].prog
      BY <2>3, <3>3 DEF Resting, Unmoved
    <3>5. csel \in Slots /\ Occupied(csel)
      BY <3>1, KernelConstants, ExecFacts
    <3>6. stack[csel].PC \in Nat
      BY <3>5, TableFacts, KernelConstants
    <3> QED BY <3>2, <3>4, <3>6
  <2> QED BY <2>2, <2>3 DEF EndedInv
<1>2. CASE Shift /\ cj < MAX_PCB
  <2>1. /\ cj \in Slots
        /\ \A k \in Slots : stack'[k] = IF k = cj - 1 THEN stack[cj] ELSE stack[k]
    BY <1>2, CopyStops
  <2>2. \A k \in Slots : Ended(stack'[k])
    BY <1>0, <2>1
  <2> QED BY <2>2 DEF EndedInv
<1>3. CASE Shift /\ ~(cj < MAX_PCB)
  BY <1>3 DEF Shift, EndedInv
<1>4. CASE SubmitAppend \/ (Load /\ ~UNCHANGED pcbVars)
  <2>1. /\ stack'[curr].status = "NEW"
        /\ \A k \in Slots : k # curr => stack'[k] = stack[k]
    BY <1>4, CreateStops
  <2>2. \A k \in Slots : Ended(stack'[k])
    BY <1>0, <2>1
  <2> QED BY <2>2 DEF EndedInv
<1> QED BY <1>1, <1>2, <1>3, <1>4 DEF Refills

\* In the middle of a compaction only the disk and a creation write.
LEMMA ShiftRests ==
  ASSUME IInv, [Next]_vars, ~Refills, cpc = "shift"
  PROVE  /\ cpc' = "shift" /\ Hole' = Hole
         /\ stack' = stack \/ (FinishWrite /\ stack' = Mark(stack, dptr, "READY"))
<1>1. ~CpuThread
  BY DEF CpuThread, Tick, NoRunning, ReapScan, Refills, ReapDone, Select,
     SelectFault, Dispatch, Kill, ExecNull, ExecCompute, ExecOther, ExecP, ExecV,
     Hang, ExecDisk, ExecDiskMiss, Load, LoadBroken, At, CanRun, Executing, WaiterGone
<1>2. cj' = cj /\ cpc' = cpc /\ (stack' = stack \/ FinishWrite)
  <2>1. CASE RenderThread
    BY <2>1 DEF RenderThread, Refills, Submit, SubmitBroken, SubmitLog, DrawFault,
         Fault, vars, pcbVars, cpuVars
  <2>2. CASE DiskThread
    BY <2>2 DEF DiskThread, FinishFind, FinishFault, FinishWrite, UnblockFault, p_unblock,
         Fault, vars, pcbVars, cpuVars
  <2> QED BY <1>1, <2>1, <2>2 DEF Next, vars, pcbVars, cpuVars
<1> QED BY <1>2 DEF Hole, FinishWrite

\* The process in the slot that is overwritten next: what the disk does to it.
LEMMA KeepersExplained ==
  ASSUME IInv, EndedInv, LostInv, [Next]_vars, ~Refills
  PROVE  LostInv' /\ ExplainedLeave
<1>1. \A k \in Slots : stack'[k].pid = stack[k].pid /\ (Occupied(k)' <=> Occupied(k))
  BY SlotsStay DEF SameProcs, Occupied
<1>2. ExplainedLeave
  BY <1>1 DEF ExplainedLeave, Present
<1>3. LostInv'
  <2> SUFFICES ASSUME cpc' = "shift", Hole' \in Slots, Occupied(Hole)' PROVE LostInv'
    BY DEF LostInv
  <2>1. CASE cpc = "shift" /\ stack' = stack
    BY <2>1, ShiftRests DEF LostInv, Occupied, Overwritten
  <2>2. CASE cpc = "shift" /\ stack' = Mark(stack, dptr, "READY")
    <3>1. Hole' = Hole /\ Hole \in Slots /\ Occupied(Hole)
      BY <1>1, <2>2, ShiftRests
    <3>2. /\ Resting(stack, stack')
          /\ stack'[Hole].status = IF Hole = dptr THEN "READY" ELSE stack[Hole].status
      BY <2>2, <3>1, TypedTable, MarkTable, MarkRests DEF Statuses
    <3>3. stack'[Hole].PC = stack[Hole].PC /\ stack'[Hole].prog = stack[Hole].prog
      BY <3>1, <3>2 DEF Resting, Unmoved
    <3>4. CASE \E k \in Slots \ {Hole} : Occupied(k) /\ stack[k].pid = stack[Hole].pid
      BY <1>1, <3>1, <3>4 DEF LostInv
    <3>5. CASE stack[Hole].status = "KILL" /\ Hole # dptr
      BY <3>1, <3>2, <3>5 DEF LostInv
    <3>6. CASE Hole = dptr /\ (stack[Hole].status = "KILL" \/ Overwritten(Hole))
      <4>1. stack[Hole].PC = 0 \/ stack[Hole].PC >= Len(Code[stack[Hole].prog])
        BY <3>1, <3>6 DEF EndedInv, Overwritten
      <4> QED BY <3>1, <3>2, <3>3, <3>6, <4>1 DEF LostInv, Overwritten
    <3>7. CASE Hole # dptr /\ Overwritten(Hole)
      BY <3>1, <3>2, <3>3, <3>7 DEF LostInv, Overwritten
    <3> QED BY <2>2, <3>1, <3>4, <3>5, <3>6, <3>7 DEF LostInv
  <2>3. CASE cpc # "shift"
    <3>1. ReapScan /\ stack[ci].status = "KILL"
      BY <2>3 DEF Next, CpuThread, RenderThread, DiskThread, Tick, NoRunning, ReapScan, Refills,
           ReapDone, Select, SelectFault, Dispatch, Kill, ExecNull, ExecCompute, ExecOther,
           ExecP, ExecV, Hang, ExecDisk, ExecDiskMiss, Load, LoadBroken, Submit, SubmitBroken,
           SubmitLog, DrawFault, FinishFind, FinishFault, UnblockFault, p_unblock,
           FinishWrite, Fault, vars, pcbVars, cpuVars
    <3>2. stack' = stack /\ Hole' = ci
      BY <3>1, ReapStops
    <3> QED BY <3>1, <3>2 DEF LostInv
  <2> QED BY <2>1, <2>2, <2>3, ShiftRests
<1> QED BY <1>2, <1>3

\* The process that a copy overwrites is one of these or stands elsewhere.
LEMMA CopiesExplained ==
  ASSUME IInv, LostInv, Shift
  PROVE  LostInv' /\ ExplainedLeave
<1>1. CASE cj < MAX_PCB
  <2>1. /\ cpc' = "shift" /\ cpc = "shift" /\ cj \in Slots /\ cj - 1 \in Slots
        /\ Hole = cj - 1 /\ Hole' = cj /\ cj - 1 # cj
        /\ \A k \in Slots : stack'[k] = IF k = cj - 1 THEN stack[cj] ELSE stack[k]
        /\ \A k \in Slots : Occupied(k)' <=> IF k = cj - 1 THEN Occupied(cj) ELSE Occupied(k)
    BY <1>1, CopyStops DEF Shift, At
  <2>2. LostInv'
    <3>1. stack'[cj - 1] = stack[cj] /\ stack'[cj] = stack[cj]
      BY <2>1
    <3>2. \E k \in Slots \ {cj} : stack'[k].prog = stack'[cj].prog /\ stack'[k].pid = stack'[cj].pid
      BY <2>1, <3>1
    <3> QED BY <2>1, <3>2 DEF LostInv, Occupied
  <2>3. ExplainedLeave
    <3> SUFFICES ASSUME NEW p \in Pids, Present(p), ~Present(p)'
                 PROVE  \E k \in Slots : /\ Occupied(k) /\ stack[k].pid = p
                                         /\ stack[k].status = "KILL" \/ Overwritten(k)
      BY DEF ExplainedLeave
    <3>1. \A k \in Slots \ {cj - 1} : Occupied(k) => stack[k].pid # p
      BY <2>1 DEF Present
    <3>2. Occupied(cj - 1) /\ stack[cj - 1].pid = p
      BY <3>1 DEF Present
    <3>3. stack[cj - 1].status = "KILL" \/ Overwritten(cj - 1)
      BY <2>1, <3>1, <3>2 DEF LostInv
    <3> QED BY <2>1, <3>2, <3>3
  <2> QED BY <2>2, <2>3
<1>2. CASE ~(cj < MAX_PCB)
  <2>1. cpc' = "reap" /\ stack' = stack
    BY <1>2 DEF Shift
  <2>2. ExplainedLeave
    BY <2>1 DEF ExplainedLeave, Present, Occupied
  <2> QED BY <2>1, <2>2 DEF LostInv
<1> QED BY <1>1, <1>2

\* A creation in that slot has not begun.
LEMMA CreationsExplained ==
  ASSUME IInv, LostInv, SubmitAppend \/ (Load /\ ~UNCHANGED pcbVars)
  PROVE  LostInv' /\ ExplainedLeave
<1>1. /\ cpc = "shift" <=> cpc' = "shift"
      /\ Hole' = Hole /\ curr \in Slots
      /\ stack'[curr].status = "NEW" /\ stack'[curr].PC = 0
      /\ \A k \in Slots : k # curr => stack'[k] = stack[k]
      /\ \A k \in Slots : Occupied(k)' <=> k = curr \/ Occupied(k)
  BY CreateStops
<1>2. ~Occupied(curr)
  BY <1>1 DEF IInv, TypeOK, TableInv, Slots
<1>3. \A k \in Slots : Occupied(k) => Occupied(k)' /\ stack'[k] = stack[k]
  BY <1>1, <1>2
<1>4. ExplainedLeave
  BY <1>3 DEF ExplainedLeave, Present
<1>5. LostInv'
  <2> SUFFICES ASSUME cpc' = "shift", Hole' \in Slots, Occupied(Hole)' PROVE LostInv'
    BY DEF LostInv
  <2>1. CASE Hole = curr
    BY <1>1, <2>1 DEF LostInv, Overwritten
  <2>2. CASE Hole # curr
    <3>1. Hole \in Slots /\ Occupied(Hole) /\ stack'[Hole] = stack[Hole] /\ cpc = "shift"
      BY <1>1, <2>2
    <3>2. Overwritten(Hole) => Overwritten(Hole)'
      BY <1>1, <3>1 DEF Overwritten
    <3> QED BY <1>1, <1>3, <3>1, <3>2 DEF LostInv
  <2> QED BY <2>1, <2>2
<1> QED BY <1>4, <1>5

\* Whatever users and disk do in a compaction, who leaves the table was killed,
\* or was put into the slot that is overwritten next before it had begun or
\* after it had ended.
THEOREM LeaversHaveCause == Spec => LeaversExplained
<1>1. Init => EndedInv /\ LostInv
  BY DEF Init, ZeroSlot, EndedInv, LostInv
<1>2. IInv /\ EndedInv /\ LostInv /\ [Next]_vars => EndedInv' /\ LostInv' /\ ExplainedLeave
  BY EndedStep, KeepersExplained, CopiesExplained, CreationsExplained DEF Refills
<1>3. [ExplainedLeave]_vars <=>
        [\A p \in Pids :
           Present(p) /\ ~Present(p)' =>
             \E k \in Slots :
               /\ Occupied(k) /\ stack[k].pid = p
               /\ \/ stack[k].status = "KILL"
                  \/ Overwritten(k)]_vars
  BY DEF ExplainedLeave
<1> QED BY <1>1, <1>2, <1>3, InvariantHolds, PTL DEF Spec, LeaversExplained
=============================================================================
