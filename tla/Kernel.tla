------------------------------- MODULE Kernel -------------------------------
(***************************************************************************)
(* The ChicOS kernel: the process table (process.c), the scheduler         *)
(* (scheduler.c), the CPU thread and the system calls (cpu.c) and the      *)
(* semaphores of synthetic programs (semaphore.c).                         *)
(*                                                                         *)
(* Three threads share the table: the CPU thread (cpu_loop), the render    *)
(* thread (a user submits a program) and the disk thread (a request is     *)
(* finished).  Every sys_call and interrupt_control runs under cpu_s; the  *)
(* scheduler's loops do not, they only take pcb_s for one slot at a time.  *)
(* A region under pcb_s touches one slot and calls nothing that blocks on  *)
(* cpu_s, so it is one step here and pcb_s needs no variable.              *)
(***************************************************************************)
EXTENDS Integers, Sequences, FiniteSets

CONSTANTS
  MAX_PCB,              \* slots of process_stack (11 in the code)
  TIME_SLICE,           \* quantum of an exec instruction
  MAX_TIME_MORE_PAGES,  \* slices at least this long end in p_realloc
  TOTAL_TRACKS,         \* largest legal disk track
  H_MOD,                \* h_used is a u8: 256
  I8_MAX,               \* semaphore values are an i8: 127
  WAITERS_NUM,          \* DEFAULT_WAITERS_NUM
  RW_MAX,               \* bound on rw_count, which the code leaves to i32
  Sems,                 \* semaphore names programs may use
  Programs, NoProg,     \* program files; NoProg marks a zero-filled slot
  Code,                 \* [Programs -> Seq(Instr)]
  Declares,             \* [Programs -> SUBSET Sems], the header's semaphores
  Broken,               \* files that open_file or read_header cannot read
  Loads, LOAD_MAX,      \* what the debug build's resources/sint1-4 may hold:
                        \* sequences of at most LOAD_MAX programs
  should_render,        \* whether there is a render thread
  UserPrograms,         \* programs the user may submit from the UI
  MaxUser,              \* bound on the user's submissions
  StaleCode,            \* instructions a read past the code may return
  MutexInit             \* values of the never-initialised semaphores->mutex

Ops == {"exec", "P", "V", "disk", "print", "bad"}
Instr == [op : Ops, t : Nat, sem : Sems \cup {NoProg}]

ASSUME KernelConstants ==
  /\ MAX_PCB \in 2 .. 256          \* a slot number is a u8
  /\ TIME_SLICE \in Nat \ {0} /\ MAX_TIME_MORE_PAGES \in Nat
  /\ TOTAL_TRACKS \in Nat /\ RW_MAX \in Nat
  /\ H_MOD \in Nat \ {0} /\ I8_MAX \in Nat \ {0} /\ WAITERS_NUM \in Nat \ {0}
  /\ NoProg \notin Programs
  /\ Code \in [Programs -> Seq(Instr)]
  /\ Declares \in [Programs -> SUBSET Sems]
  /\ Broken \subseteq Programs
  /\ LOAD_MAX \in Nat
  /\ Loads \subseteq {l \in Seq(Programs) : Len(l) <= LOAD_MAX}
  /\ should_render \in BOOLEAN
  /\ UserPrograms \subseteq Programs
  /\ MaxUser \in Nat
  /\ StaleCode \subseteq Instr
  /\ MutexInit \subseteq Nat

VARIABLES
  stack,                      \* app.pcb.process_stack
  curr, last, last_pid,       \* the other fields of PCB
  cpc, ci, cj, csel,          \* CPU thread: place, loop indices, selected
  quantum, load,              \* app.cpu.quantum_time (capped); the sint files
  cpu_s,                      \* who is inside a sys_call / interrupt_control
  rpc, rnew, submitted,       \* render thread inside p_create; submissions
  dpc, dptr,                  \* disk thread inside p_unblock and its pointer
  io,                         \* disk requests issued and not finished, by pid
  value, waiters, sems, mutex,\* semaphore list
  sys                         \* "up", or "down" after a fault or exit(1)

pcbVars == <<stack, curr, last, last_pid>>
cpuVars == <<cpc, ci, cj, csel, quantum, load>>
rndVars == <<rpc, rnew, submitted>>
dskVars == <<dpc, dptr, io>>
semVars == <<value, waiters, sems, mutex>>
vars == <<pcbVars, cpuVars, cpu_s, rndVars, dskVars, semVars, sys>>

-----------------------------------------------------------------------------
(* The process table. *)

Slots == 0 .. MAX_PCB - 1
NULL == MAX_PCB            \* a null process pointer
QUANTUM_MAX == LOAD_MAX + 1  \* bound: later quanta all behave alike
Pids == 0 .. LOAD_MAX + MaxUser
Statuses == {"NEW", "RUNNING", "READY", "BLOCKED", "KILL", "WAITING"}

Process == [pid : Nat, prog : Programs \cup {NoProg}, status : Statuses,
            PC : Nat, rem : Nat, rw : Nat, h : Nat]

\* Static storage is zero-filled: pid 0, status RUNNING (= 0), fb NULL.
ZeroSlot == [pid |-> 0, prog |-> NoProg, status |-> "RUNNING",
             PC |-> 0, rem |-> 0, rw |-> 0, h |-> 0]

Occupied(k) == stack[k].prog # NoProg
TimeAt(prog, pc) == IF pc < Len(Code[prog]) THEN Code[prog][pc + 1].t ELSE 0

\* MUTANT: the status of a created process is INACTIVE.
NewProcessInactive(prog) ==
  [pid |-> last_pid, prog |-> prog, status |-> "INACTIVE",
   PC |-> 0, rem |-> TimeAt(prog, 0), rw |-> 0, h |-> 0]

\* MUTANT: pids are taken from the number of live processes.
NewProcessPidLast(prog) ==
  [pid |-> last, prog |-> prog, status |-> "NEW",
   PC |-> 0, rem |-> TimeAt(prog, 0), rw |-> 0, h |-> 0]

NewProcess(prog) ==
  [pid |-> last_pid, prog |-> prog, status |-> "NEW",
   PC |-> 0, rem |-> TimeAt(prog, 0), rw |-> 0, h |-> 0]

\* The first slot whose pid matches, as a pointer.  The code's retries only
\* cover an entry that a concurrent compaction moves past the scan.
p_find(pid) ==
  IF \E k \in Slots : stack[k].pid = pid
  THEN CHOOSE k \in Slots : /\ stack[k].pid = pid
                            /\ \A j \in Slots : j < k => stack[j].pid # pid
  ELSE NULL

\* p->c.PC++; all positions past c.last behave alike.
Advance(p) ==
  LET end == Len(Code[p.prog]) IN
  [p EXCEPT !.PC = IF @ > end THEN @ ELSE @ + 1,
            !.rem = TimeAt(p.prog, p.PC + 1)]

\* p->status = s through a process pointer.
Mark(t, k, s) == [t EXCEPT ![k].status = s]

\* The selected process moves on to its next instruction.
Forward(t) == [t EXCEPT ![csel] = Advance(@)]

Fault == /\ sys' = "down"
         /\ UNCHANGED <<pcbVars, cpuVars, cpu_s, rndVars, dskVars, semVars>>

\* log_process reads an uninitialised record when the pid is not in the table.
LogUnknown == sys' \in {"up", "down"}

Init ==
  /\ stack = [k \in Slots |-> ZeroSlot]
  /\ curr = 0 /\ last = 0 /\ last_pid = 0
  /\ cpc = "sleep" /\ ci = 0 /\ cj = 0 /\ csel = NULL /\ quantum = 0
  /\ load \in Loads
  /\ cpu_s = "free"
  /\ rpc = "idle" /\ rnew = ZeroSlot /\ submitted = 0
  /\ dpc = "idle" /\ dptr = NULL /\ io = [p \in Pids |-> 0]
  /\ value = [s \in Sems |-> 0] /\ waiters = [s \in Sems |-> <<>>]
  /\ sems = {} /\ mutex \in MutexInit
  /\ sys = "up"

-----------------------------------------------------------------------------
(* CPU thread: cpu_loop and the scheduler. *)

At(pc) == sys = "up" /\ cpc = pc

Tick ==
  /\ At("sleep")
  /\ quantum' = IF quantum < QUANTUM_MAX THEN quantum + 1 ELSE quantum
  /\ cpc' = "norun" /\ ci' = 0
  /\ UNCHANGED <<pcbVars, cj, csel, load, cpu_s, rndVars, dskVars, semVars, sys>>

\* MUTANT: the loop ends one slot early.
NoRunningShort ==
  /\ At("norun")
  /\ IF ci + 1 < last
     THEN /\ stack' = IF stack[ci].status = "RUNNING"
                      THEN Mark(stack, ci, "READY") ELSE stack
          /\ ci' = ci + 1 /\ cpc' = cpc
     ELSE /\ ci' = 0 /\ cpc' = "reap" /\ stack' = stack
  /\ UNCHANGED <<curr, last, last_pid, cj, csel, quantum, load, cpu_s, rndVars,
                 dskVars, semVars, sys>>

\* scheduler_no_running, one slot per pcb_s region.
NoRunning ==
  /\ At("norun")
  /\ IF ci < last
     THEN /\ stack' = IF stack[ci].status = "RUNNING"
                      THEN Mark(stack, ci, "READY") ELSE stack
          /\ ci' = ci + 1 /\ cpc' = cpc
     ELSE /\ ci' = 0 /\ cpc' = "reap" /\ stack' = stack
  /\ UNCHANGED <<curr, last, last_pid, cj, csel, quantum, load, cpu_s, rndVars,
                 dskVars, semVars, sys>>

\* MUTANT: the compaction starts one slot too low.
ReapScanLow ==
  /\ At("reap") /\ ci < MAX_PCB
  /\ IF stack[ci].status = "KILL"
     THEN cpc' = "shift" /\ cj' = ci /\ ci' = ci
     ELSE cpc' = cpc /\ cj' = cj /\ ci' = ci + 1
  /\ UNCHANGED <<pcbVars, csel, quantum, load, cpu_s, rndVars, dskVars, semVars, sys>>

\* scheduler_kill_process, outer loop: look for a slot to close.
ReapScan ==
  /\ At("reap") /\ ci < MAX_PCB
  /\ IF stack[ci].status = "KILL"
     THEN cpc' = "shift" /\ cj' = ci + 1 /\ ci' = ci
     ELSE cpc' = cpc /\ cj' = cj /\ ci' = ci + 1
  /\ UNCHANGED <<pcbVars, csel, quantum, load, cpu_s, rndVars, dskVars, semVars, sys>>

\* Its inner loop copies one slot down per pcb_s region; curr stays as it is.
Shift ==
  /\ At("shift")
  /\ IF cj < MAX_PCB
     THEN /\ stack' = [stack EXCEPT ![cj - 1] = stack[cj]]
          /\ cj' = cj + 1
          /\ UNCHANGED <<last, cpc, ci>>
     ELSE /\ last' = (last + 255) % 256
          /\ cpc' = "reap" /\ ci' = ci + 1
          /\ UNCHANGED <<stack, cj>>
  /\ UNCHANGED <<curr, last_pid, csel, quantum, load, cpu_s, rndVars, dskVars,
                 semVars, sys>>

ReapDone ==
  /\ At("reap") /\ ci >= MAX_PCB
  /\ cpc' = IF last = 0 THEN "load" ELSE "select"
  /\ ci' = 0 /\ csel' = NULL
  /\ UNCHANGED <<pcbVars, cj, quantum, load, cpu_s, rndVars, dskVars, semVars, sys>>

\* The comparison of scheduler_get_process: fewest I/Os, then least h_used,
\* then smallest pid.
Better(c, s) ==
  \/ c.rw < s.rw
  \/ c.h < s.h /\ c.rw = s.rw
  \/ c.rw = s.rw /\ c.pid < s.pid

\* MUTANT: the scheduler looks at one slot too many.
MoreCandidatesIncl == ci <= last
MoreCandidates == ci < last

\* One candidate; comparing with a zero-filled slot dereferences its null fb.
Select ==
  /\ At("select") /\ MoreCandidates
  /\ IF stack[ci].status \in {"BLOCKED", "WAITING"}
     THEN csel' = csel
     ELSE /\ \/ csel = NULL
             \/ csel # NULL /\ Occupied(ci) /\ Occupied(csel)
          /\ csel' = IF csel = NULL THEN ci
                     ELSE IF Better(stack[ci], stack[csel]) THEN ci ELSE csel
  /\ ci' = ci + 1
  /\ UNCHANGED <<pcbVars, cpc, cj, quantum, load, cpu_s, rndVars, dskVars, semVars, sys>>

SelectFault ==
  /\ At("select") /\ MoreCandidates
  /\ stack[ci].status \notin {"BLOCKED", "WAITING"}
  /\ csel # NULL /\ ~(Occupied(ci) /\ Occupied(csel))
  /\ Fault

Dispatch ==
  /\ At("select") /\ ~MoreCandidates
  /\ IF csel = NULL
     THEN cpc' = "load" /\ stack' = stack
     ELSE cpc' = "exec" /\ stack' = Mark(stack, csel, "RUNNING")
  /\ UNCHANGED <<curr, last, last_pid, ci, cj, csel, quantum, load, cpu_s, rndVars,
                 dskVars, semVars, sys>>

-----------------------------------------------------------------------------
(* CPU thread: exec_process.  Each system call needs cpu_s. *)

Running == stack[csel]
AtEnd == Running.PC = Len(Code[Running.prog])
CanRun == \/ At("run")
          \/ At("exec") /\ Occupied(csel) /\ ~AtEnd

\* The instruction at it[PC]: past the loaded code the page holds whatever
\* its former owner left there.
Fetch ==
  IF Running.PC < Len(Code[Running.prog])
  THEN {[Code[Running.prog][Running.PC + 1] EXCEPT !.t = Running.rem]}
  ELSE StaleCode

\* End of the code: process_kill.  exec_process does not return after it.
Kill ==
  /\ At("exec") /\ cpu_s = "free" /\ Occupied(csel) /\ AtEnd
  /\ stack' = Mark(stack, p_find(Running.pid), "KILL")
  /\ cpc' = "run"
  /\ UNCHANGED <<curr, last, last_pid, ci, cj, csel, quantum, load, cpu_s, rndVars,
                 dskVars, semVars, sys>>

\* p_realloc reads the header again, which forgets the I/Os counted so far; the
\* instructions and the position in them are restored.
p_realloc(p) == [p EXCEPT !.rw = 0]

\* process_exec: run for the slice, or for what remains when that is less.
ExecCompute ==
  /\ CanRun /\ cpu_s = "free"
  /\ \E c \in Fetch :
       LET l == IF c.t < TIME_SLICE THEN c.t ELSE TIME_SLICE
           left == c.t - l
           ran == [Running EXCEPT !.h = (@ + 1) % H_MOD, !.rem = left]
           worked == IF l >= MAX_TIME_MORE_PAGES THEN p_realloc(ran) ELSE ran
       IN /\ c.op = "exec"
          /\ stack' = [stack EXCEPT ![csel] =
                         IF left > 0 THEN worked ELSE Advance(worked)]
  /\ cpc' = "load"
  /\ UNCHANGED <<curr, last, last_pid, ci, cj, csel, quantum, load, cpu_s, rndVars,
                 dskVars, semVars, sys>>

I8(v) == IF v > I8_MAX THEN v - 2 * (I8_MAX + 1)
         ELSE IF v < -(I8_MAX + 1) THEN v + 2 * (I8_MAX + 1) ELSE v

\* MUTANT: the ring is taken for full when head = tail.
waiter_push_eq(w, pid) ==
  IF Len(w) % WAITERS_NUM = 0 THEN w ELSE Append(w, pid)

\* waiter_push: the ring keeps one cell free, a push on a full ring is lost.
waiter_push(w, pid) == IF Len(w) + 1 >= WAITERS_NUM THEN w ELSE Append(w, pid)

\* MUTANT: the test of P is off by one.
MustWaitLate(v) == v < -1
MustWait(v) == v < 0

\* A system call that only moves the program on: print_request (served by the
\* printer), an invalid command, P or V on a semaphore that does not exist.
ExecOther ==
  /\ CanRun /\ cpu_s = "free"
  /\ \E c \in Fetch : \/ c.op \in {"print", "bad"}
                      \/ c.op \in {"P", "V"} /\ c.sem \notin sems
  /\ stack' = Forward(stack)
  /\ cpc' = "load"
  /\ UNCHANGED <<curr, last, last_pid, ci, cj, csel, quantum, load, cpu_s, rndVars,
                 dskVars, semVars, sys>>

\* semaphoreP
ExecP ==
  /\ CanRun /\ cpu_s = "free" /\ mutex > 0
  /\ \E c \in Fetch :
       /\ c.op = "P" /\ c.sem \in sems
       /\ LET v == I8(value[c.sem] - 1) IN
          /\ value' = [value EXCEPT ![c.sem] = v]
          /\ IF MustWait(v)
             THEN /\ waiters' = [waiters EXCEPT ![c.sem] =
                                   waiter_push(@, Running.pid)]
                  /\ stack' = Forward(Mark(stack, p_find(Running.pid), "WAITING"))
             ELSE /\ waiters' = waiters
                  /\ stack' = Forward(stack)
  /\ cpc' = "load"
  /\ UNCHANGED <<curr, last, last_pid, ci, cj, csel, quantum, load, cpu_s, rndVars,
                 dskVars, sems, mutex, sys>>

\* semaphoreV: wake the longest waiter, if there is one.
ExecV ==
  /\ CanRun /\ cpu_s = "free" /\ mutex > 0
  /\ \E c \in Fetch :
       /\ c.op = "V" /\ c.sem \in sems
       /\ value' = [value EXCEPT ![c.sem] = I8(@ + 1)]
       /\ IF waiters[c.sem] # <<>>
          THEN LET k == p_find(Head(waiters[c.sem])) IN
               /\ k # NULL
               /\ waiters' = [waiters EXCEPT ![c.sem] = Tail(@)]
               /\ stack' = Forward(Mark(stack, k, "READY"))
          ELSE /\ waiters' = waiters
               /\ stack' = Forward(stack)
  /\ cpc' = "load"
  /\ UNCHANGED <<curr, last, last_pid, ci, cj, csel, quantum, load, cpu_s, rndVars,
                 dskVars, sems, mutex, sys>>

\* V pops a waiter that is no longer in the table.
WaiterGone ==
  CanRun /\ mutex > 0 /\ \E c \in Fetch :
    /\ c.op = "V" /\ c.sem \in sems /\ waiters[c.sem] # <<>>
    /\ p_find(Head(waiters[c.sem])) = NULL

\* Null accesses: that waiter, or it[0] of a zero-filled slot, which has
\* PC = last = 0 and no code.
ExecNull ==
  /\ cpu_s = "free"
  /\ WaiterGone \/ (At("exec") /\ ~Occupied(csel))
  /\ Fault

\* sem_wait on a mutex that holds 0 never returns, and cpu_s stays taken.
Hang ==
  /\ CanRun /\ cpu_s = "free" /\ mutex = 0
  /\ \E c \in Fetch : c.op \in {"P", "V"} /\ c.sem \in sems
  /\ cpu_s' = "cpu" /\ cpc' = "hung"
  /\ UNCHANGED <<pcbVars, ci, cj, csel, quantum, load, rndVars, dskVars, semVars, sys>>

\* disk_request: count it, p_block, then simulate_io queues the request.
ExecDisk ==
  /\ CanRun /\ cpu_s = "free"
  /\ \E c \in Fetch : c.op = "disk" /\ c.t <= TOTAL_TRACKS
  /\ stack' = LET counted == [stack EXCEPT
                                ![csel].rw = IF @ < RW_MAX THEN @ + 1 ELSE @]
              IN  Forward(Mark(counted, p_find(Running.pid), "BLOCKED"))
  /\ io' = [io EXCEPT ![Running.pid] = @ + 1]
  /\ cpc' = "load"
  /\ UNCHANGED <<curr, last, last_pid, ci, cj, csel, quantum, load, cpu_s, rndVars,
                 dpc, dptr, semVars, sys>>

\* A track that does not exist is a critical error: exit(1) of the simulator.
ExecDiskMiss ==
  /\ CanRun /\ cpu_s = "free"
  /\ \E c \in Fetch : c.op = "disk" /\ c.t > TOTAL_TRACKS
  /\ Fault

-----------------------------------------------------------------------------
(* Process creation. *)

\* MUTANT: the table may be filled to its last slot.
TableFullLate == curr >= MAX_PCB
TableFull == curr >= MAX_PCB - 1

\* init_semaphore: a name that is in the list already keeps its value.
init_semaphore(names, v) ==
  /\ value' = [s \in Sems |-> IF s \in names \ sems THEN v ELSE value[s]]
  /\ sems' = sems \cup names
  /\ UNCHANGED <<waiters, mutex>>

\* read_header: init_semaphore(c, 1) for every name in the program's header.
InitSemaphores(prog) == init_semaphore(Declares[prog], 1)

\* The end of an iteration of cpu_loop: debug builds create one program per
\* quantum, on the CPU thread itself.
Load ==
  /\ At("load")
  /\ cpc' = "sleep"
  /\ IF quantum <= Len(load)
     THEN /\ cpu_s = "free"
          /\ IF TableFull
             THEN LogUnknown /\ UNCHANGED <<pcbVars, semVars>>
             ELSE /\ load[quantum] \notin Broken
                  /\ stack' = [stack EXCEPT ![curr] =
                                 NewProcess(load[quantum])]
                  /\ curr' = curr + 1 /\ last' = last + 1
                  /\ last_pid' = last_pid + 1
                  /\ InitSemaphores(load[quantum])
                  /\ sys' = sys
     ELSE UNCHANGED <<pcbVars, semVars, sys>>
  /\ UNCHANGED <<ci, cj, csel, quantum, load, cpu_s, rndVars, dskVars>>

\* A file that cannot be opened: p_create goes on with the null pointer that
\* open_file returns.  A file whose header line does not end: read_header does
\* not see the end of the file and writes names past its header.
LoadBroken ==
  /\ At("load") /\ cpu_s = "free" /\ quantum <= Len(load) /\ ~TableFull
  /\ load[quantum] \in Broken
  /\ Fault

\* read_path on the render thread: interrupt_control(process_create).
Submit(prog) ==
  /\ sys = "up" /\ rpc = "idle" /\ cpu_s = "free" /\ submitted < MaxUser
  /\ should_render /\ (TableFull \/ prog \notin Broken)
  /\ submitted' = submitted + 1
  /\ IF TableFull
     THEN LogUnknown /\ UNCHANGED <<rpc, rnew, cpu_s, last_pid, semVars>>
     ELSE /\ rnew' = NewProcess(prog) /\ last_pid' = last_pid + 1
          /\ InitSemaphores(prog)
          /\ cpu_s' = "render" /\ rpc' = "append" /\ sys' = sys
  /\ UNCHANGED <<stack, curr, last, cpuVars, dskVars>>

\* valid_path only asks whether the path exists.
SubmitBroken(prog) ==
  /\ sys = "up" /\ rpc = "idle" /\ cpu_s = "free" /\ submitted < MaxUser
  /\ should_render /\ ~TableFull /\ prog \in Broken
  /\ Fault

\* The pcb_s region at the end of p_create; it may meet a compaction halfway.
SubmitAppend ==
  /\ sys = "up" /\ rpc = "append"
  /\ stack' = [stack EXCEPT ![curr] = rnew]
  /\ curr' = curr + 1 /\ last' = last + 1
  /\ rpc' = "log"
  /\ UNCHANGED <<last_pid, cpuVars, cpu_s, rnew, submitted, dskVars, semVars, sys>>

\* log_process looks the new process up without pcb_s: a compaction may take it
\* away, or move it past the scan.
SubmitLog ==
  /\ sys = "up" /\ rpc = "log"
  /\ IF p_find(rnew.pid) = NULL \/ cpc = "shift" THEN LogUnknown ELSE sys' = sys
  /\ rpc' = "idle" /\ rnew' = ZeroSlot /\ cpu_s' = "free"
  /\ UNCHANGED <<pcbVars, cpuVars, submitted, dskVars, semVars>>

\* The panel reads the slots below last without pcb_s, and rw_count through
\* the null fb of a zero-filled one.  Otherwise drawing changes nothing.
DrawFault ==
  /\ sys = "up" /\ should_render /\ rpc = "idle"
  /\ \E k \in Slots : k < last /\ ~Occupied(k)
  /\ Fault

-----------------------------------------------------------------------------
(* Disk thread: interrupt_control(disk_finish), that is p_unblock.  The slot *)
(* is looked up first and written in a later pcb_s region.                   *)

p_unblock(pid) ==
  /\ sys = "up" /\ dpc = "idle" /\ cpu_s = "free" /\ p_find(pid) # NULL
  /\ dptr' = p_find(pid) /\ dpc' = "write" /\ cpu_s' = "disk"
  /\ UNCHANGED <<pcbVars, cpuVars, rndVars, semVars, sys>>

UnblockFault(pid) ==
  /\ sys = "up" /\ dpc = "idle" /\ cpu_s = "free" /\ p_find(pid) = NULL
  /\ Fault

\* What the disk does, as far as the kernel relies on it: a request that was
\* issued is finished, once.
FinishFind(pid) ==
  /\ io[pid] > 0 /\ p_unblock(pid)
  /\ io' = [io EXCEPT ![pid] = @ - 1]

FinishFault(pid) == io[pid] > 0 /\ UnblockFault(pid)

FinishWrite ==
  /\ sys = "up" /\ dpc = "write"
  /\ stack' = Mark(stack, dptr, "READY")
  /\ dpc' = "idle" /\ dptr' = NULL /\ cpu_s' = "free"
  /\ UNCHANGED <<curr, last, last_pid, cpuVars, rndVars, io, semVars, sys>>

-----------------------------------------------------------------------------
CpuThread ==
  \/ Tick \/ NoRunning \/ ReapScan \/ Shift \/ ReapDone
  \/ Select \/ SelectFault \/ Dispatch
  \/ Kill \/ ExecNull \/ ExecCompute \/ ExecOther
  \/ ExecP \/ ExecV \/ Hang \/ ExecDisk \/ ExecDiskMiss
  \/ Load \/ LoadBroken

RenderThread ==
  \/ \E prog \in UserPrograms : Submit(prog) \/ SubmitBroken(prog)
  \/ SubmitAppend \/ SubmitLog \/ DrawFault

DiskThread ==
  \/ \E pid \in Pids : FinishFind(pid) \/ FinishFault(pid)
  \/ FinishWrite

Next == CpuThread \/ RenderThread \/ DiskThread

Spec == Init /\ [][Next]_vars

\* Every thread keeps running; only the user need not submit anything, and the
\* panel need not look at the wrong moment.
Fairness == /\ WF_vars(CpuThread)
            /\ WF_vars(SubmitAppend \/ SubmitLog)
            /\ WF_vars(DiskThread)
FairSpec == Spec /\ Fairness

-----------------------------------------------------------------------------
(* Properties. *)

\* Types of all variables (process.h, semaphore.h, the threads' places).
TypeOK ==
  /\ stack \in [Slots -> Process]
  /\ curr \in Nat /\ last \in Nat /\ last_pid \in Nat
  /\ cpc \in {"sleep", "norun", "reap", "shift", "select", "exec", "run",
              "load", "hung"}
  /\ ci \in Nat /\ cj \in Nat /\ csel \in Slots \cup {NULL} /\ quantum \in Nat
  /\ load \in Loads
  /\ cpu_s \in {"free", "cpu", "render", "disk"}
  /\ rpc \in {"idle", "append", "log"} /\ rnew \in Process /\ submitted \in Nat
  /\ dpc \in {"idle", "write"} /\ dptr \in Slots \cup {NULL}
  /\ io \in [Pids -> Nat]
  /\ value \in [Sems -> Int] /\ waiters \in [Sems -> Seq(Nat)]
  /\ sems \subseteq Sems /\ mutex \in Nat
  /\ sys \in {"up", "down"}

\* During a compaction this slot holds a stale copy that the next step of
\* scheduler_kill_process overwrites.
Hole == IF cpc = "shift" THEN cj - 1 ELSE NULL

\* At most one process is RUNNING, whatever the other threads write into the
\* table between scheduler_no_running and the dispatch.
OneRunning ==
  \A k, l \in Slots :
    /\ Occupied(k) /\ stack[k].status = "RUNNING"
    /\ Occupied(l) /\ stack[l].status = "RUNNING"
    => k = l

\* The processes stand in the table in the order of their creation, even while
\* p_create appends in the middle of a compaction: p_find has one answer, and
\* the pid test of scheduler_get_process never decides.
PidsAscend ==
  \A k, l \in Slots \ {Hole} :
    Occupied(k) /\ Occupied(l) /\ k < l => stack[k].pid < stack[l].pid

\* The u8 last bounds the live processes from above, also while the disk and
\* the user write into a compaction: scheduler_kill_process never takes it
\* below zero, and no loop over the live slots leaves the table.
Live == {k \in Slots \ {Hole} : Occupied(k)}
LastBoundsLive ==
  Cardinality(Live) <= (IF cpc = "shift" THEN last - 1 ELSE last) /\ last <= curr

\* A process that waits is queued on a semaphore: no wake-up is lost.
WaitingIsQueued ==
  \A k \in Slots :
    Occupied(k) /\ stack[k].status = "WAITING" =>
      \E s \in Sems : \E i \in 1 .. Len(waiters[s]) :
        waiters[s][i] = stack[k].pid

Present(pid) == \E k \in Slots : Occupied(k) /\ stack[k].pid = pid

\* Positions of program prog before pc that hold op on semaphore s.
Done(prog, pc, op, s) ==
  Cardinality({i \in 1 .. Len(Code[prog]) :
                 i <= pc /\ Code[prog][i].op = op /\ Code[prog][i].sem = s})

\* The process of slot k has passed P(s), is not still waiting for it, and has
\* not yet done its V(s).
Holds(k, s) ==
  LET p == stack[k] IN
  /\ Occupied(k) /\ p.PC <= Len(Code[p.prog])
  /\ Done(p.prog, p.PC, "P", s) > Done(p.prog, p.PC, "V", s)
  /\ ~(p.status = "WAITING" /\ Code[p.prog][p.PC].sem = s)

\* A semaphore is created with value 1 (read_header): between a program's P
\* and its V no other program is inside.
Exclusion ==
  \A s \in Sems : Cardinality({stack[k].pid : k \in {l \in Slots : Holds(l, s)}}) <= 1

\* A process leaves the table only when it was killed.
OnlyKilledLeave ==
  [][\A p \in Pids :
       Present(p) /\ ~Present(p)' =>
         \E k \in Slots : stack[k].pid = p /\ stack[k].status = "KILL"]_vars

\* What a creation or a late answer of the disk may cost: a process leaves the
\* table when it was killed, or when one of them put it into the very slot that
\* a compaction overwrites next.  Then it has not begun or it is at its end; no
\* process that waits or is half way through is ever overwritten.
Overwritten(k) ==
  /\ cpc = "shift" /\ k = Hole /\ stack[k].status \in {"NEW", "READY"}
  /\ stack[k].PC = 0 \/ stack[k].PC >= Len(Code[stack[k].prog])
LeaversExplained ==
  [][\A p \in Pids :
       Present(p) /\ ~Present(p)' =>
         \E k \in Slots :
           /\ Occupied(k) /\ stack[k].pid = p
           /\ \/ stack[k].status = "KILL"
              \/ Overwritten(k)]_vars

\* Whatever order the disk, the user and the scheduler take, a semaphore's
\* value and its queue agree: -value processes are queued, none when it is not
\* negative (semaphoreP and semaphoreV, as long as no i8 or ring overflows).
ValueCountsWaiters ==
  \A s \in Sems : Len(waiters[s]) = IF value[s] < 0 THEN -value[s] ELSE 0

\* The kernel does not fault and does not exit.
NoFault == sys = "up"
=============================================================================
