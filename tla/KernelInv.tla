----------------------------- MODULE KernelInv -----------------------------
(* The inductive invariants of Kernel.  TypeOK, OneRunning and PidsAscend    *)
(* are not inductive; the parts below say what each thread may rely on at    *)
(* each place of its code.  Then: the semaphores, what the stopped processes *)
(* wait for, why a batch does not fault, and who leaves the table.           *)
EXTENDS Kernel

\* cpu_s excludes the render thread's p_create from the disk's p_unblock.
LockInv ==
  /\ cpu_s = "render" <=> rpc # "idle"
  /\ cpu_s = "disk" <=> dpc # "idle"

\* Places of the CPU thread.
PlaceInv ==
  /\ cpc # "sleep" => quantum > 0
  /\ cpc = "shift" => cj \in 1 .. MAX_PCB /\ ci \in Slots
  /\ cpc = "select" /\ csel # NULL => csel < last
  /\ cpc \in {"exec", "run"} => csel \in Slots /\ csel < last
  /\ cpc = "run" => Occupied(csel)

\* curr counts the creations; a created process that is not in the table yet
\* has the largest pid.
CreateInv ==
  /\ curr <= MAX_PCB - 1
  /\ last_pid = IF rpc = "append" THEN curr + 1 ELSE curr
  /\ rpc = "append" => /\ curr < MAX_PCB - 1 /\ rnew.pid = curr
                       /\ rnew.prog # NoProg /\ rnew.status = "NEW" /\ rnew.PC = 0

\* Shape of the table: processes stand below curr and their pids are smaller
\* than any pid to come; an empty slot shows pid 0, which as a real pid only
\* lives in slot 0; only a process can be killed.
TableInv ==
  \A k \in Slots :
    /\ Occupied(k) => k < curr /\ stack[k].pid < curr
    /\ ~Occupied(k) => stack[k].pid = 0 /\ stack[k].status # "KILL"
    /\ Occupied(k) /\ stack[k].pid = 0 => k = 0

\* The one RUNNING process is the selected one, and none is left once
\* scheduler_no_running has passed.
RunInv ==
  \A k \in Slots :
    Occupied(k) /\ stack[k].status = "RUNNING" =>
      /\ k = csel /\ k < last
      /\ cpc \notin {"reap", "shift", "select"}
      /\ cpc = "norun" => ci <= k

\* The inductive invariant.
IInv == /\ TypeOK /\ LockInv /\ PlaceInv /\ CreateInv
        /\ TableInv /\ RunInv /\ PidsAscend /\ LastBoundsLive

-----------------------------------------------------------------------------
(* Semaphores. *)

\* The scheduler selects, and the CPU executes, no stopped process.
Stops == {"BLOCKED", "WAITING"}
SelectInv ==
  cpc \in {"exec", "run"} \/ (cpc = "select" /\ csel # NULL) =>
    stack[csel].status \notin Stops

\* No semaphore is at a limit: neither its i8 nor its ring overflows.
RingHasRoom == \A s \in Sems : Len(waiters[s]) + 1 < WAITERS_NUM
RoomLeft == RingHasRoom /\ \A s \in Sems : value[s] \in -I8_MAX .. I8_MAX - 1

\* A semaphore that no header has named is untouched.
UnnamedInv == \A s \in Sems \ sems : value[s] = 0 /\ waiters[s] = <<>>

\* The late half of p_unblock does not write to a process that waits for a
\* semaphore, as it may when a compaction moved the slot in between.
NoStrayWake == dpc = "write" => stack[dptr].status # "WAITING"

\* The rings hold processes that wait, no process twice.
RingsInv ==
  /\ \A s \in Sems : \A i \in 1 .. Len(waiters[s]) :
       \E k \in Slots \ {Hole} :
         Occupied(k) /\ stack[k].status = "WAITING" /\ stack[k].pid = waiters[s][i]
  /\ \A s, t \in Sems : \A i \in 1 .. Len(waiters[s]), j \in 1 .. Len(waiters[t]) :
       waiters[s][i] = waiters[t][j] => s = t /\ i = j

\* A program that names its semaphores in its header and passes P and V of each
\* in turn, first P.
Alternates(prog) ==
  /\ \A i \in 1 .. Len(Code[prog]) :
       Code[prog][i].op \in {"P", "V"} => Code[prog][i].sem \in Declares[prog]
  /\ \A s \in Sems : \A pc \in 0 .. Len(Code[prog]) :
       Done(prog, pc, "P", s) - Done(prog, pc, "V", s) \in {0, 1}
WellFormed == \A prog \in Programs : Alternates(prog)

\* The live processes between their P and their V on s, those that wait at the
\* P included; and the others.
Inside(p, s) == Done(p.prog, p.PC, "P", s) > Done(p.prog, p.PC, "V", s)
InsideOf(s) == {k \in Live : Inside(stack[k], s)}
OutsideOf(s) == {k \in Live : ~Inside(stack[k], s)}
WaitsAt(p, s) == p.status = "WAITING" /\ Code[p.prog][p.PC].sem = s

\* The value counts who is inside; a process that died inside lowered it for
\* good.  So does nobody else, and the i8 stays far from its limits.
CountInv ==
  \A s \in sems : /\ value[s] + Cardinality(InsideOf(s)) <= 1
                  /\ Cardinality(OutsideOf(s)) < curr + value[s]

\* Processes use semaphores that exist.
NamedInv == /\ \A k \in Slots : Occupied(k) => Declares[stack[k].prog] \subseteq sems
            /\ rpc = "append" => Declares[rnew.prog] \subseteq sems

\* A process in the ring of s waits at a P of s.
AtInv ==
  \A s \in Sems : \A i \in 1 .. Len(waiters[s]) : \A k \in Live :
    stack[k].pid = waiters[s][i] => WaitsAt(stack[k], s)

\* What Exclusion says, pid by pid: while a compaction copies the table down, a
\* process may stand in two slots.
HoldsInv ==
  \A s \in Sems : \A k, l \in Slots :
    Holds(k, s) /\ Holds(l, s) => stack[k].pid = stack[l].pid

InsideInv == CountInv /\ NamedInv /\ AtInv /\ HoldsInv
ExclusionInv == IInv /\ SelectInv /\ RingsInv /\ InsideInv

-----------------------------------------------------------------------------
(* What the stopped processes wait for. *)

\* Processes that wait for the disk or for a semaphore.
Stopped == {k \in Slots \ {Hole} : Occupied(k) /\ stack[k].status \in Stops}
IsBlocked(p) ==
  \E k \in Slots \ {Hole} : Occupied(k) /\ stack[k].status = "BLOCKED" /\ stack[k].pid = p

\* The cells of the semaphores' rings, the requests that the disk has not
\* finished and the one that it is finishing.
Cells == UNION {{<<s, i>> : i \in 1 .. Len(waiters[s])} : s \in Sems}
Requests == UNION {{<<p, n>> : n \in 1 .. io[p]} : p \in Pids}
Finishing == IF dpc = "write" THEN 1 ELSE 0

\* There are no more of them than stopped processes.  A cell need not belong to
\* a process that still waits: the late half of p_unblock may let it go on, but
\* then the process that the disk has served stays blocked instead.
ClaimsInv ==
  /\ IsFiniteSet(Cells) /\ IsFiniteSet(Requests)
  /\ Cardinality(Cells) + Cardinality(Requests) + Finishing <= Cardinality(Stopped)

-----------------------------------------------------------------------------
(* Where the processes come from. *)

Started == UserPrograms \cup {load[i] : i \in 1 .. Len(load)}
OriginInv == /\ \A k \in Slots : Occupied(k) => stack[k].prog \in Started
             /\ rpc = "append" => rnew.prog \in Started

\* No program that may be started has a disk instruction, nor do the pages that
\* it may run into.
NoDisk ==
  /\ \A l \in Loads : \A prog \in UserPrograms \cup {l[i] : i \in 1 .. Len(l)} :
       \A i \in 1 .. Len(Code[prog]) : Code[prog][i].op # "disk"
  /\ \A c \in StaleCode : c.op # "disk"
IdleDisk == dpc = "idle" /\ \A pid \in Pids : io[pid] = 0

-----------------------------------------------------------------------------
(* Why a batch does not fault. *)

\* The remaining time of the instruction that comes next is the one in the
\* program; only an exec instruction is left half done.
Fresh(p) ==
  p.PC < Len(Code[p.prog]) /\ Code[p.prog][p.PC + 1].op # "exec" =>
    p.rem = Code[p.prog][p.PC + 1].t
RemInv == \A k \in Slots : Occupied(k) => Fresh(stack[k])

\* No process stands behind an empty slot, between compactions.
NoGap == cpc # "shift" => \A k \in Slots : k < last => Occupied(k)

\* Without a user one program is created per quantum, so the table has room
\* for all of them.
BatchInv ==
  /\ rpc = "idle" /\ submitted = 0
  /\ curr <= LOAD_MAX
  /\ IF cpc = "sleep" THEN curr <= quantum ELSE curr < quantum

\* Programs that cannot end before all are created, one instruction a quantum.
LongEnough(l) == \A i \in 1 .. Len(l) : Len(Code[l[i]]) + 2 >= Len(l)

\* More programs are to come.
Loading == quantum < Len(load) \/ (quantum = Len(load) /\ cpc # "sleep")

\* Then the slots below last are the occupied ones.  While programs are created
\* nobody leaves; later a compaction closes every slot it has opened.
FilledInv ==
  LongEnough(load) =>
    /\ \A k \in Slots \ {Hole} :
         Occupied(k) <=> k < (IF cpc = "shift" /\ k < Hole THEN last - 1 ELSE last)
    /\ Loading =>
         /\ cpc # "shift" /\ last = curr
         /\ \A k \in Slots :
              /\ Occupied(k) =>
                   stack[k].PC + (IF cpc \in {"sleep", "load", "hung"} THEN 1 ELSE 2) <= quantum
              /\ stack[k].status = "KILL" =>
                   quantum = Len(load) /\ cpc \in {"run", "load", "hung"}

-----------------------------------------------------------------------------
(* Who leaves the table. *)

\* No other thread is about to write into the slot that a compaction will
\* overwrite next.
HoleUntouched ==
  cpc = "shift" => /\ rpc = "append" => curr # Hole
                   /\ dpc = "write" => dptr # Hole

\* What a compaction overwrites was killed, or has been copied down already.
OverwriteInv ==
  cpc = "shift" /\ Hole \in Slots /\ Occupied(Hole) =>
    \/ stack[Hole].status = "KILL"
    \/ \E k \in Slots \ {Hole} : Occupied(k) /\ stack[k].pid = stack[Hole].pid

\* Who is killed is at its end.
EndedInv ==
  \A k \in Slots : stack[k].status = "KILL" => stack[k].PC >= Len(Code[stack[k].prog])

\* The same of any write: the late answer of the disk turns a killed process in
\* that slot READY, and a creation there has not begun.
LostInv ==
  cpc = "shift" /\ Hole \in Slots /\ Occupied(Hole) =>
    \/ stack[Hole].status = "KILL"
    \/ Overwritten(Hole)
    \/ \E k \in Slots \ {Hole} : Occupied(k) /\ stack[k].pid = stack[Hole].pid
=============================================================================
