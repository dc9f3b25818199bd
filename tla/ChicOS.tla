------------------------------- MODULE ChicOS -------------------------------
(***************************************************************************)
(* The kernel and the disk put together: disk_request hands the request of *)
(* the running process to q_put, and what the disk thread finishes is what *)
(* p_unblock is called with.  Kernel takes the disk for granted (a request *)
(* that was issued is finished, once); here it is the disk of DiskQueue,   *)
(* whose queue has no lock.                                                *)
(*                                                                         *)
(* q_put runs on the CPU thread inside the system call: while it is under  *)
(* way no other kernel step is taken.                                      *)
(***************************************************************************)
EXTENDS KernelHist

CONSTANT DISK_SLICE

ASSUME ChicConstants == DISK_SLICE \in Nat

VARIABLES
  queue, len, track, place, ri, rl, done,  \* the disk and its thread
  put, creq, cl,                           \* the CPU thread in q_put
  raced,   \* history: q_put and q_remove have overlapped
  stale,   \* history: p_unblock has written to a slot the process had left
  gap      \* history: a process was put beyond the live ones

D == INSTANCE DiskQueue WITH Procs <- Pids, dpc <- place, cpc <- put

diskVars == <<queue, len, track, place, ri, rl, done, put, creq, cl>>
histVars == <<raced, stale, gap, stray>>
coreVars == <<vars, diskVars>>
allVars == <<coreVars, histVars>>

-----------------------------------------------------------------------------
ChicInit ==
  /\ HistInit /\ D!DiskInit
  /\ raced = FALSE /\ stale = FALSE /\ gap = FALSE

\* cpu_s, which q_put runs under, and the CPU thread, which runs it.
Entered == put # "idle"

\* Everything but disk_request, the only step that counts up io.
KernelStep == /\ ~Entered
              /\ CpuThread \/ RenderThread
              /\ io' = io
              /\ UNCHANGED diskVars

\* The system call disk_request, up to q_put.
disk_request ==
  /\ ~Entered /\ ExecDisk
  /\ \E c \in Fetch :
       c.op = "disk" /\ c.t <= TOTAL_TRACKS /\ D!simulate_io(Running.pid, c.t)

DiskStep == /\ D!PutSteps \/ D!DiskThread
            /\ UNCHANGED <<pcbVars, cpuVars, cpu_s, rndVars, dskVars, semVars>>

\* MUTANT: the pid is read from the queue again, after q_remove.
FinishedHead == queue[0].id
\* The pid that q_remove took out of the queue, in local_p.
FinishedPid == done

\* interrupt_control(disk_finish).
FinishLookup ==
  /\ ~Entered /\ place = "finish"
  /\ p_unblock(FinishedPid)
  /\ io' = [io EXCEPT ![FinishedPid] = IF @ > 0 THEN @ - 1 ELSE 0]
  /\ UNCHANGED diskVars

FinishLookupFault ==
  /\ ~Entered /\ place = "finish"
  /\ UnblockFault(FinishedPid)
  /\ UNCHANGED diskVars

Finish == FinishWrite /\ D!Finished

Cpu == KernelStep \/ disk_request \/ (D!PutSteps /\ DiskStep)
Disk == (D!DiskThread /\ DiskStep) \/ FinishLookup \/ FinishLookupFault \/ Finish

ChicNext ==
  /\ Cpu \/ Disk
  /\ stray' = (stray \/ Stray)
  /\ raced' = (raced \/ D!Overlap')
  /\ stale' = (stale \/ (dpc = "write" /\ dpc' = "idle" /\ dptr # p_find(FinishedPid)))
  /\ gap' = (gap \/ (cpc' # "shift" /\ \E k \in Slots : k < last' /\ stack'[k].prog = NoProg))

ChicSpec == ChicInit /\ [][ChicNext]_allVars

ChicFairness == WF_coreVars(Cpu) /\ WF_coreVars(Disk)
ChicFairSpec == ChicSpec /\ ChicFairness

-----------------------------------------------------------------------------
(* Properties. *)

Tainted == raced \/ stale \/ gap

\* What Kernel assumes of the disk is true of this disk until q_put and
\* q_remove overlap: every step is a step of Kernel, whose disk thread
\* finishes only requests that were issued, or touches the disk alone.
KernelUntilRaced == [][raced' \/ Next]_vars

\* A blocked process has a request on its way into the queue, in it, in
\* service or about to be reported, from end to end; only an overlap of q_put
\* and q_remove or a write to a moved slot can strand one.
BlockedIsServed ==
  raced \/ stale \/
  \A k \in Slots \ {Hole} :
    Occupied(k) /\ stack[k].status = "BLOCKED" =>
      LET p == stack[k].pid IN D!InQueue(p) \/ D!BeingPut(p) \/ D!BeingDone(p)

\* The simulator goes down for one of four reasons: the queue of the disk was
\* raced, a moved slot was written, a process was put beyond the live ones, or
\* the program file or track it was given does not exist.
DownIsExplained ==
  sys = "down" =>
    \/ Tainted
    \/ \E i \in 1 .. Len(load) :
         \/ load[i] \in Broken
         \/ \E c \in {Code[load[i]][j] : j \in 1 .. Len(Code[load[i]])} \cup StaleCode :
              c.op = "disk" /\ c.t > TOTAL_TRACKS

\* The program's file exists and every P in it has its V.
Releases(prog) ==
  /\ prog \notin Broken
  /\ \A s \in Sems :
       Done(prog, Len(Code[prog]), "P", s) = Done(prog, Len(Code[prog]), "V", s)

\* Programs that exist and release what they take all terminate, through
\* scheduler, semaphores and disk, unless one of the three accidents happens, a
\* killed process does a former program's P, V or disk request, or the first P
\* meets 0 in the mutex that nobody initialises and hangs.
TerminateUnlessTainted ==
  \A p \in Pids :
    p < last_pid /\ (\A i \in 1 .. Len(load) : Releases(load[i]))
    ~> ~Present(p) \/ Tainted \/ stray \/ cpc = "hung"
=============================================================================
