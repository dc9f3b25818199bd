----------------------------- MODULE KernelHist -----------------------------
(* Kernel with a history of what lies behind the ends of the programs.       *)
(* exec_process goes on after process_kill and executes one more instruction *)
(* from a page that, since p_realloc and p_kill return pages which the next  *)
(* p_create takes, may hold the code of a former process.  When that is a P  *)
(* that waits or a disk request, the process is no longer marked KILL: it    *)
(* is woken and selected again, past the end that process_kill looks for.    *)
EXTENDS KernelInv

VARIABLE stray  \* a process past its end has done a P, a V or a disk request

strayVars == <<vars, stray>>

Stray == /\ ExecP \/ ExecV \/ ExecDisk
         /\ Running.PC >= Len(Code[Running.prog])

HistInit == Init /\ stray = FALSE
HistNext == Next /\ stray' = (stray \/ Stray)
HistSpec == HistInit /\ [][HistNext]_strayVars
HistFairSpec == HistSpec /\ Fairness

-----------------------------------------------------------------------------
(* Properties. *)

\* Mutual exclusion between P and V (read_header, semaphoreP, semaphoreV) up to
\* the first P, V or disk request of a process that has been killed already.
ExclusionUnlessStray == stray \/ Exclusion

\* Every process that was created terminates and leaves the table, unless the
\* first P hangs in the mutex that nobody initialises or a killed process goes
\* on with a former program's instructions.
TerminateUnlessStray ==
  \A p \in Pids :
    p < last_pid ~> (~Present(p) /\ rpc = "idle") \/ cpc = "hung" \/ stray
=============================================================================
