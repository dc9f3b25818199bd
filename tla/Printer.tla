------------------------------- MODULE Printer -------------------------------
(***************************************************************************)
(* The printer (printer.c) and the panel that shows it (print_event of     *)
(* render.c).  Jobs stand in a linked list whose nodes come from c_alloc.  *)
(*                                                                         *)
(* The list is changed under printer_s inside a system call, so a change   *)
(* is one step.  printer_loop frees the node it has printed under          *)
(* memory_s only: the node may be allocated again while printer_buffer, or *)
(* the pointer that the panel has fetched, still leads to it.              *)
(***************************************************************************)
EXTENDS Naturals, Sequences, FiniteSets

CONSTANTS
  Nodes,     \* memory regions c_alloc can return here
  NULL,      \* a null pointer
  Pids,      \* processes that print
  MAX_TIME,  \* largest print time
  MaxJobs    \* bound on the print requests: programs are finite

ASSUME PrinterConstants ==
  /\ IsFiniteSet(Nodes) /\ NULL \notin Nodes /\ NULL \notin [pid : Nat, time : Nat]
  /\ Pids \subseteq Nat /\ MAX_TIME \in Nat /\ MaxJobs \in Nat

VARIABLES
  heap, used,          \* print_list nodes, and those not deallocated
  head, tail, buffer,  \* app.printer.head, tail, printer_buffer
  ppc,                 \* place of the printer thread
  rpc, rbuf,           \* render thread: place and buff
  jobs                 \* print requests so far

list == <<head, tail>>
render == <<rpc, rbuf>>
vars == <<heap, used, list, buffer, ppc, render, jobs>>

Jobs == [pid : Pids, time : 0 .. MAX_TIME]
Node == [pid : Pids \cup {0}, time : 0 .. MAX_TIME, prox : Nodes \cup {NULL}]

Init ==
  /\ heap = [n \in Nodes |-> [pid |-> 0, time |-> 0, prox |-> NULL]]
  /\ used = {} /\ head = NULL /\ tail = NULL /\ buffer = NULL
  /\ ppc = "tick" /\ rpc = "idle" /\ rbuf = NULL
  /\ jobs = 0

-----------------------------------------------------------------------------
(* CPU thread: a print_request. *)

\* MUTANT: the last node is not made the tail of a list that is not empty.
add_to_print_queue_no_tail(pid, time) ==
  /\ jobs < MaxJobs /\ jobs' = jobs + 1
  /\ \E new \in Nodes \ used :
       LET filled == [heap EXCEPT ![new] = [pid |-> pid, time |-> time, prox |-> NULL]]
       IN /\ used' = used \cup {new}
          /\ IF head = NULL
             THEN heap' = filled /\ head' = new /\ tail' = new
             ELSE heap' = [filled EXCEPT ![tail].prox = new] /\ UNCHANGED list
  /\ UNCHANGED <<buffer, ppc, render>>

add_to_print_queue(pid, time) ==
  /\ jobs < MaxJobs /\ jobs' = jobs + 1
  /\ \E new \in Nodes \ used :
       LET filled == [heap EXCEPT ![new] = [pid |-> pid, time |-> time, prox |-> NULL]]
       IN /\ used' = used \cup {new}
          /\ tail' = new
          /\ IF head = NULL
             THEN heap' = filled /\ head' = new
             ELSE heap' = [filled EXCEPT ![tail].prox = new] /\ UNCHANGED head
  /\ UNCHANGED <<buffer, ppc, render>>

-----------------------------------------------------------------------------
(* Printer thread: printer_loop. *)

\* MUTANT: a job of no time is counted down as well.
TickZero ==
  /\ ppc = "tick"
  /\ IF buffer = NULL
     THEN heap' = heap /\ ppc' = "next"
     ELSE LET t == heap[buffer].time - 1 IN
          /\ heap' = [heap EXCEPT ![buffer].time = t]
          /\ ppc' = IF t = 0 THEN "free" ELSE "next"
  /\ UNCHANGED <<used, list, buffer, render, jobs>>

Tick ==
  /\ ppc = "tick"
  /\ IF buffer = NULL
     THEN heap' = heap /\ ppc' = "next"
     ELSE LET t == heap[buffer].time IN
          /\ heap' = [heap EXCEPT ![buffer].time = IF t > 0 THEN t - 1 ELSE t]
          /\ ppc' = IF t <= 1 THEN "free" ELSE "next"
  /\ UNCHANGED <<used, list, buffer, render, jobs>>

\* MUTANT: the printed node is not deallocated.
FreeNothing ==
  /\ ppc = "free"
  /\ used' = used /\ ppc' = "clear"
  /\ UNCHANGED <<heap, list, buffer, render, jobs>>

\* c_dealloc(printer_buffer)
Free ==
  /\ ppc = "free"
  /\ used' = used \ {buffer} /\ ppc' = "clear"
  /\ UNCHANGED <<heap, list, buffer, render, jobs>>

Clear ==
  /\ ppc = "clear"
  /\ buffer' = NULL /\ ppc' = "next"
  /\ UNCHANGED <<heap, used, list, render, jobs>>

\* MUTANT: the pop that empties the list leaves the tail.
NextJobKeepTail ==
  /\ ppc = "next"
  /\ IF buffer = NULL /\ head # NULL
     THEN buffer' = head /\ head' = heap[head].prox /\ tail' = tail
     ELSE UNCHANGED <<buffer, list>>
  /\ ppc' = "tick"
  /\ UNCHANGED <<heap, used, render, jobs>>

\* print_finish: pop_print under cpu_s.
NextJob ==
  /\ ppc = "next"
  /\ IF buffer = NULL /\ head # NULL
     THEN /\ buffer' = head /\ head' = heap[head].prox
          /\ tail' = IF heap[head].prox = NULL THEN NULL ELSE tail
     ELSE UNCHANGED <<buffer, list>>
  /\ ppc' = "tick"
  /\ UNCHANGED <<heap, used, render, jobs>>

-----------------------------------------------------------------------------
(* Render thread: print_event fetches the pointer, then shows what it leads   *)
(* to; what it shows is left out.                                             *)

get_print_time ==
  /\ rpc = "idle"
  /\ rbuf' = buffer /\ rpc' = "show"
  /\ UNCHANGED <<heap, used, list, buffer, ppc, jobs>>

print_event ==
  /\ rpc = "show"
  /\ rbuf' = NULL /\ rpc' = "idle"
  /\ UNCHANGED <<heap, used, list, buffer, ppc, jobs>>

-----------------------------------------------------------------------------
PrinterThread == Tick \/ Free \/ Clear \/ NextJob
RenderThread == get_print_time \/ print_event
Next == \/ \E pid \in Pids, time \in 0 .. MAX_TIME : add_to_print_queue(pid, time)
        \/ PrinterThread \/ RenderThread

\* The printer's and the render thread's loops run on.
Spec == Init /\ [][Next]_vars /\ WF_vars(PrinterThread) /\ WF_vars(RenderThread)

-----------------------------------------------------------------------------
(* Properties. *)

\* Types of all variables (printer.h).
TypeOK ==
  /\ heap \in [Nodes -> Node] /\ used \subseteq Nodes
  /\ {head, tail, buffer, rbuf} \subseteq Nodes \cup {NULL}
  /\ ppc \in {"tick", "free", "clear", "next"} /\ rpc \in {"idle", "show"}
  /\ jobs \in 0 .. MaxJobs

\* The nodes from n on, at most k of them.
Chain[k \in Nat] ==
  [n \in Nodes \cup {NULL} |->
     IF n = NULL \/ k = 0 THEN <<>> ELSE <<n>> \o Chain[k - 1][heap[n].prox]]

Listed == Chain[Cardinality(Nodes) + 1][head]
JobOf(n) == [pid |-> heap[n].pid, time |-> heap[n].time]

\* The list is sound while nodes are freed and allocated around it: no node
\* stands in it twice, all are allocated, the last one is the tail, and the job
\* in the buffer is not in it.
ListSound ==
  /\ \A i, j \in 1 .. Len(Listed) : Listed[i] = Listed[j] => i = j
  /\ \A i \in 1 .. Len(Listed) : Listed[i] \in used
  /\ IF head = NULL THEN tail = NULL ELSE tail = Listed[Len(Listed)]
  /\ buffer # NULL /\ ppc # "clear" =>
       buffer \in used /\ \A i \in 1 .. Len(Listed) : Listed[i] # buffer

\* No memory is lost: every allocated node is listed or being printed.
NoLeak ==
  \A n \in used : n = buffer \/ \E i \in 1 .. Len(Listed) : Listed[i] = n

\* The printer implements the queue it promises, fairness included.
Pending == [i \in 1 .. Len(Listed) |-> JobOf(Listed[i])]
Current == IF buffer = NULL \/ ppc = "clear" THEN NULL ELSE JobOf(buffer)
PQ == INSTANCE PrintQueue WITH
        Jobs <- Jobs, None <- NULL, pending <- Pending, printing <- Current
ImplementsPrintQueue == PQ!Spec

\* print_event reads through the pointer that get_print_time returned: it still
\* leads to an allocated node.
ShownIsAllocated == [][rpc = "show" /\ rpc' = "idle" /\ rbuf # NULL => rbuf \in used]_vars
=============================================================================
