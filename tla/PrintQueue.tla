----------------------------- MODULE PrintQueue -----------------------------
(***************************************************************************)
(* What the printer promises: jobs are printed one at a time in the order  *)
(* of their requests ("Disk and Printer Simulation (with SSTF and FIFO     *)
(* politics)"), each for the time its program asked for.                   *)
(***************************************************************************)
EXTENDS Naturals, Sequences

CONSTANTS Jobs, None   \* Jobs: records with a field time; None is no job

VARIABLES pending, printing

Init == pending = <<>> /\ printing = None

Request(j) == pending' = Append(pending, j) /\ UNCHANGED printing

Start == /\ printing = None /\ pending # <<>>
         /\ printing' = Head(pending) /\ pending' = Tail(pending)

Work  == /\ printing # None /\ printing.time > 0
         /\ printing' = [printing EXCEPT !.time = @ - 1]
         /\ UNCHANGED pending

Finish == /\ printing # None /\ printing.time = 0
          /\ printing' = None
          /\ UNCHANGED pending

Next == (\E j \in Jobs : Request(j)) \/ Start \/ Work \/ Finish

Safety == Init /\ [][Next]_<<pending, printing>>

Spec == Safety /\ WF_<<pending, printing>>(Start \/ Work \/ Finish)
=============================================================================
