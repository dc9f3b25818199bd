------------------------------ MODULE MCKernel ------------------------------
(* Workloads on which TLC checks Kernel; they abbreviate resources/sint1-5. *)
EXTENDS KernelInv

CONSTANTS s1, s2

E(n) == [op |-> "exec", t |-> n, sem |-> NoProg]
P(s) == [op |-> "P", t |-> 0, sem |-> s]
V(s) == [op |-> "V", t |-> 0, sem |-> s]
D(n) == [op |-> "disk", t |-> n, sem |-> NoProg]
Prt == [op |-> "print", t |-> 1, sem |-> NoProg]
Bad == [op |-> "bad", t |-> 0, sem |-> NoProg]

MCCode ==
  [lock   |-> <<P(s1), E(2), V(s1)>>,
   io     |-> <<D(1)>>,
   lockio |-> <<P(s1), D(1), V(s1)>>,
   two    |-> <<E(1), P(s1), P(s2), Prt, V(s2), V(s1)>>,
   both   |-> <<P(s1), E(3), P(s2), V(s1), E(1), V(s2)>>,
   comp   |-> <<E(3)>>,
   take   |-> <<P(s1)>>,
   gone   |-> <<>>]

MCPrograms == DOMAIN MCCode

MCDeclares == [p \in MCPrograms |->
                 {MCCode[p][i].sem : i \in 1 .. Len(MCCode[p])} \ {NoProg}]

\* A path that does not lead to a program.
MCBroken == {"gone"}

\* What fresh pages hold past the code: an invalid command.
FreshMemory == {Bad}
\* What the pages of a former process may hold that used the disk and a semaphore.
FormerDisk == {Bad, V(s1), D(1), D(2)}

\* The sint files: one, or any programs of a kind.
LoadLock == {<<"lock">>, <<"gone">>}
LoadMix == [1 .. 3 -> {"lockio", "io", "lock"}]
=============================================================================
