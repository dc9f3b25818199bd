------------------------------ MODULE MCChicOS ------------------------------
(* Workloads for ChicOS: programs that share a semaphore and the disk.      *)
EXTENDS ChicOS

CONSTANT s1

Op(op, t, s) == [op |-> op, t |-> t, sem |-> s]
Track(n) == Op("disk", n, NoProg)

MCCode ==
  [lock   |-> <<Op("P", 0, s1), Op("exec", 2, NoProg), Op("V", 0, s1)>>,
   lockio |-> <<Op("P", 0, s1), Track(1), Op("V", 0, s1)>>,
   io     |-> <<Track(1)>>,
   seek   |-> <<Track(0), Track(1)>>,
   comp   |-> <<Op("exec", 1, NoProg)>>,
   take   |-> <<Op("P", 0, s1)>>,
   gone   |-> <<>>]

MCPrograms == DOMAIN MCCode
MCDeclares == [p \in MCPrograms |->
                 {MCCode[p][i].sem : i \in 1 .. Len(MCCode[p])} \ {NoProg}]

\* A path that does not lead to a program.
MCBroken == {"gone"}

\* What fresh pages and the page of a former take hold past the code.
FormerTake == {Op("bad", 0, NoProg), Op("P", 0, s1)}

\* Two that share a semaphore and the disk, with a third; one that comes back
\* to the disk; programs created after others have died, with one that never
\* gives the semaphore back; one whose file is missing.
MCLoads == {<<"lockio", "io", "lock">>, <<"io", "seek">>,
            <<"comp", "lock", "io", "take">>, <<"take", "lock", "lock", "io">>,
            <<"io", "gone">>}
=============================================================================
