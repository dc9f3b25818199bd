------------------------------ MODULE MCBatch -------------------------------
(* Headless batches for KernelHist, without the disk.                        *)
EXTENDS MCKernel, KernelHist

\* Any three programs of a kind.
LoadSems == [1 .. 3 -> {"lock", "two", "both", "comp"}]

\* What fresh pages and the pages of a former lock hold past the code.
FormerLock == {Bad, P(s1), E(2), V(s1)}
=============================================================================
