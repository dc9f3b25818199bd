----------------------------- MODULE MemoryHist -----------------------------
(* Memory with a history of whether page replacement was ever needed.       *)
EXTENDS Memory

VARIABLE evicted

HistInit == Init /\ evicted = FALSE
HistNext == Next /\ evicted' = (evicted \/ \E t \in Threads : pc'[t] = "evict")
HistSpec == HistInit /\ [][HistNext]_<<vars, evicted>> /\ Fairness

Held == {r \in Region : live[r] > 0}
Pages_of(r) == Span(r.start, r.n)

\* As long as no page was taken back, no two regions share a page, no region
\* has a free page, and every page in no region is free - however the threads'
\* unlocked tests of free_page_num interleave.
RegionsDisjoint ==
  evicted \/ sys = "down" \/
    /\ \A r \in Held : live[r] = 1 /\ \A p \in Pages_of(r) : ~free[p]
    /\ \A r, s \in Held : r # s => Pages_of(r) \cap Pages_of(s) = {}
    /\ \A p \in Pages : ~free[p] => \E r \in Held : p \in Pages_of(r)

\* Until then free_page_num is the number of free pages.
CountExact == evicted \/ count = Cardinality(FreePages)
=============================================================================
