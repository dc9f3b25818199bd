------------------------------- MODULE Memory -------------------------------
(***************************************************************************)
(* The memory pool (mem.c): first-fit allocation of contiguous pages, and  *)
(* the second-chance replacement that takes pages back when the count of   *)
(* free pages is too small.  Any thread allocates; memory_s covers the     *)
(* search and the release, but neither the test of free_page_num nor the   *)
(* first read of the clock hand.                                           *)
(*                                                                         *)
(* A region under memory_s is one step, except the search of c_alloc: its  *)
(* two halves are apart because a failed allocation posts memory_s without *)
(* having waited for it, and from then on two threads may be inside.       *)
(* free_stack is left out: init_mem fills it, every later push finds it    *)
(* full, and nothing reads it.                                             *)
(***************************************************************************)
EXTENDS Integers, FiniteSets

CONSTANTS
  LEN,       \* pt.len, the pages of the pool
  U32,       \* free_page_num is a u32: 2^32
  Threads,
  Checked,   \* threads whose callers test the result for NULL
  Sizes,     \* pages of the allocations, header included
  MaxAlloc   \* bound on the number of allocations

ASSUME MemoryConstants ==
  /\ LEN \in Nat \ {0} /\ U32 \in Nat /\ U32 > LEN
  /\ Sizes \subseteq Nat \ {0}
  /\ Checked \subseteq Threads /\ MaxAlloc \in Nat

VARIABLES
  free, used,      \* pt.pages
  count,           \* pt.free_page_num
  hand,            \* the static i of second_chance
  memory_s,        \* value of the semaphore
  header,          \* page_num in the alloc_header of a page; 0: other data
  live,            \* how many regions the program holds, by start and size
  pc, num, at,     \* per thread: place, num_pages, and the page it works on
  allocs,          \* allocations so far
  sys              \* "up", or "down" after exit(1) or a null access

pages == <<free, used>>
thread == <<pc, num, at>>
vars == <<pages, count, hand, memory_s, header, live, thread, allocs, sys>>

Pages == 0 .. LEN - 1
Region == [start : Pages, n : Sizes]
Span(s, n) == s .. s + n - 1

Init ==
  /\ free = [p \in Pages |-> TRUE] /\ used = [p \in Pages |-> FALSE]
  /\ count = LEN /\ hand = 0 /\ memory_s = 1
  /\ header = [p \in Pages |-> 0]
  /\ live = [r \in Region |-> 0]
  /\ pc = [t \in Threads |-> "idle"] /\ num = [t \in Threads |-> 0]
  /\ at = [t \in Threads |-> 0]
  /\ allocs = 0 /\ sys = "up"

-----------------------------------------------------------------------------
At(t, place) == sys = "up" /\ pc[t] = place
Goto(t, place) == pc' = [pc EXCEPT ![t] = place]

\* c_alloc returns NULL: most callers write through the pointer at once.
ReturnNull(t) == /\ Goto(t, "idle")
                 /\ sys' = IF t \in Checked THEN "up" ELSE "down"

\* A request of 0 bytes returns NULL at once; nobody makes one.
c_alloc(t, n) ==
  /\ At(t, "idle") /\ allocs < MaxAlloc
  /\ num' = [num EXCEPT ![t] = n] /\ Goto(t, "room")
  /\ allocs' = allocs + 1
  /\ UNCHANGED <<pages, count, hand, memory_s, header, live, at, sys>>

\* A chunk that is not smaller than the pool.
AllocTooBig(t) ==
  /\ At(t, "idle") /\ allocs < MaxAlloc /\ allocs' = allocs + 1
  /\ ReturnNull(t)
  /\ UNCHANGED <<pages, count, hand, memory_s, header, live, num, at>>

\* The test of free_page_num, outside memory_s, also that of the while loop.
Room(t) ==
  /\ At(t, "room")
  /\ Goto(t, IF num[t] > count THEN "chance" ELSE "search")
  /\ UNCHANGED <<pages, count, hand, memory_s, header, live, num, at, allocs, sys>>

\* second_chance reads the hand before it waits for memory_s.
Chance(t) ==
  /\ At(t, "chance")
  /\ at' = [at EXCEPT ![t] = hand] /\ Goto(t, "scan")
  /\ UNCHANGED <<pages, count, hand, memory_s, header, live, num, allocs, sys>>

\* The k-th page of the scan, and whether it is found used: the second time
\* round it is not.
Visit(t, k) == (at[t] + k) % LEN
FoundUsed(t, k) == k < LEN /\ used[Visit(t, k)]

\* How many pages the scan examines: up to the one two before the hand, and
\* as many as it takes when the hand is at page 0 (i - 1 is -1).
ScanLength(t) ==
  IF hand = 0 THEN LEN + 1
  ELSE CHOOSE k \in 1 .. LEN : Visit(t, k) = hand - 1

Unused(t) == {k \in 0 .. ScanLength(t) - 1 : ~FoundUsed(t, k)}
FirstUnused(t) == CHOOSE k \in Unused(t) : \A j \in Unused(t) : k <= j
ClearFirst(t, k) == [p \in Pages |-> used[p] /\ \A j \in 0 .. k - 1 : Visit(t, j) # p]

\* MUTANT: the clock hand does not turn over.
BehindRaw(p) == p + 1
Behind(p) == (p + 1) % LEN

\* second_chance under memory_s.  It returns the page behind the unused one.
Scan(t) ==
  /\ At(t, "scan") /\ memory_s > 0
  /\ IF Unused(t) # {}
     THEN LET victim == Behind(Visit(t, FirstUnused(t))) IN
          /\ used' = ClearFirst(t, FirstUnused(t))
          /\ hand' = victim /\ at' = [at EXCEPT ![t] = victim]
          /\ Goto(t, "evict")
     ELSE /\ used' = ClearFirst(t, ScanLength(t))
          /\ Goto(t, "fail") /\ UNCHANGED <<hand, at>>
  /\ UNCHANGED <<free, count, memory_s, header, live, num, allocs, sys>>

\* MUTANT: the page taken back is not counted.
EvictUncounted(t) ==
  /\ At(t, "evict") /\ memory_s > 0
  /\ free' = [free EXCEPT ![at[t]] = TRUE]
  /\ Goto(t, "room")
  /\ UNCHANGED <<used, count, hand, memory_s, header, live, num, at, allocs, sys>>

\* The page is taken back, whoever holds it and even when it is free.
Evict(t) ==
  /\ At(t, "evict") /\ memory_s > 0
  /\ free' = [free EXCEPT ![at[t]] = TRUE]
  /\ count' = (count + 1) % U32
  /\ Goto(t, "room")
  /\ UNCHANGED <<used, hand, memory_s, header, live, num, at, allocs, sys>>

\* "Memory full even after page replacement": a post without a wait.
Fail(t) ==
  /\ At(t, "fail")
  /\ memory_s' = memory_s + 1
  /\ ReturnNull(t)
  /\ UNCHANGED <<pages, count, hand, header, live, num, at, allocs>>

\* MUTANT: the last page of the region is not looked at.
FitsShort(s, n) == s + n <= LEN /\ \A p \in Span(s, n - 1) : free[p]
Fits(s, n) == s + n <= LEN /\ \A p \in Span(s, n) : free[p]

\* First fit, or exit(1) when no region is large enough.
Search(t) ==
  /\ At(t, "search") /\ memory_s > 0
  /\ IF \E s \in Pages : Fits(s, num[t])
     THEN /\ at' = [at EXCEPT ![t] =
                      CHOOSE s \in Pages : /\ Fits(s, num[t])
                                           /\ \A q \in Pages : Fits(q, num[t]) => s <= q]
          /\ memory_s' = memory_s - 1 /\ Goto(t, "take") /\ sys' = sys
     ELSE /\ sys' = "down" /\ UNCHANGED <<at, memory_s, pc>>
  /\ UNCHANGED <<pages, count, hand, header, live, num, allocs>>

\* The pages' new state and the number of free pages.
Taken(s, n) ==
  /\ free' = [p \in Pages |-> free[p] /\ p \notin Span(s, n)]
  /\ used' = [p \in Pages |-> used[p] \/ p \in Span(s, n)]
  /\ header' = [p \in Pages |-> IF p = s THEN n
                                ELSE IF p \in Span(s, n) THEN 0 ELSE header[p]]
  /\ live' = [live EXCEPT ![[start |-> s, n |-> n]] = @ + 1]

\* MUTANT: memory_s is not posted.
TakeNoPost(t) ==
  /\ At(t, "take")
  /\ Taken(at[t], num[t])
  /\ count' = (count - num[t]) % U32
  /\ Goto(t, "idle")
  /\ UNCHANGED <<hand, memory_s, num, at, allocs, sys>>

Take(t) ==
  /\ At(t, "take")
  /\ Taken(at[t], num[t])
  /\ count' = (count - num[t]) % U32
  /\ memory_s' = memory_s + 1 /\ Goto(t, "idle")
  /\ UNCHANGED <<hand, num, at, allocs, sys>>

\* MUTANT: the released pages are counted one short.
c_dealloc_short(t, r) ==
  /\ At(t, "idle") /\ live[r] > 0 /\ memory_s > 0
  /\ LET n == header[r.start] IN
     /\ n > 0
     /\ free' = [p \in Pages |-> free[p] \/ p \in Span(r.start, n)]
     /\ count' = (count + n - 1) % U32
  /\ live' = [live EXCEPT ![r] = @ - 1]
  /\ UNCHANGED <<used, hand, memory_s, header, thread, allocs, sys>>

\* c_dealloc trusts the header, which another region may have replaced.
c_dealloc(t, r) ==
  /\ At(t, "idle") /\ live[r] > 0 /\ memory_s > 0
  /\ LET n == header[r.start] IN
     /\ n > 0
     /\ free' = [p \in Pages |-> free[p] \/ p \in Span(r.start, n)]
     /\ count' = (count + n) % U32
  /\ live' = [live EXCEPT ![r] = @ - 1]
  /\ UNCHANGED <<used, hand, memory_s, header, thread, allocs, sys>>

\* ... or whose place holds other data: the range released is arbitrary.
DeallocGarbage(t, r) ==
  /\ At(t, "idle") /\ live[r] > 0 /\ memory_s > 0 /\ header[r.start] = 0
  /\ sys' = "down"
  /\ UNCHANGED <<pages, count, hand, memory_s, header, live, thread, allocs>>

-----------------------------------------------------------------------------
Step(t) ==
  \/ Room(t) \/ Chance(t) \/ Scan(t) \/ Evict(t) \/ Fail(t) \/ Search(t) \/ Take(t)
Call(t) ==
  \/ \E n \in Sizes : c_alloc(t, n)
  \/ AllocTooBig(t)
  \/ \E r \in Region : c_dealloc(t, r) \/ DeallocGarbage(t, r)
Next == \E t \in Threads : Step(t) \/ Call(t)

Spec == Init /\ [][Next]_vars

\* A thread inside c_alloc runs on.
Fairness == \A t \in Threads : WF_vars(Step(t))
FairSpec == Spec /\ Fairness

-----------------------------------------------------------------------------
(* Properties. *)

\* Types of all variables (mem.h and the threads' locals).
TypeOK ==
  /\ free \in [Pages -> BOOLEAN] /\ used \in [Pages -> BOOLEAN]
  /\ count \in 0 .. U32 - 1 /\ hand \in Pages /\ memory_s \in Nat
  /\ header \in [Pages -> Sizes \cup {0}] /\ live \in [Region -> Nat]
  /\ pc \in [Threads -> {"idle", "room", "chance", "scan", "evict", "fail",
                         "search", "take"}]
  /\ num \in [Threads -> Sizes \cup {0}] /\ at \in [Threads -> Pages]
  /\ allocs \in 0 .. MaxAlloc /\ sys \in {"up", "down"}

FreePages == {p \in Pages : free[p]}

\* free_page_num is never below the number of free pages, whatever was taken
\* back or released twice: c_alloc's subtraction does not wrap around.
CountCovers == sys = "up" => Cardinality(FreePages) <= count

\* c_alloc returns: no thread waits for ever on memory_s or in the loop of page
\* replacement, when the others allocate finitely often (MaxAlloc).  Whether
\* threads that allocate without end can starve one is not asked here.
AllocReturns ==
  \A t \in Threads : pc[t] # "idle" ~> (pc[t] = "idle" \/ sys = "down")

\* The panel's "Free" is a percentage: no more pages are free than there are.
FreeAtMostAll == count <= LEN
=============================================================================
