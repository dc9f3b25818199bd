---------------------------- MODULE MemoryProofs ----------------------------
(***************************************************************************)
(* Theorems about the memory pool, for any number of pages, any sizes and  *)
(* any number of threads and allocations: what holds before the first page *)
(* replacement, and what of the count of free pages remains afterwards.    *)
(***************************************************************************)
EXTENDS MemoryHist, SetLemmas

\* A thread inside c_alloc knows how many pages it wants.
NumInv ==
  \A t \in Threads :
    pc[t] \in {"room", "chance", "scan", "evict", "search", "take"} => num[t] \in Sizes

\* Before the first replacement the hand has not moved, and no scan has ended.
HandInv ==
  /\ hand = 0
  /\ \A t \in Threads : pc[t] \notin {"evict", "fail"}

\* memory_s is 1, or 0 while one thread takes the region it has found.
MutexInv ==
  /\ memory_s \in {0, 1}
  /\ memory_s = 1 => \A t \in Threads : pc[t] # "take"
  /\ \A t, u \in Threads : pc[t] = "take" /\ pc[u] = "take" => t = u
  /\ \A t \in Threads : pc[t] = "take" => Fits(at[t], num[t])

\* The regions held are apart, intact and all that is not free.
RegionInv ==
  /\ \A r \in Held : /\ live[r] = 1 /\ header[r.start] = r.n
                     /\ r.start + r.n <= LEN
                     /\ \A p \in Pages_of(r) : ~free[p]
  /\ \A r, s \in Held : r # s => Pages_of(r) \cap Pages_of(s) = {}
  /\ \A p \in Pages : ~free[p] => \E r \in Held : p \in Pages_of(r)

CountInv == count = Cardinality(FreePages)

Before == HandInv /\ MutexInv /\ RegionInv /\ CountInv

\* The inductive invariant.
IInv == TypeOK /\ NumInv /\ (evicted \/ Before)

-----------------------------------------------------------------------------
(* mem.c's operators. *)

\* Sizes and counts of pages are naturals, and the counter can hold them.
LEMMA Amounts ==
  /\ U32 \in Nat \ {0} /\ LEN \in Nat \ {0} /\ LEN < U32
  /\ \A n \in Sizes \cup {0} : n \in Nat
  /\ \A n \in Sizes : n > 0
  /\ TypeOK => count \in Nat
BY MemoryConstants DEF TypeOK

\* The scan of second_chance always has an end, and a page it returns exists.
LEMMA ScanIs ==
  ASSUME TypeOK, NEW t \in Threads
  PROVE  /\ ScanLength(t) \in 1 .. LEN + 1
         /\ hand = 0 => LEN \in Unused(t)
         /\ Unused(t) # {} => Behind(Visit(t, FirstUnused(t))) \in Pages
<1>0. LEN \in Nat \ {0} /\ hand \in 0 .. LEN - 1 /\ at[t] \in 0 .. LEN - 1
  BY MemoryConstants DEF TypeOK, Pages
<1>1. ScanLength(t) \in 1 .. LEN + 1
  <2>1. CASE hand = 0
    BY <1>0, <2>1 DEF ScanLength
  <2>2. CASE hand # 0
    <3> DEFINE k == IF at[t] < hand - 1 THEN hand - 1 - at[t] ELSE hand - 1 - at[t] + LEN
    <3>1. k \in 1 .. LEN
      BY <1>0, <2>2
    <3>2. hand - 1 \in 0 .. LEN - 1
      BY <1>0, <2>2
    <3>3. (at[t] + k = hand - 1) \/ (at[t] + k = hand - 1 + LEN)
      BY <1>0, <2>2
    <3>4. Visit(t, k) = hand - 1
      BY <1>0, <3>2, <3>3, ModSmall DEF Visit
    <3> HIDE DEF k
    <3>5. (CHOOSE j \in 1 .. LEN : Visit(t, j) = hand - 1) \in 1 .. LEN
      BY <3>1, <3>4
    <3> QED BY <1>0, <2>2, <3>5 DEF ScanLength
  <2> QED BY <2>1, <2>2
<1>2. hand = 0 => LEN \in Unused(t)
  <2> SUFFICES ASSUME hand = 0 PROVE LEN \in Unused(t)
    OBVIOUS
  <2>1. ScanLength(t) = LEN + 1
    BY DEF ScanLength
  <2>2. ~FoundUsed(t, LEN)
    BY <1>0 DEF FoundUsed
  <2> QED BY <1>0, <2>1, <2>2 DEF Unused
<1>3. Unused(t) # {} => Behind(Visit(t, FirstUnused(t))) \in Pages
  <2> SUFFICES ASSUME Unused(t) # {} PROVE Behind(Visit(t, FirstUnused(t))) \in Pages
    OBVIOUS
  <2>1. Unused(t) \in SUBSET Nat
    BY <1>1 DEF Unused
  <2>2. PICK x \in Unused(t) : \A j \in Unused(t) : x <= j
    BY <2>1, LeastNat
  <2>3. FirstUnused(t) \in Unused(t)
    BY <2>2 DEF FirstUnused
  <2>4. FirstUnused(t) \in Nat
    BY <2>1, <2>3
  <2>5. Visit(t, FirstUnused(t)) \in 0 .. LEN - 1
    <3>1. at[t] + FirstUnused(t) \in Int
      BY <1>0, <2>4
    <3> QED BY <1>0, <3>1, ModRange DEF Visit
  <2> QED BY <1>0, <2>5, ModRange DEF Behind, Pages
<1> QED BY <1>1, <1>2, <1>3

\* c_alloc's search finds the first place that fits.
LEMMA FirstFit ==
  ASSUME TypeOK, NEW n \in Sizes, \E s \in Pages : Fits(s, n)
  PROVE  LET f == CHOOSE s \in Pages : /\ Fits(s, n)
                                       /\ \A q \in Pages : Fits(q, n) => s <= q
         IN  f \in Pages /\ Fits(f, n)
<1> DEFINE S == {s \in Pages : Fits(s, n)}
<1>1. S \in SUBSET Nat /\ S # {}
  BY MemoryConstants DEF Pages
<1>2. PICK x \in S : \A q \in S : x <= q
  BY <1>1, LeastNat
<1>3. \E s \in Pages : Fits(s, n) /\ \A q \in Pages : Fits(q, n) => s <= q
  BY <1>2
<1> QED BY <1>3

-----------------------------------------------------------------------------
(* Types, whatever the threads do. *)

LEMMA TypeStep ==
  ASSUME TypeOK, NumInv, Next
  PROVE  TypeOK' /\ NumInv'
<1> USE MemoryConstants DEF At, Goto, thread, pages
<1>0. PICK t \in Threads : Step(t) \/ Call(t)
  BY DEF Next
<1>1. ASSUME NEW n \in Sizes, c_alloc(t, n) PROVE TypeOK' /\ NumInv'
  <2>1. TypeOK'
    BY <1>1 DEF c_alloc, TypeOK
  <2>2. NumInv'
    BY <1>1 DEF c_alloc, TypeOK, NumInv
  <2> QED BY <2>1, <2>2
<1>2. CASE AllocTooBig(t)
  <2>1. TypeOK'
    BY <1>2 DEF AllocTooBig, ReturnNull, TypeOK
  <2>2. NumInv'
    BY <1>2 DEF AllocTooBig, ReturnNull, TypeOK, NumInv
  <2> QED BY <2>1, <2>2
<1>3. CASE Room(t)
  <2>1. TypeOK'
    BY <1>3 DEF Room, TypeOK
  <2>2. NumInv'
    BY <1>3 DEF Room, TypeOK, NumInv
  <2> QED BY <2>1, <2>2
<1>4. CASE Chance(t)
  <2>1. TypeOK'
    BY <1>4 DEF Chance, TypeOK
  <2>2. NumInv'
    BY <1>4 DEF Chance, TypeOK, NumInv
  <2> QED BY <2>1, <2>2
<1>5. CASE Scan(t)
  <2>1. \A k : ClearFirst(t, k) \in [Pages -> BOOLEAN]
    BY DEF ClearFirst, TypeOK
  <2>2. CASE Unused(t) # {}
    <3> DEFINE v == Behind(Visit(t, FirstUnused(t)))
    <3>1. v \in Pages
      BY <2>2, ScanIs
    <3>2. /\ used' \in [Pages -> BOOLEAN] /\ hand' = v /\ at' = [at EXCEPT ![t] = v]
          /\ pc' = [pc EXCEPT ![t] = "evict"] /\ pc[t] = "scan"
          /\ UNCHANGED <<free, count, memory_s, header, live, num, allocs, sys>>
      BY <1>5, <2>1, <2>2 DEF Scan
    <3> HIDE DEF v
    <3>3. TypeOK'
      BY <3>1, <3>2 DEF TypeOK
    <3>4. NumInv'
      BY <3>2 DEF TypeOK, NumInv
    <3> QED BY <3>3, <3>4
  <2>3. CASE Unused(t) = {}
    <3>1. /\ used' \in [Pages -> BOOLEAN] /\ pc' = [pc EXCEPT ![t] = "fail"]
          /\ UNCHANGED <<free, count, hand, memory_s, header, live, num, at, allocs, sys>>
      BY <1>5, <2>1, <2>3 DEF Scan
    <3>3. TypeOK'
      BY <3>1 DEF TypeOK
    <3>4. NumInv'
      BY <3>1 DEF TypeOK, NumInv
    <3> QED BY <3>3, <3>4
  <2> QED BY <2>2, <2>3
<1>6. CASE Evict(t)
  <2>1. count' \in 0 .. U32 - 1
    BY <1>6, ModRange DEF Evict, TypeOK
  <2>2. TypeOK'
    BY <1>6, <2>1 DEF Evict, TypeOK
  <2>3. NumInv'
    BY <1>6 DEF Evict, TypeOK, NumInv
  <2> QED BY <2>2, <2>3
<1>7. CASE Fail(t)
  <2>1. TypeOK'
    BY <1>7 DEF Fail, ReturnNull, TypeOK
  <2>2. NumInv'
    BY <1>7 DEF Fail, ReturnNull, TypeOK, NumInv
  <2> QED BY <2>1, <2>2
<1>8. CASE Search(t)
  <2>1. num[t] \in Sizes
    BY <1>8 DEF Search, NumInv
  <2>2. CASE \E s \in Pages : Fits(s, num[t])
    <3> DEFINE f == CHOOSE s \in Pages : /\ Fits(s, num[t])
                                         /\ \A q \in Pages : Fits(q, num[t]) => s <= q
    <3>1. f \in Pages
      BY <2>1, <2>2, FirstFit
    <3>2. /\ at' = [at EXCEPT ![t] = f] /\ memory_s' = memory_s - 1 /\ memory_s > 0
          /\ pc' = [pc EXCEPT ![t] = "take"] /\ sys' = sys /\ pc[t] = "search"
          /\ UNCHANGED <<pages, count, hand, header, live, num, allocs>>
      BY <1>8, <2>2 DEF Search
    <3> HIDE DEF f
    <3>3. TypeOK'
      BY <3>1, <3>2 DEF TypeOK
    <3>4. NumInv'
      BY <3>2 DEF TypeOK, NumInv
    <3> QED BY <3>3, <3>4
  <2>3. CASE ~ \E s \in Pages : Fits(s, num[t])
    <3>1. /\ sys' = "down"
          /\ UNCHANGED <<pages, count, hand, memory_s, header, live, thread, allocs>>
      BY <1>8, <2>3 DEF Search
    <3>3. TypeOK'
      BY <3>1 DEF TypeOK
    <3>4. NumInv'
      BY <3>1 DEF NumInv
    <3> QED BY <3>3, <3>4
  <2> QED BY <2>2, <2>3
<1>9. CASE Take(t)
  <2> DEFINE r == [start |-> at[t], n |-> num[t]]
  <2>0. r \in Region /\ num[t] \in Sizes
    BY <1>9 DEF Take, TypeOK, NumInv, Region
  <2>1. count' \in 0 .. U32 - 1
    <3>1. num[t] \in Nat /\ count \in Nat
      BY <2>0, Amounts
    <3>2. count - num[t] \in Int /\ U32 \in Nat \ {0}
      BY <3>1
    <3>3. (count - num[t]) % U32 \in 0 .. U32 - 1
      BY <3>2, ModRange
    <3> QED BY <1>9, <3>3 DEF Take
  <2>2. free' \in [Pages -> BOOLEAN] /\ used' \in [Pages -> BOOLEAN]
    BY <1>9 DEF Take, Taken, TypeOK
  <2>3. header' \in [Pages -> Sizes \cup {0}]
    BY <1>9 DEF Take, Taken, TypeOK
  <2>4. live' = [live EXCEPT ![r] = @ + 1]
    BY <1>9 DEF Take, Taken
  <2> HIDE DEF r
  <2>5. live' \in [Region -> Nat]
    BY <2>0, <2>4 DEF TypeOK
  <2>6. TypeOK'
    BY <1>9, <2>1, <2>2, <2>3, <2>5 DEF Take, TypeOK
  <2>7. NumInv'
    BY <1>9 DEF Take, TypeOK, NumInv
  <2> QED BY <2>6, <2>7
<1>10. ASSUME NEW r \in Region, c_dealloc(t, r) PROVE TypeOK' /\ NumInv'
  <2> DEFINE n == header[r.start]
  <2>1. r.start \in Pages
    BY DEF Region
  <2>2. count' \in 0 .. U32 - 1
    <3>1. n \in Sizes \cup {0}
      BY <2>1 DEF TypeOK
    <3>2. n \in Nat /\ count \in Nat
      BY <3>1, Amounts
    <3> HIDE DEF n
    <3>3. (count + n) % U32 \in 0 .. U32 - 1
      BY <3>2, ModRange
    <3> QED BY <1>10, <3>3 DEF c_dealloc, n
  <2>3. free' \in [Pages -> BOOLEAN]
    BY <1>10 DEF c_dealloc, TypeOK
  <2>4. live' \in [Region -> Nat]
    BY <1>10 DEF c_dealloc, TypeOK
  <2>5. TypeOK'
    BY <1>10, <2>2, <2>3, <2>4 DEF c_dealloc, TypeOK
  <2>6. NumInv'
    BY <1>10 DEF c_dealloc, NumInv
  <2> QED BY <2>5, <2>6
<1>11. ASSUME NEW r \in Region, DeallocGarbage(t, r) PROVE TypeOK' /\ NumInv'
  BY <1>11 DEF DeallocGarbage, TypeOK, NumInv
<1>12. CASE Step(t)
  BY <1>3, <1>4, <1>5, <1>6, <1>7, <1>8, <1>9, <1>12 DEF Step
<1>13. CASE Call(t)
  BY <1>1, <1>2, <1>10, <1>11, <1>13 DEF Call
<1> QED BY <1>0, <1>12, <1>13

-----------------------------------------------------------------------------
(* Before the first replacement. *)

LEMMA FreeFinite ==
  TypeOK => /\ IsFiniteSet(FreePages) /\ Cardinality(FreePages) \in 0 .. LEN
            /\ FreePages \subseteq Pages
<1>1. IsFiniteSet(Pages) /\ Cardinality(Pages) = LEN
  BY Amounts, FS_Interval DEF Pages
<1>2. FreePages \in SUBSET Pages
  BY DEF FreePages
<1>3. IsFiniteSet(FreePages) /\ Cardinality(FreePages) <= LEN
  BY <1>1, <1>2, FS_Subset
<1> QED BY <1>2, <1>3, Amounts, FS_CardinalityType

LEMMA SpanSize ==
  ASSUME NEW s \in Int, NEW n \in Nat
  PROVE  IsFiniteSet(Span(s, n)) /\ Cardinality(Span(s, n)) = n
<1>1. s + n - 1 \in Int /\ (s > s + n - 1 <=> n = 0) /\ s + n - 1 - s + 1 = n
  OBVIOUS
<1>2. /\ IsFiniteSet(s .. s + n - 1)
      /\ Cardinality(s .. s + n - 1) = IF s > s + n - 1 THEN 0 ELSE s + n - 1 - s + 1
  BY <1>1, FS_Interval
<1> QED BY <1>1, <1>2 DEF Span

\* A step that touches no page and no region keeps what is said of them.
LEMMA PoolSame ==
  ASSUME RegionInv, CountInv, UNCHANGED <<free, header, live, count>>
  PROVE  RegionInv' /\ CountInv'
<1>1. Held' = Held /\ FreePages' = FreePages
  BY DEF Held, FreePages
<1> QED BY <1>1 DEF RegionInv, CountInv, Pages_of

\* Outside memory_s a thread prepares its search; under it the search fails.
LEMMA PrepareStep ==
  ASSUME TypeOK, NumInv, Before, NEW t \in Threads,
         \/ \E n \in Sizes : c_alloc(t, n)
         \/ AllocTooBig(t) \/ Room(t) \/ Chance(t)
         \/ Search(t) /\ pc' = pc
         \/ \E r \in Region : DeallocGarbage(t, r)
  PROVE  Before'
<1>1. /\ UNCHANGED <<free, header, live, count, hand, memory_s>>
      /\ pc' = pc \/ /\ pc[t] \in {"idle", "room", "chance"}
                     /\ \E x \in {"idle", "room", "chance", "scan", "search"} :
                          pc' = [pc EXCEPT ![t] = x]
      /\ pc[t] \in {"idle", "room", "chance", "search"}
      /\ \A u \in Threads : u # t => at'[u] = at[u] /\ num'[u] = num[u]
  <2>1. ASSUME NEW n \in Sizes, c_alloc(t, n) PROVE <1>1!:
    BY <2>1 DEF c_alloc, At, Goto, pages, TypeOK
  <2>2. CASE AllocTooBig(t)
    BY <2>2 DEF AllocTooBig, ReturnNull, At, Goto, pages
  <2>3. CASE Room(t)
    BY <2>3 DEF Room, At, Goto, pages
  <2>4. CASE Chance(t)
    BY <2>4 DEF Chance, At, Goto, pages, TypeOK
  <2>5. CASE Search(t) /\ pc' = pc
    <3>1. pc[t] = "search" /\ pc' # [pc EXCEPT ![t] = "take"]
      BY <2>5 DEF Search, At, TypeOK
    <3> QED BY <2>5, <3>1 DEF Search, At, Goto, pages
  <2>6. ASSUME NEW r \in Region, DeallocGarbage(t, r) PROVE <1>1!:
    BY <2>6 DEF DeallocGarbage, At, pages, thread
  <2> QED BY <2>1, <2>2, <2>3, <2>4, <2>5, <2>6
<1>2. \A u \in Threads : pc'[u] = "take" => pc[u] = "take" /\ u # t
  BY <1>1 DEF TypeOK
<1>3. \A u \in Threads : pc'[u] \notin {"evict", "fail"}
  BY <1>1 DEF TypeOK, Before, HandInv
<1>4. HandInv'
  BY <1>1, <1>3 DEF Before, HandInv
<1>5. MutexInv'
  <2>1. \A u \in Threads : pc'[u] = "take" => Fits(at[u], num[u])'
    BY <1>1, <1>2 DEF Before, MutexInv, Fits
  <2> QED BY <1>1, <1>2, <2>1 DEF Before, MutexInv
<1> QED BY <1>1, <1>4, <1>5, PoolSame DEF Before

\* A search that succeeds takes memory_s.
LEMMA SearchStep ==
  ASSUME TypeOK, NumInv, Before, NEW t \in Threads, Search(t), pc' # pc
  PROVE  Before'
<1>0. num[t] \in Sizes /\ pc[t] = "search"
  BY DEF Search, At, NumInv
<1> DEFINE f == CHOOSE s \in Pages : /\ Fits(s, num[t])
                                     /\ \A q \in Pages : Fits(q, num[t]) => s <= q
<1>1. \E s \in Pages : Fits(s, num[t])
  BY DEF Search
<1>2. f \in Pages /\ Fits(f, num[t])
  BY <1>0, <1>1, FirstFit
<1>3. /\ at' = [at EXCEPT ![t] = f] /\ memory_s' = memory_s - 1 /\ memory_s > 0
      /\ pc' = [pc EXCEPT ![t] = "take"]
      /\ UNCHANGED <<free, count, hand, header, live, num>>
  BY <1>1 DEF Search, Goto, pages
<1> HIDE DEF f
<1>4. memory_s = 1 /\ memory_s' = 0 /\ \A u \in Threads : pc[u] # "take"
  BY <1>3 DEF Before, MutexInv
<1>5. \A u \in Threads : pc'[u] = "take" => u = t
  BY <1>3, <1>4 DEF TypeOK
<1>6. Fits(at[t], num[t])'
  BY <1>2, <1>3 DEF TypeOK, Fits
<1>7. MutexInv'
  <2>1. \A u \in Threads : pc'[u] = "take" => Fits(at[u], num[u])'
    BY <1>5, <1>6
  <2> QED BY <1>3, <1>4, <1>5, <2>1 DEF MutexInv
<1>8. HandInv'
  BY <1>3 DEF TypeOK, Before, HandInv
<1> QED BY <1>3, <1>7, <1>8, PoolSame DEF Before

\* The region found is free to its last page, and stays so until it is taken:
\* the new region touches no other.
LEMMA TakeStep ==
  ASSUME TypeOK, NumInv, Before, NEW t \in Threads, Take(t)
  PROVE  Before'
<1> DEFINE s == at[t]
           n == num[t]
           r0 == [start |-> s, n |-> n]
<1>1. s \in Pages /\ n \in Sizes /\ pc[t] = "take" /\ Fits(s, n)
  BY DEF Take, At, TypeOK, NumInv, Before, MutexInv
<1>2. /\ free' = [p \in Pages |-> free[p] /\ p \notin Span(s, n)]
      /\ header' = [p \in Pages |-> IF p = s THEN n
                                    ELSE IF p \in Span(s, n) THEN 0 ELSE header[p]]
      /\ live' = [live EXCEPT ![r0] = @ + 1]
      /\ count' = (count - n) % U32 /\ memory_s' = memory_s + 1
      /\ pc' = [pc EXCEPT ![t] = "idle"] /\ UNCHANGED <<hand, num, at>>
  BY DEF Take, Taken, Goto
<1>3. /\ s \in 0 .. LEN - 1 /\ n \in Nat /\ n > 0 /\ s + n <= LEN
      /\ s \in Span(s, n) /\ Span(s, n) \subseteq Pages
      /\ \A p \in Span(s, n) : free[p]
  BY <1>1, Amounts DEF Pages, Span, Fits
<1>4. r0 \in Region /\ r0.start = s /\ r0.n = n
  BY <1>1 DEF Region
<1> HIDE DEF r0, s, n
<1>5. r0 \notin Held
  BY <1>3, <1>4 DEF Before, RegionInv, Pages_of
<1>6. live[r0] = 0 /\ live' = [live EXCEPT ![r0] = 1]
  <2>1. live[r0] \in Nat /\ ~(live[r0] > 0)
    BY <1>4, <1>5 DEF TypeOK, Held
  <2>2. live[r0] = 0
    BY <2>1
  <2> QED BY <1>2, <2>2
<1>7. Held' = Held \cup {r0} /\ live'[r0] = 1 /\ \A r \in Held : live'[r] = live[r]
  <2>1. \A r \in Region : live'[r] = IF r = r0 THEN 1 ELSE live[r]
    BY <1>6 DEF TypeOK
  <2> QED BY <1>4, <1>5, <2>1 DEF Held
<1>8. \A p \in Pages : free'[p] <=> free[p] /\ p \notin Span(s, n)
  BY <1>2
<1>9. RegionInv'
  <2>1. \A r \in Held : Pages_of(r) \cap Span(s, n) = {}
    BY <1>3 DEF Before, RegionInv
  <2>2. \A r \in Held : r.start \in Pages /\ r.start \in Pages_of(r) /\ Pages_of(r) \subseteq Pages
    <3> TAKE r \in Held
    <3>1. r.start \in Pages /\ r.n \in Sizes /\ r.start + r.n <= LEN
      BY DEF Held, Region, Before, RegionInv
    <3> QED BY <3>1, Amounts DEF Pages_of, Span, Pages
  <2>3. \A r \in Held : header'[r.start] = header[r.start]
    BY <1>2, <1>3, <2>1, <2>2
  <2>4. header'[s] = n
    BY <1>2, <1>3
  <2>5. Pages_of(r0) = Span(s, n)
    BY <1>4 DEF Pages_of
  <2>6. \A r \in Held' : /\ live'[r] = 1 /\ header'[r.start] = r.n
                         /\ r.start + r.n <= LEN
                         /\ \A p \in Pages_of(r) : ~free'[p]
    <3>1. \A r \in Held : \A p \in Pages_of(r) : ~free'[p]
      BY <1>8, <2>2 DEF Before, RegionInv
    <3>2. \A p \in Pages_of(r0) : ~free'[p]
      BY <1>3, <1>8, <2>5
    <3> QED BY <1>3, <1>4, <1>7, <2>3, <2>4, <3>1, <3>2 DEF Before, RegionInv
  <2>7. \A r, q \in Held' : r # q => Pages_of(r) \cap Pages_of(q) = {}
    BY <1>7, <2>1, <2>5 DEF Before, RegionInv
  <2>8. \A p \in Pages : ~free'[p] => \E r \in Held' : p \in Pages_of(r)
    BY <1>7, <1>8, <2>5 DEF Before, RegionInv
  <2> QED BY <2>6, <2>7, <2>8 DEF RegionInv, Pages_of
<1>10. CountInv'
  <2>1. FreePages' = FreePages \ Span(s, n) /\ FreePages \cap Span(s, n) = Span(s, n)
    BY <1>3, <1>8 DEF FreePages
  <2>2. Cardinality(Span(s, n)) = n
    BY <1>3, SpanSize
  <2>3. Cardinality(FreePages') = Cardinality(FreePages) - n
    <3>1. Cardinality(FreePages \ Span(s, n)) =
            Cardinality(FreePages) - Cardinality(FreePages \cap Span(s, n))
      BY FreeFinite, FS_Difference
    <3> QED BY <2>1, <2>2, <3>1
  <2>4. IsFiniteSet(FreePages') /\ Cardinality(FreePages') \in Nat
    BY <2>1, FreeFinite, FS_Difference, FS_CardinalityType
  <2>5. Cardinality(FreePages) \in 0 .. LEN
    BY FreeFinite
  <2>6. count - n \in 0 .. U32 - 1
    BY <1>3, <2>3, <2>4, <2>5, Amounts DEF Before, CountInv
  <2>7. count' = count - n
    BY <1>2, <2>6, Amounts, ModSmall
  <2> QED BY <2>3, <2>7 DEF Before, CountInv
<1>11. MutexInv'
  <2>1. memory_s = 0 /\ \A u \in Threads : u # t => pc[u] # "take"
    BY <1>1 DEF Before, MutexInv
  <2>2. \A u \in Threads : pc'[u] # "take"
    BY <1>2, <2>1 DEF TypeOK
  <2> QED BY <1>2, <2>1, <2>2 DEF MutexInv
<1>12. HandInv'
  BY <1>2 DEF TypeOK, Before, HandInv
<1> QED BY <1>9, <1>10, <1>11, <1>12 DEF Before

\* The header of a region held tells its size, so exactly its pages become free.
LEMMA DeallocStep ==
  ASSUME TypeOK, NumInv, Before, NEW t \in Threads, NEW r0 \in Region, c_dealloc(t, r0)
  PROVE  Before'
<1> DEFINE s == r0.start
           n == r0.n
<1>1. /\ r0 \in Held /\ live[r0] = 1 /\ header[s] = n
      /\ s \in 0 .. LEN - 1 /\ n \in Sizes /\ s + n <= LEN /\ memory_s > 0
  BY DEF c_dealloc, Held, Region, Before, RegionInv, Pages
<1>2. /\ free' = [p \in Pages |-> free[p] \/ p \in Span(s, n)]
      /\ count' = (count + n) % U32
      /\ live' = [live EXCEPT ![r0] = 0]
      /\ UNCHANGED <<hand, memory_s, header, pc, num, at>>
  BY <1>1 DEF c_dealloc, thread
<1>3. n \in Nat /\ n > 0 /\ Span(s, n) \subseteq Pages /\ Span(s, n) = Pages_of(r0)
  BY <1>1, Amounts DEF Pages, Span, Pages_of
<1> HIDE DEF s, n
<1>4. \A p \in Pages : free'[p] <=> free[p] \/ p \in Span(s, n)
  BY <1>2
<1>5. Held' = Held \ {r0} /\ \A r \in Held' : live'[r] = live[r]
  <2>1. \A r \in Region : live'[r] = IF r = r0 THEN 0 ELSE live[r]
    BY <1>2 DEF TypeOK
  <2> QED BY <2>1 DEF Held
<1>6. RegionInv'
  <2>1. \A r \in Held' : Pages_of(r) \cap Span(s, n) = {}
    BY <1>1, <1>3, <1>5 DEF Before, RegionInv
  <2>2. \A r \in Held' : Pages_of(r) \subseteq Pages
    <3> TAKE r \in Held'
    <3>1. r.start \in Pages /\ r.n \in Sizes /\ r.start + r.n <= LEN
      BY <1>5 DEF Held, Region, Before, RegionInv
    <3> QED BY <3>1, Amounts DEF Pages_of, Span, Pages
  <2>3. \A r \in Held' : /\ live'[r] = 1 /\ header'[r.start] = r.n
                         /\ r.start + r.n <= LEN
                         /\ \A p \in Pages_of(r) : ~free'[p]
    BY <1>2, <1>4, <1>5, <2>1, <2>2 DEF Before, RegionInv
  <2>4. \A r, q \in Held' : r # q => Pages_of(r) \cap Pages_of(q) = {}
    BY <1>5 DEF Before, RegionInv
  <2>5. \A p \in Pages : ~free'[p] => \E r \in Held' : p \in Pages_of(r)
    BY <1>3, <1>4, <1>5 DEF Before, RegionInv
  <2> QED BY <2>3, <2>4, <2>5 DEF RegionInv, Pages_of
<1>7. CountInv'
  <2>1. FreePages' = FreePages \cup Span(s, n) /\ FreePages \cap Span(s, n) = {}
    <3>1. \A p \in Span(s, n) : ~free[p]
      BY <1>1, <1>3 DEF Before, RegionInv
    <3> QED BY <1>3, <1>4, <3>1 DEF FreePages
  <2>2. IsFiniteSet(Span(s, n)) /\ Cardinality(Span(s, n)) = n
    BY <1>1, <1>3, SpanSize
  <2>3. Cardinality(FreePages \cup Span(s, n)) = Cardinality(FreePages) + n - Cardinality({})
    BY <2>1, <2>2, FreeFinite, FS_Union
  <2>4. Cardinality(FreePages') = Cardinality(FreePages) + n /\ Cardinality(FreePages) \in Nat
    BY <1>3, <2>1, <2>3, FreeFinite, FS_EmptySet
  <2>5. Cardinality(FreePages') <= LEN
    <3>1. IsFiniteSet(Pages) /\ Cardinality(Pages) = LEN
      BY Amounts, FS_Interval DEF Pages
    <3>2. FreePages' \in SUBSET Pages
      BY DEF FreePages
    <3> QED BY <3>1, <3>2, FS_Subset
  <2>6. count + n \in 0 .. U32 - 1
    BY <1>3, <2>4, <2>5, Amounts DEF Before, CountInv
  <2>7. count' = count + n
    BY <1>2, <2>6, Amounts, ModSmall
  <2> QED BY <2>4, <2>7 DEF Before, CountInv
<1>8. MutexInv'
  <2>1. memory_s = 1 /\ \A u \in Threads : pc[u] # "take"
    BY <1>1 DEF Before, MutexInv
  <2> QED BY <1>2, <2>1 DEF MutexInv
<1>9. HandInv'
  BY <1>2 DEF Before, HandInv
<1> QED BY <1>6, <1>7, <1>8, <1>9 DEF Before

-----------------------------------------------------------------------------
(* Also after a replacement: the count of free pages is never too low. *)

\* The u32 has room for the pages of one more region.
RoomAbove == sys = "up" => \A n \in Sizes : count + n < U32

\* As long as the program runs memory_s is a mutex, and the region a thread has
\* found stays free until the thread takes it.
CoverInv == sys = "up" => MutexInv /\ Cardinality(FreePages) <= count

\* What happens outside memory_s leaves the pages alone.
LEMMA OutsideCovers ==
  ASSUME TypeOK, MutexInv, Cardinality(FreePages) <= count, NEW t \in Threads,
         UNCHANGED <<free, count, memory_s>>,
         pc[t] # "take", pc'[t] # "take",
         \A u \in Threads : u # t => pc'[u] = pc[u] /\ at'[u] = at[u] /\ num'[u] = num[u]
  PROVE  CoverInv'
<1>1. \A u \in Threads : pc'[u] = "take" => pc[u] = "take" /\ u # t
  OBVIOUS
<1>2. \A u \in Threads : pc'[u] = "take" => Fits(at[u], num[u])'
  BY <1>1 DEF MutexInv, Fits
<1>3. FreePages' = FreePages
  BY DEF FreePages
<1>4. \A u \in Threads : (pc[u] = "take" <=> pc'[u] = "take")
  BY <1>1
<1> QED BY <1>2, <1>3, <1>4 DEF CoverInv, MutexInv

\* second_chance takes back one page at most and counts one.
LEMMA EvictCovers ==
  ASSUME TypeOK, NumInv, MutexInv, Cardinality(FreePages) <= count, RoomAbove,
         NEW t \in Threads, Evict(t)
  PROVE  CoverInv'
<1>1. /\ pc[t] = "evict" /\ sys = "up" /\ memory_s > 0
      /\ free' = [free EXCEPT ![at[t]] = TRUE] /\ count' = (count + 1) % U32
      /\ pc' = [pc EXCEPT ![t] = "room"] /\ UNCHANGED <<memory_s, num, at>>
  BY DEF Evict, At, Goto
<1>2. memory_s = 1 /\ \A u \in Threads : pc[u] # "take"
  BY <1>1 DEF MutexInv
<1>3. \A u \in Threads : pc'[u] # "take"
  BY <1>1, <1>2 DEF TypeOK
<1>4. FreePages' \subseteq FreePages \cup {at[t]}
  BY <1>1 DEF TypeOK, FreePages
<1>5. /\ Cardinality(FreePages') <= Cardinality(FreePages) + 1
      /\ Cardinality(FreePages') \in Nat /\ Cardinality(FreePages) \in Nat
  <2>1. IsFiniteSet(FreePages) /\ Cardinality(FreePages) \in Nat
    BY FreeFinite, FS_CardinalityType
  <2>2. /\ IsFiniteSet(FreePages \cup {at[t]})
        /\ Cardinality(FreePages \cup {at[t]}) <= Cardinality(FreePages) + 1
    BY <2>1, AddOne
  <2>3. /\ IsFiniteSet(FreePages') /\ Cardinality(FreePages') <= Cardinality(FreePages \cup {at[t]})
    BY <1>4, <2>2, FS_Subset
  <2> QED BY <2>1, <2>2, <2>3, FS_CardinalityType
<1>6. count' = count + 1
  <2>1. num[t] \in Sizes
    BY <1>1 DEF NumInv
  <2>2. count + 1 \in 0 .. U32 - 1
    BY <1>1, <2>1, Amounts DEF RoomAbove
  <2> QED BY <1>1, <2>2, Amounts, ModSmall
<1>7. Cardinality(FreePages') <= count'
  BY <1>5, <1>6, Amounts
<1>8. MutexInv'
  BY <1>1, <1>2, <1>3 DEF MutexInv
<1> QED BY <1>7, <1>8 DEF CoverInv

\* The search keeps memory_s when it finds a region.
LEMMA SearchCovers ==
  ASSUME TypeOK, NumInv, MutexInv, Cardinality(FreePages) <= count,
         NEW t \in Threads, Search(t)
  PROVE  CoverInv'
<1>1. CASE \E s \in Pages : Fits(s, num[t])
  <2>1. num[t] \in Sizes /\ pc[t] = "search"
    BY DEF Search, At, NumInv
  <2> DEFINE f == CHOOSE s \in Pages : /\ Fits(s, num[t])
                                       /\ \A q \in Pages : Fits(q, num[t]) => s <= q
  <2>2. f \in Pages /\ Fits(f, num[t])
    BY <1>1, <2>1, FirstFit
  <2>3. /\ at' = [at EXCEPT ![t] = f] /\ memory_s' = memory_s - 1 /\ memory_s > 0
        /\ pc' = [pc EXCEPT ![t] = "take"] /\ UNCHANGED <<free, count, num>>
    BY <1>1 DEF Search, Goto, pages
  <2> HIDE DEF f
  <2>4. memory_s = 1 /\ memory_s' = 0 /\ \A u \in Threads : pc[u] # "take"
    BY <2>3 DEF MutexInv
  <2>5. \A u \in Threads : pc'[u] = "take" => u = t
    BY <2>3, <2>4 DEF TypeOK
  <2>6. Fits(at[t], num[t])'
    BY <2>2, <2>3 DEF TypeOK, Fits
  <2>7. \A u \in Threads : pc'[u] = "take" => Fits(at[u], num[u])'
    BY <2>5, <2>6
  <2>8. MutexInv'
    BY <2>4, <2>5, <2>7 DEF MutexInv
  <2>9. FreePages' = FreePages
    BY <2>3 DEF FreePages
  <2> QED BY <2>3, <2>8, <2>9 DEF CoverInv
<1>2. CASE ~ \E s \in Pages : Fits(s, num[t])
  BY <1>2 DEF Search, CoverInv
<1> QED BY <1>1, <1>2

\* The pages taken were all free, so there were as many to count off.
LEMMA TakeCovers ==
  ASSUME TypeOK, NumInv, MutexInv, Cardinality(FreePages) <= count,
         NEW t \in Threads, Take(t)
  PROVE  CoverInv'
<1> DEFINE s == at[t]
           n == num[t]
<1>1. s \in Pages /\ n \in Sizes /\ pc[t] = "take" /\ Fits(s, n)
  BY DEF Take, At, TypeOK, NumInv, MutexInv
<1>2. /\ free' = [p \in Pages |-> free[p] /\ p \notin Span(s, n)]
      /\ count' = (count - n) % U32 /\ memory_s' = memory_s + 1
      /\ pc' = [pc EXCEPT ![t] = "idle"] /\ UNCHANGED <<num, at>>
  BY DEF Take, Taken, Goto
<1>3. /\ s \in 0 .. LEN - 1 /\ n \in Nat /\ s + n <= LEN
      /\ Span(s, n) \subseteq Pages /\ \A p \in Span(s, n) : free[p]
  BY <1>1, Amounts DEF Pages, Span, Fits
<1> HIDE DEF s, n
<1>4. Cardinality(FreePages') = Cardinality(FreePages) - n /\ Cardinality(FreePages') \in Nat
  <2>1. FreePages' = FreePages \ Span(s, n) /\ FreePages \cap Span(s, n) = Span(s, n)
    BY <1>2, <1>3 DEF FreePages
  <2>2. Cardinality(Span(s, n)) = n
    BY <1>3, SpanSize
  <2>3. Cardinality(FreePages \ Span(s, n)) =
          Cardinality(FreePages) - Cardinality(FreePages \cap Span(s, n))
    BY FreeFinite, FS_Difference
  <2>4. IsFiniteSet(FreePages') /\ Cardinality(FreePages') \in Nat
    BY <2>1, FreeFinite, FS_Difference, FS_CardinalityType
  <2> QED BY <2>1, <2>2, <2>3, <2>4
<1>5. Cardinality(FreePages) \in Nat /\ count \in 0 .. U32 - 1
  BY FreeFinite, FS_CardinalityType DEF TypeOK
<1>6. count - n \in 0 .. U32 - 1
  BY <1>3, <1>4, <1>5, Amounts
<1>7. count' = count - n
  BY <1>2, <1>6, Amounts, ModSmall
<1>8. MutexInv'
  <2>1. memory_s = 0 /\ \A u \in Threads : u # t => pc[u] # "take"
    BY <1>1 DEF MutexInv
  <2>2. \A u \in Threads : pc'[u] # "take"
    BY <1>2, <2>1 DEF TypeOK
  <2> QED BY <1>2, <2>1, <2>2 DEF MutexInv
<1>9. Cardinality(FreePages') <= count'
  BY <1>3, <1>4, <1>5, <1>7
<1> QED BY <1>8, <1>9 DEF CoverInv

\* Some of the pages released may be free already: all of them are counted.
LEMMA DeallocCovers ==
  ASSUME TypeOK, MutexInv, Cardinality(FreePages) <= count, RoomAbove,
         NEW t \in Threads, NEW r \in Region, c_dealloc(t, r)
  PROVE  CoverInv'
<1> DEFINE s == r.start
           n == header[s]
<1>1. /\ sys = "up" /\ memory_s > 0 /\ s \in Pages /\ n \in Sizes
  BY DEF c_dealloc, At, Region, TypeOK
<1>2. /\ free' = [p \in Pages |-> free[p] \/ p \in Span(s, n)]
      /\ count' = (count + n) % U32 /\ UNCHANGED <<memory_s, pc, num, at>>
  BY DEF c_dealloc, thread
<1> HIDE DEF s, n
<1>3. s \in Int /\ n \in Nat
  BY <1>1, Amounts DEF Pages
<1>4. FreePages' \subseteq FreePages \cup Span(s, n)
  BY <1>2 DEF FreePages
<1>5. Cardinality(FreePages') <= Cardinality(FreePages) + n
  <2>1. IsFiniteSet(FreePages) /\ IsFiniteSet(Span(s, n)) /\ Cardinality(Span(s, n)) = n
    BY <1>3, SpanSize, FreeFinite
  <2>2. /\ IsFiniteSet(FreePages \cup Span(s, n))
        /\ Cardinality(FreePages \cup Span(s, n)) =
             Cardinality(FreePages) + n - Cardinality(FreePages \cap Span(s, n))
    BY <2>1, FS_Union
  <2>3. Cardinality(FreePages \cap Span(s, n)) \in Nat
    <3>1. IsFiniteSet(FreePages \cap Span(s, n))
      BY <2>1, FS_Intersection
    <3> QED BY <3>1, FS_CardinalityType
  <2>4. Cardinality(FreePages') <= Cardinality(FreePages \cup Span(s, n))
    BY <1>4, <2>2, FS_Subset
  <2>5. /\ Cardinality(FreePages) \in Nat /\ Cardinality(FreePages') \in Nat
    <3>1. IsFiniteSet(FreePages')
      BY <1>4, <2>2, FS_Subset
    <3> QED BY <2>1, <3>1, FS_CardinalityType
  <2> QED BY <1>3, <2>2, <2>3, <2>4, <2>5
<1>6. Cardinality(FreePages) \in Nat /\ count \in Nat
  BY FreeFinite, Amounts, FS_CardinalityType
<1>7. count' = count + n
  <2>1. count + n \in 0 .. U32 - 1
    BY <1>1, <1>3, <1>6, Amounts DEF RoomAbove
  <2> QED BY <1>2, <2>1, Amounts, ModSmall
<1>8. Cardinality(FreePages') <= count'
  <2>1. IsFiniteSet(FreePages')
    <3>1. IsFiniteSet(FreePages \cup Span(s, n))
      BY <1>3, SpanSize, FreeFinite, FS_Union
    <3> QED BY <1>4, <3>1, FS_Subset
  <2>2. Cardinality(FreePages') \in Nat
    BY <2>1, FS_CardinalityType
  <2> QED BY <1>3, <1>5, <1>6, <1>7, <2>2
<1>9. MutexInv'
  <2>1. memory_s = 1 /\ \A u \in Threads : pc[u] # "take"
    BY <1>1 DEF MutexInv
  <2> QED BY <1>2, <2>1 DEF MutexInv
<1> QED BY <1>8, <1>9 DEF CoverInv

LEMMA CoverStep ==
  ASSUME Checked = {}, TypeOK, NumInv, CoverInv, RoomAbove, Next
  PROVE  CoverInv'
<1>1. PICK t \in Threads : Step(t) \/ Call(t)
  BY DEF Next
<1>2. sys = "up"
  BY <1>1 DEF Step, Call, Room, Chance, Scan, Evict, Fail, Search, Take, c_alloc,
              AllocTooBig, c_dealloc, DeallocGarbage, At
<1>3. MutexInv /\ Cardinality(FreePages) <= count
  BY <1>2 DEF CoverInv
<1>4. Room(t) \/ Chance(t) \/ Scan(t) => CoverInv'
  <2> SUFFICES ASSUME Room(t) \/ Chance(t) \/ Scan(t) PROVE CoverInv'
    OBVIOUS
  <2>1. /\ UNCHANGED <<free, count, memory_s, num>> /\ pc[t] # "take"
        /\ \E x \in {"chance", "search", "scan", "evict", "fail"} : pc' = [pc EXCEPT ![t] = x]
        /\ at' = at \/ \E p : at' = [at EXCEPT ![t] = p]
    BY DEF Room, Chance, Scan, At, Goto, pages
  <2>2. pc'[t] # "take"
    BY <2>1 DEF TypeOK
  <2>3. \A u \in Threads : u # t => pc'[u] = pc[u] /\ at'[u] = at[u] /\ num'[u] = num[u]
    BY <2>1 DEF TypeOK
  <2> QED BY <1>3, <2>1, <2>2, <2>3, OutsideCovers
<1>5. ASSUME NEW n \in Sizes, c_alloc(t, n) PROVE CoverInv'
  <2>1. /\ UNCHANGED <<free, count, memory_s, at>> /\ pc[t] # "take"
        /\ pc' = [pc EXCEPT ![t] = "room"] /\ num' = [num EXCEPT ![t] = n]
    BY <1>5 DEF c_alloc, At, Goto, pages
  <2>2. pc'[t] # "take"
    BY <2>1 DEF TypeOK
  <2>3. \A u \in Threads : u # t => pc'[u] = pc[u] /\ at'[u] = at[u] /\ num'[u] = num[u]
    BY <2>1 DEF TypeOK
  <2> QED BY <1>3, <2>1, <2>2, <2>3, OutsideCovers
<1>6. Fail(t) \/ AllocTooBig(t) \/ (\E r \in Region : DeallocGarbage(t, r)) => CoverInv'
  BY DEF Fail, AllocTooBig, ReturnNull, DeallocGarbage, CoverInv
<1>7. Evict(t) \/ Search(t) \/ Take(t) => CoverInv'
  BY <1>3, EvictCovers, SearchCovers, TakeCovers
<1>8. ASSUME NEW r \in Region, c_dealloc(t, r) PROVE CoverInv'
  BY <1>3, <1>8, DeallocCovers
<1> QED BY <1>1, <1>4, <1>5, <1>6, <1>7, <1>8 DEF Step, Call

-----------------------------------------------------------------------------
(* The theorems. *)

LEMMA InitOK == HistInit => IInv
<1> SUFFICES ASSUME HistInit PROVE IInv
  OBVIOUS
<1>1. TypeOK
  <2>1. count \in 0 .. U32 - 1 /\ hand \in Pages
    BY Amounts DEF HistInit, Init, Pages
  <2> QED BY <2>1, MemoryConstants, Amounts DEF HistInit, Init, TypeOK, Pages
<1>2. NumInv /\ HandInv /\ MutexInv
  BY DEF HistInit, Init, NumInv, HandInv, MutexInv
<1>3. Held = {} /\ FreePages = Pages
  BY DEF HistInit, Init, Held, FreePages
<1>4. RegionInv
  BY <1>3 DEF RegionInv, HistInit, Init
<1>5. CountInv
  <2>1. Cardinality(Pages) = LEN
    BY Amounts, FS_Interval DEF Pages
  <2> QED BY <1>3, <2>1 DEF CountInv, HistInit, Init
<1> QED BY <1>1, <1>2, <1>4, <1>5 DEF IInv, Before

\* A step before the first replacement that does not start one.
LEMMA BeforeStep ==
  ASSUME TypeOK, NumInv, Before, Next, ~ \E t \in Threads : pc'[t] = "evict"
  PROVE  Before'
<1>0. PICK t \in Threads : Step(t) \/ Call(t)
  BY DEF Next
<1>1. ~Scan(t)
  <2> SUFFICES ASSUME Scan(t) PROVE FALSE
    OBVIOUS
  <2>1. Unused(t) # {}
    BY ScanIs DEF Before, HandInv
  <2>2. pc' = [pc EXCEPT ![t] = "evict"]
    BY <2>1 DEF Scan, Goto
  <2> QED BY <2>2 DEF TypeOK
<1>2. ~Evict(t) /\ ~Fail(t)
  BY DEF Evict, Fail, At, Before, HandInv
<1>3. Search(t) => Before'
  BY SearchStep, PrepareStep
<1>4. Take(t) => Before'
  BY TakeStep
<1>5. Room(t) \/ Chance(t) => Before'
  BY PrepareStep
<1>6. Step(t) => Before'
  BY <1>1, <1>2, <1>3, <1>4, <1>5 DEF Step
<1>7. Call(t) => Before'
  <2>1. ASSUME NEW r \in Region, c_dealloc(t, r) PROVE Before'
    BY <2>1, DeallocStep
  <2> QED BY <2>1, PrepareStep DEF Call
<1> QED BY <1>0, <1>6, <1>7

LEMMA StepOK == IInv /\ [HistNext]_<<vars, evicted>> => IInv'
<1> SUFFICES ASSUME IInv, [HistNext]_<<vars, evicted>> PROVE IInv'
  OBVIOUS
<1>1. CASE HistNext
  <2>1. TypeOK' /\ NumInv'
    BY <1>1, TypeStep DEF HistNext, IInv
  <2>2. ~evicted' => Before'
    BY <1>1, BeforeStep DEF HistNext, IInv
  <2> QED BY <2>1, <2>2 DEF IInv
<1>2. CASE UNCHANGED <<vars, evicted>>
  <2> USE <1>2 DEF vars, pages, thread
  <2>1. TypeOK' /\ NumInv'
    BY DEF IInv, TypeOK, NumInv
  <2>2. Before => Before'
    BY PoolSame DEF Before, HandInv, MutexInv, Fits
  <2> QED BY <2>1, <2>2 DEF IInv
<1> QED BY <1>1, <1>2

\* The invariant is inductive: the pool starts in it and every step of mem.c
\* keeps it.
THEOREM MemoryInductive == HistSpec => []IInv
<1>1. HistInit => IInv
  BY InitOK
<1>2. IInv /\ [HistNext]_<<vars, evicted>> => IInv'
  BY StepOK
<1> QED BY <1>1, <1>2, PTL DEF HistSpec

\* No page number leaves the pool, also when pages are taken back from their
\* regions: the scan of second_chance ends, on a page that exists.
THEOREM MemoryTypeCorrect == HistSpec => []TypeOK
<1>1. IInv => TypeOK
  BY DEF IInv
<1> QED BY <1>1, MemoryInductive, PTL

\* Until the first page is taken back, c_alloc and c_dealloc of any number of
\* threads keep the regions apart and account for every page.
THEOREM RegionsApart == HistSpec => []RegionsDisjoint
<1>1. IInv => RegionsDisjoint
  BY DEF IInv, Before, RegionInv, RegionsDisjoint
<1> QED BY <1>1, MemoryInductive, PTL

\* Until then free_page_num is the number of free pages.
THEOREM CountIsExact == HistSpec => []CountExact
<1>1. IInv => CountExact
  BY DEF IInv, Before, CountInv, CountExact
<1> QED BY <1>1, MemoryInductive, PTL

\* free_page_num never falls below the number of free pages, whatever is taken
\* back or released twice, as long as every caller that is given no memory ends
\* the program and the u32 does not run over at its upper end.  So the
\* subtraction in c_alloc does not run over at the lower one.
THEOREM CountNeverShort ==
  ASSUME Checked = {} PROVE HistSpec /\ []RoomAbove => []CountCovers
<1> DEFINE Inv == TypeOK /\ NumInv /\ CoverInv
<1>1. HistInit => Inv
  <2> SUFFICES ASSUME HistInit PROVE Inv
    OBVIOUS
  <2>1. TypeOK /\ NumInv
    BY InitOK DEF IInv
  <2>2. MutexInv /\ FreePages = Pages /\ count = LEN
    BY DEF HistInit, Init, MutexInv, FreePages
  <2>3. Cardinality(Pages) = LEN
    BY Amounts, FS_Interval DEF Pages
  <2> QED BY <2>1, <2>2, <2>3, Amounts DEF CoverInv
<1>2. Inv /\ RoomAbove /\ [HistNext]_<<vars, evicted>> => Inv'
  <2> SUFFICES ASSUME Inv, RoomAbove, [HistNext]_<<vars, evicted>> PROVE Inv'
    OBVIOUS
  <2>1. CASE HistNext
    BY <2>1, TypeStep, CoverStep DEF HistNext
  <2>2. CASE UNCHANGED <<vars, evicted>>
    <3> USE <2>2 DEF vars, pages, thread
    <3>1. TypeOK' /\ NumInv'
      BY DEF TypeOK, NumInv
    <3>2. MutexInv => MutexInv'
      BY DEF MutexInv, Fits
    <3> QED BY <3>1, <3>2 DEF CoverInv, FreePages
  <2> QED BY <2>1, <2>2
<1>3. Inv => CountCovers
  BY DEF CoverInv, CountCovers
<1> HIDE DEF Inv
<1> QED BY <1>1, <1>2, <1>3, PTL DEF HistSpec
=============================================================================
