---------------------------- MODULE PrinterProofs ----------------------------
(***************************************************************************)
(* Theorems about the printer's list, for any number of nodes, processes   *)
(* and print requests and any print times, and that it implements the      *)
(* queue of PrintQueue.                                                    *)
(***************************************************************************)
EXTENDS Printer, SetLemmas, SequenceTheorems

\* From head the pointers lead through the nodes of s, each once.
IsList(s) ==
  /\ s \in Seq(Nodes)
  /\ \A i, j \in 1 .. Len(s) : s[i] = s[j] => i = j
  /\ head = IF s = <<>> THEN NULL ELSE s[1]
  /\ \A i \in 1 .. Len(s) :
       heap[s[i]].prox = IF i < Len(s) THEN s[i + 1] ELSE NULL

\* What is listed is allocated, and ends in the tail.
ListOK(s) ==
  /\ \A i \in 1 .. Len(s) : s[i] \in used
  /\ tail = IF s = <<>> THEN NULL ELSE s[Len(s)]

\* The job in the buffer is allocated and not listed until it is freed.
Printing == IF buffer = NULL \/ ppc = "clear" THEN {} ELSE {buffer}
BufferOK(s) ==
  /\ \A b \in Printing : b \in used /\ \A i \in 1 .. Len(s) : s[i] # b
  /\ ppc \in {"free", "clear"} => buffer # NULL
  /\ ppc = "free" => heap[buffer].time = 0

\* Every allocated node is listed or being printed.
AllListed(s) == \A n \in used : n \in Printing \/ \E i \in 1 .. Len(s) : s[i] = n

Good(s) == IsList(s) /\ ListOK(s) /\ BufferOK(s) /\ AllListed(s)

\* The inductive invariant.
IInv == TypeOK /\ \E s \in Seq(Nodes) : Good(s)

-----------------------------------------------------------------------------
(* Chain. *)

Ends == Nodes \cup {NULL}

\* Chain is what its definition says: the equation has a solution.
LEMMA ChainIs ==
  ASSUME TypeOK
  PROVE  \A k \in Nat, n \in Ends :
           Chain[k][n] = IF n = NULL \/ k = 0 THEN <<>>
                         ELSE <<n>> \o Chain[k - 1][heap[n].prox]
<1> DEFINE G == [Ends -> Seq(Nodes)]
           z == [n \in Ends |-> <<>>]
           h == [g \in G |-> [n \in Ends |-> IF n = NULL THEN <<>>
                                             ELSE <<n>> \o g[heap[n].prox]]]
<1>1. z \in G
  BY EmptySeq
<1>2. h \in [G -> G]
  <2>1. ASSUME NEW g \in G, NEW n \in Ends, n # NULL
        PROVE  <<n>> \o g[heap[n].prox] \in Seq(Nodes)
    <3>1. n \in Nodes /\ heap[n].prox \in Ends
      BY <2>1 DEF Ends, Node, TypeOK
    <3>2. <<n>> \in Seq(Nodes) /\ g[heap[n].prox] \in Seq(Nodes)
      BY <3>1
    <3> QED BY <3>2, ConcatProperties
  <2>2. <<>> \in Seq(Nodes)
    BY EmptySeq
  <2> QED BY <2>1, <2>2
<1> HIDE DEF z, h
<1>3. PICK f \in [Nat -> G] : f[0] = z /\ \A k \in Nat : f[k + 1] = h[f[k]]
  <2> HIDE DEF G
  <2> QED BY <1>1, <1>2, Iterates
<1> DEFINE Row(c, k) == [n \in Ends |-> IF n = NULL \/ k = 0 THEN <<>>
                                       ELSE <<n>> \o c[k - 1][heap[n].prox]]
<1>4. ASSUME NEW k \in Nat PROVE f[k] = Row(f, k)
  <2>1. CASE k = 0
    BY <1>3, <2>1 DEF z
  <2>2. CASE k # 0
    <3>1. k - 1 \in Nat /\ k - 1 + 1 = k
      BY <2>2
    <3>2. f[k] = h[f[k - 1]] /\ f[k - 1] \in G
      BY <1>3, <3>1
    <3>3. h[f[k - 1]] = [n \in Ends |-> IF n = NULL THEN <<>>
                                        ELSE <<n>> \o f[k - 1][heap[n].prox]]
      BY <3>2 DEF h
    <3> QED BY <2>2, <3>2, <3>3
  <2> QED BY <2>1, <2>2
<1>5. f = [k \in Nat |-> Row(f, k)]
  <2> HIDE DEF Row
  <2> QED BY <1>3, <1>4
<1>6. Chain = CHOOSE c : c = [k \in Nat |-> Row(c, k)]
  BY DEF Chain, Ends
<1>7. Chain = [k \in Nat |-> Row(Chain, k)]
  <2> HIDE DEF Row
  <2> QED BY <1>5, <1>6, Zenon
<1>8. \A k \in Nat : Chain[k] = Row(Chain, k)
  <2> HIDE DEF Row
  <2> QED BY <1>7, Zenon
<1> QED BY <1>8

\* With enough turns Chain finds the whole list.
LEMMA ChainFinds ==
  ASSUME TypeOK, NEW s, IsList(s), NEW m \in Nat, m >= Len(s)
  PROVE  Chain[m][head] = s
<1> DEFINE N == Len(s)
           at(i) == IF i <= N THEN s[i] ELSE NULL
           Bad == {j \in Nat : j <= N /\ \E k \in Nat :
                     k >= j /\ Chain[k][at(N + 1 - j)] # SubSeq(s, N + 1 - j, N)}
<1>0. N \in Nat /\ s \in Seq(Nodes) /\ s \in [1 .. N -> Nodes]
  BY LenProperties DEF IsList
<1> HIDE DEF N
<1>1. \A k \in Nat, n \in Ends :
        Chain[k][n] = IF n = NULL \/ k = 0 THEN <<>>
                      ELSE <<n>> \o Chain[k - 1][heap[n].prox]
  BY ChainIs
<1>2. Bad = {}
  <2> SUFFICES ASSUME Bad # {} PROVE FALSE
    OBVIOUS
  <2>1. PICK j \in Bad : \A y \in Bad : j <= y
    <3>1. Bad \in SUBSET Nat
      OBVIOUS
    <3> HIDE DEF Bad
    <3> QED BY <3>1, LeastNat
  <2>2. PICK k \in Nat : k >= j /\ Chain[k][at(N + 1 - j)] # SubSeq(s, N + 1 - j, N)
    OBVIOUS
  <2>3. j \in Nat /\ j <= N
    OBVIOUS
  <2>4. CASE j = 0
    <3>1. at(N + 1 - j) = NULL
      BY <1>0, <2>4
    <3>2. Chain[k][NULL] = <<>>
      BY <1>1 DEF Ends
    <3>3. SubSeq(s, N + 1 - j, N) = <<>>
      BY <1>0, <2>4, SubSeqEmpty
    <3> QED BY <2>2, <3>1, <3>2, <3>3
  <2>5. CASE j # 0
    <3> DEFINE i == N + 1 - j
    <3>1. i \in 1 .. N /\ i \in Nat /\ N \in i .. N
      BY <1>0, <2>3, <2>5
    <3>2. at(i) = s[i] /\ s[i] \in Nodes /\ s[i] \in Ends /\ s[i] # NULL
      BY <1>0, <3>1, PrinterConstants DEF Ends
    <3>3. heap[s[i]].prox = at(i + 1)
      <4>1. heap[s[i]].prox = IF i < N THEN s[i + 1] ELSE NULL
        BY <3>1 DEF IsList, N
      <4>2. i < N <=> i + 1 <= N
        BY <3>1, <1>0
      <4> HIDE DEF i
      <4> QED BY <4>1, <4>2
    <3>4. k # 0 /\ k - 1 \in Nat /\ j - 1 \in Nat /\ j - 1 <= N /\ k - 1 >= j - 1
          /\ N + 1 - (j - 1) = i + 1
      BY <1>0, <2>2, <2>3, <2>5
    <3>5. j - 1 \notin Bad
      <4> HIDE DEF Bad
      <4> QED BY <2>1, <2>3, <3>4
    <3>6. Chain[k - 1][at(i + 1)] = SubSeq(s, i + 1, N)
      <4> HIDE DEF i, at
      <4> QED BY <3>4, <3>5
    <3>7. SubSeq(s, i, N) = <<s[i]>> \o SubSeq(s, i + 1, N)
      BY <1>0, <3>1, SubSeqRecursiveFirst DEF N
    <3>8. Chain[k][s[i]] = <<s[i]>> \o Chain[k - 1][heap[s[i]].prox]
      BY <1>1, <3>2, <3>4
    <3> HIDE DEF Bad, at
    <3> QED BY <2>2, <3>2, <3>3, <3>6, <3>7, <3>8
  <2> QED BY <2>4, <2>5
<1>3. Chain[m][at(1)] = SubSeq(s, 1, N)
  <2>1. N + 1 - N = 1 /\ N <= N
    BY <1>0
  <2>2. N \notin Bad
    <3> HIDE DEF Bad
    <3> QED BY <1>2
  <2> HIDE DEF at
  <2> QED BY <1>0, <2>1, <2>2 DEF N
<1>4. SubSeq(s, 1, N) = s
  BY <1>0, SubSeqFull DEF N
<1>5. head = at(1)
  <2>1. s = <<>> <=> N = 0
    BY <1>0, EmptySeq DEF N
  <2> QED BY <1>0, <2>1 DEF IsList
<1> HIDE DEF at
<1> QED BY <1>3, <1>4, <1>5

\* A list that repeats no node is no longer than there are nodes.
LEMMA Found ==
  ASSUME TypeOK, NEW s, IsList(s)
  PROVE  Listed = s
<1>1. Len(s) \in Nat /\ s \in [1 .. Len(s) -> Nodes]
  BY LenProperties DEF IsList
<1>2. IsFiniteSet(Nodes) /\ Cardinality(Nodes) \in Nat
  BY PrinterConstants, FS_CardinalityType
<1>3. Cardinality(1 .. Len(s)) <= Cardinality(Nodes)
  <2>1. \A i, j \in 1 .. Len(s) : s[i] = s[j] => i = j
    BY DEF IsList
  <2> QED BY <1>1, <1>2, <2>1, NotMore
<1>4. Cardinality(1 .. Len(s)) = Len(s)
  <2>1. Cardinality(1 .. Len(s)) = IF 1 > Len(s) THEN 0 ELSE Len(s) - 1 + 1
    BY <1>1, FS_Interval
  <2> QED BY <1>1, <2>1
<1>5. Cardinality(Nodes) + 1 \in Nat /\ Cardinality(Nodes) + 1 >= Len(s)
  BY <1>1, <1>2, <1>3, <1>4
<1> QED BY <1>5, ChainFinds DEF Listed

-----------------------------------------------------------------------------
(* The steps. *)

LEMMA TypeStep ==
  ASSUME IInv, [Next]_vars
  PROVE  TypeOK'
<1> USE DEF IInv, TypeOK
<1>0. /\ \A n \in Nodes : heap[n].time \in 0 .. MAX_TIME /\ heap[n].prox \in Nodes \cup {NULL}
      /\ MAX_TIME \in Nat /\ MaxJobs \in Nat /\ NULL \notin Nodes
  BY PrinterConstants DEF Node
<1>1. CASE \E pid \in Pids, time \in 0 .. MAX_TIME : add_to_print_queue(pid, time)
  <2>1. PICK pid \in Pids, time \in 0 .. MAX_TIME, new \in Nodes \ used :
          LET filled == [heap EXCEPT ![new] = [pid |-> pid, time |-> time, prox |-> NULL]]
          IN  /\ used' = used \cup {new} /\ tail' = new
              /\ IF head = NULL
                 THEN heap' = filled /\ head' = new
                 ELSE heap' = [filled EXCEPT ![tail].prox = new] /\ UNCHANGED head
    BY <1>1 DEF add_to_print_queue
  <2> DEFINE rec == [pid |-> pid, time |-> time, prox |-> NULL]
             filled == [heap EXCEPT ![new] = rec]
  <2>2. rec \in Node
    BY DEF Node
  <2>3. filled \in [Nodes -> Node]
    <3> HIDE DEF rec
    <3> QED BY <2>2
  <2>4. heap' \in [Nodes -> Node]
    <3>1. [filled EXCEPT ![tail].prox = new] \in [Nodes -> Node]
      <4>1. \A n \in Nodes : [filled[n] EXCEPT !.prox = new] \in Node
        <5> HIDE DEF filled
        <5> QED BY <2>3 DEF Node
      <4> HIDE DEF filled
      <4> QED BY <2>3, <4>1
    <3> QED BY <2>1, <2>3, <3>1
  <2>5. jobs' \in 0 .. MaxJobs
    BY <1>0, <1>1 DEF add_to_print_queue
  <2> QED BY <1>1, <2>1, <2>4, <2>5 DEF add_to_print_queue, render
<1>2. CASE Tick
  <2>1. CASE buffer = NULL
    BY <1>2, <2>1 DEF Tick, list, render
  <2>2. CASE buffer # NULL
    <3> DEFINE t == heap[buffer].time
               u == IF t > 0 THEN t - 1 ELSE t
    <3>1. buffer \in Nodes /\ u \in 0 .. MAX_TIME
      BY <1>0, <2>2
    <3>2. heap' = [heap EXCEPT ![buffer].time = u]
      BY <1>2, <2>2 DEF Tick
    <3> HIDE DEF u
    <3>3. [heap[buffer] EXCEPT !.time = u] \in Node
      BY <3>1 DEF Node
    <3>4. heap' \in [Nodes -> Node]
      BY <3>1, <3>2, <3>3
    <3> QED BY <1>2, <2>2, <3>4 DEF Tick, list, render
  <2> QED BY <2>1, <2>2
<1>3. CASE Free \/ Clear
  BY <1>3 DEF Free, Clear, list, render
<1>4. CASE NextJob
  <2>1. head # NULL => heap[head].prox \in Nodes \cup {NULL}
    BY <1>0
  <2> QED BY <1>4, <2>1 DEF NextJob, list, render
<1>5. CASE RenderThread
  BY <1>5 DEF RenderThread, get_print_time, print_event, list
<1>6. CASE UNCHANGED vars
  BY <1>6 DEF vars, list, render
<1> QED BY <1>1, <1>2, <1>3, <1>4, <1>5, <1>6 DEF Next, PrinterThread

\* add_to_print_queue appends a node that was neither listed nor printed.
LEMMA AddStep ==
  ASSUME TypeOK, NEW s \in Seq(Nodes), Good(s),
         NEW pid \in Pids, NEW time \in 0 .. MAX_TIME, add_to_print_queue(pid, time)
  PROVE  \E new \in Nodes :
           /\ Good(Append(s, new))'
           /\ JobOf(new)' = [pid |-> pid, time |-> time]
           /\ \A i \in 1 .. Len(s) : JobOf(s[i])' = JobOf(s[i])
           /\ Printing' = Printing
           /\ \A b \in Printing : JobOf(b)' = JobOf(b)
<1>1. PICK new \in Nodes \ used :
        LET filled == [heap EXCEPT ![new] = [pid |-> pid, time |-> time, prox |-> NULL]]
        IN  /\ used' = used \cup {new} /\ tail' = new
            /\ IF head = NULL
               THEN heap' = filled /\ head' = new
               ELSE heap' = [filled EXCEPT ![tail].prox = new] /\ UNCHANGED head
  BY DEF add_to_print_queue
<1> DEFINE N == Len(s)
           t == Append(s, new)
<1>0. /\ N \in Nat /\ s \in [1 .. N -> Nodes] /\ (s = <<>> <=> N = 0)
      /\ t \in Seq(Nodes) /\ t # <<>> /\ Len(t) = N + 1 /\ t[N + 1] = new
      /\ \A i \in 1 .. N : t[i] = s[i]
  BY LenProperties, EmptySeq, AppendProperties
<1> HIDE DEF N, t
<1>2. /\ NULL \notin Nodes /\ heap \in [Nodes -> Node] /\ used \subseteq Nodes
      /\ \A n \in Nodes : heap[n].prox \in Nodes \cup {NULL}
  BY PrinterConstants DEF TypeOK, Node
<1>3. /\ \A i, j \in 1 .. N : s[i] = s[j] => i = j
      /\ head = IF s = <<>> THEN NULL ELSE s[1]
      /\ \A i \in 1 .. N : heap[s[i]].prox = IF i < N THEN s[i + 1] ELSE NULL
      /\ \A i \in 1 .. N : s[i] \in used
      /\ tail = IF s = <<>> THEN NULL ELSE s[N]
  BY DEF Good, IsList, ListOK, N
<1>4. \A i \in 1 .. N : s[i] # new
  BY <1>1, <1>3
<1>5. head = NULL <=> N = 0
  BY <1>0, <1>2, <1>3
<1>6. Printing' = Printing /\ ppc' = ppc /\ buffer' = buffer
  BY DEF add_to_print_queue, Printing
<1>7. \A b \in Printing : b \in Nodes /\ b # new /\ (N # 0 => b # tail)
  <2>1. \A b \in Printing : b \in used /\ \A i \in 1 .. N : s[i] # b
    BY DEF Good, BufferOK, N
  <2>2. N # 0 => tail = s[N] /\ N \in 1 .. N
    BY <1>0, <1>3
  <2> QED BY <1>1, <1>2, <2>1, <2>2
<1>8. /\ heap'[new] = [pid |-> pid, time |-> time, prox |-> NULL]
      /\ \A n \in Nodes \ {new} :
           /\ heap'[n].pid = heap[n].pid /\ heap'[n].time = heap[n].time
           /\ heap'[n].prox = IF N # 0 /\ n = tail THEN new ELSE heap[n].prox
  <2>1. CASE N = 0
    BY <1>1, <1>2, <1>5, <2>1
  <2>2. CASE N # 0
    <3>1. tail \in Nodes /\ tail # new
      BY <1>0, <1>3, <1>4, <2>2
    <3> DEFINE rec == [pid |-> pid, time |-> time, prox |-> NULL]
               filled == [heap EXCEPT ![new] = rec]
    <3>2. heap' = [filled EXCEPT ![tail].prox = new]
      BY <1>1, <1>5, <2>2
    <3>3. filled[new] = rec /\ \A n \in Nodes \ {new} : filled[n] = heap[n]
      BY <1>2
    <3>4. DOMAIN filled = Nodes
      BY <1>2
    <3> HIDE DEF filled
    <3>5. /\ \A n \in Nodes \ {tail} : heap'[n] = filled[n]
          /\ heap'[tail] = [filled[tail] EXCEPT !.prox = new]
      BY <3>1, <3>2, <3>4
    <3>6. heap'[tail] = [heap[tail] EXCEPT !.prox = new] /\ heap[tail] \in Node
      BY <1>2, <3>1, <3>3, <3>5
    <3>7. /\ heap'[tail].pid = heap[tail].pid /\ heap'[tail].time = heap[tail].time
          /\ heap'[tail].prox = new
      BY <3>6 DEF Node
    <3> QED BY <2>2, <3>1, <3>3, <3>5, <3>7
  <2> QED BY <2>1, <2>2
<1>9. IsList(t)'
  <2>1. \A i, j \in 1 .. Len(t) : t[i] = t[j] => i = j
    <3> SUFFICES ASSUME NEW i \in 1 .. N + 1, NEW j \in 1 .. N + 1, t[i] = t[j]
                 PROVE  i = j
      BY <1>0
    <3>1. CASE i = N + 1 /\ j = N + 1
      BY <3>1
    <3>2. CASE i = N + 1 /\ j # N + 1
      <4>1. j \in 1 .. N
        BY <1>0, <3>2
      <4> QED BY <1>0, <1>4, <3>2, <4>1
    <3>3. CASE i # N + 1 /\ j = N + 1
      <4>1. i \in 1 .. N
        BY <1>0, <3>3
      <4> QED BY <1>0, <1>4, <3>3, <4>1
    <3>4. CASE i # N + 1 /\ j # N + 1
      <4>1. i \in 1 .. N /\ j \in 1 .. N
        BY <1>0, <3>4
      <4> QED BY <1>0, <1>3, <4>1
    <3> QED BY <3>1, <3>2, <3>3, <3>4
  <2>2. head' = IF t = <<>> THEN NULL ELSE t[1]
    <3>1. CASE N = 0
      BY <1>0, <1>1, <1>5, <3>1
    <3>2. CASE N # 0
      <4>1. head' = head /\ head = s[1] /\ 1 \in 1 .. N
        BY <1>0, <1>1, <1>3, <1>5, <3>2
      <4> QED BY <1>0, <4>1
    <3> QED BY <3>1, <3>2
  <2>3. ASSUME NEW i \in 1 .. Len(t)
        PROVE  heap'[t[i]].prox = IF i < Len(t) THEN t[i + 1] ELSE NULL
    <3>1. CASE i = N + 1
      <4>1. t[i] = new /\ ~(i < Len(t))
        BY <1>0, <3>1
      <4> QED BY <1>8, <4>1
    <3>2. CASE i = N
      <4>1. i \in 1 .. N /\ N # 0 /\ i < Len(t) /\ t[i + 1] = new
        BY <1>0, <3>2
      <4>2. t[i] = tail /\ t[i] \in Nodes \ {new}
        BY <1>0, <1>3, <1>4, <3>2, <4>1
      <4> QED BY <1>8, <4>1, <4>2
    <3>3. CASE i < N
      <4>1. i \in 1 .. N /\ i + 1 \in 1 .. N /\ i # N /\ N \in 1 .. N /\ i < Len(t)
        BY <1>0, <3>3
      <4>2. t[i] = s[i] /\ s[i] \in Nodes \ {new} /\ t[i + 1] = s[i + 1] /\ s[i] # tail
        BY <1>0, <1>3, <1>4, <4>1
      <4>3. heap[s[i]].prox = s[i + 1]
        BY <1>3, <3>3, <4>1
      <4> QED BY <1>8, <4>1, <4>2, <4>3
    <3> QED BY <1>0, <3>1, <3>2, <3>3
  <2> QED BY <1>0, <2>1, <2>2, <2>3 DEF IsList
<1>10. ListOK(t)'
  <2>1. ASSUME NEW i \in 1 .. Len(t) PROVE t[i] \in used'
    <3>1. CASE i = N + 1
      BY <1>0, <1>1, <3>1
    <3>2. CASE i # N + 1
      <4>1. i \in 1 .. N
        BY <1>0, <3>2
      <4> QED BY <1>0, <1>1, <1>3, <4>1
    <3> QED BY <3>1, <3>2
  <2> QED BY <1>0, <1>1, <2>1 DEF ListOK
<1>11. BufferOK(t)'
  <2>1. ASSUME NEW b \in Printing, NEW i \in 1 .. Len(t) PROVE t[i] # b
    <3>1. CASE i = N + 1
      BY <1>0, <1>7, <3>1
    <3>2. CASE i # N + 1
      <4>1. i \in 1 .. N
        BY <1>0, <3>2
      <4> QED BY <1>0, <4>1 DEF Good, BufferOK, N
    <3> QED BY <3>1, <3>2
  <2>2. ppc = "free" => buffer \in Printing
    BY DEF Good, BufferOK, Printing
  <2>3. ppc = "free" => heap'[buffer].time = 0
    BY <1>7, <1>8, <2>2 DEF Good, BufferOK
  <2> QED BY <1>1, <1>6, <2>1, <2>3 DEF Good, BufferOK
<1>12. AllListed(t)'
  <2> SUFFICES ASSUME NEW n \in used', n \notin Printing
               PROVE  \E i \in 1 .. Len(t) : t[i] = n
    BY <1>6 DEF AllListed
  <2>1. CASE n = new
    <3>1. N + 1 \in 1 .. Len(t)
      BY <1>0
    <3> QED BY <1>0, <2>1, <3>1
  <2>2. CASE n # new
    <3>1. PICK i \in 1 .. N : s[i] = n
      BY <1>1, <2>2 DEF Good, AllListed, N
    <3>2. i \in 1 .. Len(t)
      BY <1>0
    <3> QED BY <1>0, <3>1, <3>2
  <2> QED BY <2>1, <2>2
<1>13. /\ JobOf(new)' = [pid |-> pid, time |-> time]
       /\ \A i \in 1 .. N : JobOf(s[i])' = JobOf(s[i])
       /\ \A b \in Printing : JobOf(b)' = JobOf(b)
  <2>1. \A n \in Nodes \ {new} : JobOf(n)' = JobOf(n)
    BY <1>8 DEF JobOf
  <2>2. JobOf(new)' = [pid |-> pid, time |-> time]
    BY <1>8 DEF JobOf
  <2> QED BY <1>0, <1>4, <1>7, <2>1, <2>2
<1>14. Good(t)'
  BY <1>9, <1>10, <1>11, <1>12 DEF Good
<1> QED BY <1>6, <1>13, <1>14 DEF N, t

\* Nothing about the list changes with the pointers it is made of.
LEMMA ListSame ==
  ASSUME TypeOK, NEW s \in Seq(Nodes), Good(s), UNCHANGED <<used, head, tail>>,
         \A n \in Nodes : heap'[n].prox = heap[n].prox
  PROVE  IsList(s)' /\ ListOK(s)'
<1>1. \A i \in 1 .. Len(s) : s[i] \in Nodes
  BY ElementOfSeq
<1> QED BY <1>1 DEF Good, IsList, ListOK

\* printer_loop counts down the job in the buffer only, and a job without time
\* left is not in the list.
LEMMA TickStep ==
  ASSUME TypeOK, NEW s \in Seq(Nodes), Good(s), Tick
  PROVE  /\ Good(s)'
         /\ \A i \in 1 .. Len(s) : JobOf(s[i])' = JobOf(s[i])
         /\ Printing' = Printing /\ buffer' = buffer
         /\ \/ \A b \in Printing : JobOf(b)' = JobOf(b)
            \/ \A b \in Printing : /\ JobOf(b).time > 0
                                   /\ JobOf(b)' = [JobOf(b) EXCEPT !.time = @ - 1]
<1>0. /\ \A i \in 1 .. Len(s) : s[i] \in Nodes
      /\ \A n \in Nodes : heap[n] \in Node /\ heap[n].time \in 0 .. MAX_TIME
      /\ MAX_TIME \in Nat /\ NULL \notin Nodes /\ heap \in [Nodes -> Node]
  BY ElementOfSeq, PrinterConstants DEF TypeOK, Node
<1>1. /\ UNCHANGED <<used, head, tail, buffer>> /\ ppc = "tick"
      /\ ppc' \in {"free", "next"}
      /\ Printing' = Printing /\ Printing = IF buffer = NULL THEN {} ELSE {buffer}
  BY DEF Tick, list, Printing
<1>2. CASE buffer = NULL
  <2>1. heap' = heap /\ ppc' = "next"
    BY <1>2 DEF Tick
  <2>2. IsList(s)' /\ ListOK(s)'
    BY <1>1, <2>1, ListSame
  <2>3. BufferOK(s)' /\ AllListed(s)'
    BY <1>1, <1>2, <2>1 DEF Good, BufferOK, AllListed
  <2>4. \A n : JobOf(n)' = JobOf(n)
    BY <2>1 DEF JobOf
  <2> QED BY <1>1, <2>2, <2>3, <2>4 DEF Good
<1>3. CASE buffer # NULL
  <2> DEFINE t == heap[buffer].time
             u == IF t > 0 THEN t - 1 ELSE t
  <2>1. buffer \in Nodes /\ t \in Nat
    BY <1>0, <1>3 DEF TypeOK
  <2>2. heap' = [heap EXCEPT ![buffer].time = u] /\ ppc' = IF t <= 1 THEN "free" ELSE "next"
    BY <1>3 DEF Tick
  <2> HIDE DEF u
  <2>3. /\ heap'[buffer] = [heap[buffer] EXCEPT !.time = u]
        /\ \A n \in Nodes \ {buffer} : heap'[n] = heap[n]
    BY <1>0, <2>1, <2>2
  <2>4. /\ heap'[buffer].time = u /\ heap'[buffer].pid = heap[buffer].pid
        /\ heap'[buffer].prox = heap[buffer].prox
    BY <1>0, <2>1, <2>3 DEF Node
  <2>5. IsList(s)' /\ ListOK(s)'
    <3>1. \A n \in Nodes : heap'[n].prox = heap[n].prox
      BY <2>3, <2>4
    <3> QED BY <1>1, <3>1, ListSame
  <2>6. BufferOK(s)'
    <3>1. ppc' = "free" => heap'[buffer].time = 0
      BY <2>1, <2>2, <2>4 DEF u
    <3> QED BY <1>1, <1>3, <3>1 DEF Good, BufferOK
  <2>7. AllListed(s)'
    BY <1>1 DEF Good, AllListed
  <2>8. \A i \in 1 .. Len(s) : JobOf(s[i])' = JobOf(s[i])
    <3>1. \A i \in 1 .. Len(s) : s[i] # buffer
      BY <1>1, <1>3 DEF Good, BufferOK
    <3> QED BY <1>0, <2>3, <3>1 DEF JobOf
  <2>9. CASE t > 0
    <3>1. u = t - 1
      BY <2>9 DEF u
    <3>2. JobOf(buffer)' = [pid |-> heap[buffer].pid, time |-> t - 1]
      <4>1. JobOf(buffer)' = [pid |-> heap'[buffer].pid, time |-> heap'[buffer].time]
        BY <1>1 DEF JobOf
      <4> QED BY <2>4, <3>1, <4>1
    <3>3. [JobOf(buffer) EXCEPT !.time = @ - 1] = [pid |-> heap[buffer].pid, time |-> t - 1]
      BY DEF JobOf
    <3>4. JobOf(buffer).time > 0
      BY <2>9 DEF JobOf
    <3>5. \A b \in Printing : /\ JobOf(b).time > 0
                              /\ JobOf(b)' = [JobOf(b) EXCEPT !.time = @ - 1]
      <4>1. \A b \in Printing : b = buffer
        BY <1>1
      <4>2. TAKE b \in Printing
      <4>3. JobOf(b)' = [pid |-> heap'[b].pid, time |-> heap'[b].time]
        BY DEF JobOf
      <4>4. JobOf(b)' = [pid |-> heap[buffer].pid, time |-> t - 1] /\ b = buffer
        BY <2>4, <3>1, <4>1, <4>3
      <4> QED BY <3>3, <3>4, <4>4
    <3> QED BY <1>1, <2>5, <2>6, <2>7, <2>8, <3>5 DEF Good
  <2>10. CASE ~(t > 0)
    <3>1. u = t
      BY <2>10 DEF u
    <3>2. \A b \in Printing : JobOf(b)' = JobOf(b)
      BY <1>1, <2>4, <3>1 DEF JobOf
    <3> QED BY <1>1, <2>5, <2>6, <2>7, <2>8, <3>2 DEF Good
  <2> QED BY <2>9, <2>10
<1> QED BY <1>2, <1>3

\* c_dealloc of the printed node leaves the list alone; the job had no time left.
LEMMA FreeStep ==
  ASSUME TypeOK, NEW s \in Seq(Nodes), Good(s), Free
  PROVE  /\ Good(s)' /\ heap' = heap /\ buffer' = buffer
         /\ Printing = {buffer} /\ Printing' = {} /\ JobOf(buffer).time = 0
<1>1. /\ buffer # NULL /\ Printing = {buffer} /\ Printing' = {} /\ ppc' = "clear"
      /\ used' = used \ {buffer} /\ heap' = heap /\ buffer' = buffer /\ ppc = "free"
      /\ UNCHANGED <<head, tail>>
  BY DEF Good, BufferOK, Free, list, Printing
<1>2. IsList(s)'
  BY <1>1 DEF Good, IsList
<1>3. ListOK(s)'
  BY <1>1 DEF Good, ListOK, BufferOK
<1>4. BufferOK(s)'
  BY <1>1 DEF BufferOK
<1>5. AllListed(s)'
  BY <1>1 DEF Good, AllListed
<1>6. JobOf(buffer).time = 0
  BY <1>1 DEF Good, BufferOK, JobOf
<1> QED BY <1>1, <1>2, <1>3, <1>4, <1>5, <1>6 DEF Good

LEMMA ClearStep ==
  ASSUME TypeOK, NEW s \in Seq(Nodes), Good(s), Clear
  PROVE  Good(s)' /\ heap' = heap /\ Printing = {} /\ Printing' = {}
<1>1. /\ Printing = {} /\ Printing' = {} /\ ppc' = "next" /\ heap' = heap /\ used' = used
      /\ UNCHANGED <<head, tail>> /\ buffer' = NULL
  BY DEF Clear, list, Printing
<1> QED BY <1>1 DEF Good, IsList, ListOK, BufferOK, AllListed

\* pop_print takes the first node of the list.
LEMMA NextJobStep ==
  ASSUME TypeOK, NEW s \in Seq(Nodes), Good(s), NextJob
  PROVE  /\ heap' = heap
         /\ \/ Good(s)' /\ Printing' = Printing /\ buffer' = buffer
            \/ /\ s # <<>> /\ Good(Tail(s))'
               /\ Printing = {} /\ Printing' = {s[1]} /\ buffer' = s[1]
<1>1. CASE buffer = NULL /\ head # NULL
  <2> DEFINE N == Len(s)
             t == Tail(s)
  <2>0. s # <<>>
    BY <1>1 DEF Good, IsList
  <2>1. /\ N \in Nat \ {0} /\ s \in [1 .. N -> Nodes]
        /\ t \in Seq(Nodes) /\ Len(t) = N - 1
        /\ \A i \in 1 .. N - 1 : t[i] = s[i + 1]
        /\ (t = <<>> <=> N = 1)
    <3>1. N \in Nat \ {0} /\ s \in [1 .. N -> Nodes]
      BY <2>0, LenProperties, EmptySeq
    <3>2. t \in Seq(Nodes) /\ Len(t) = N - 1 /\ \A i \in 1 .. N - 1 : t[i] = s[i + 1]
      BY <2>0, HeadTailProperties
    <3>3. t = <<>> <=> Len(t) = 0
      <4> HIDE DEF t
      <4> QED BY <3>2, EmptySeq
    <3> HIDE DEF N, t
    <3> QED BY <3>1, <3>2, <3>3
  <2> HIDE DEF N, t
  <2>2. /\ NULL \notin Nodes /\ s[1] \in Nodes
        /\ \A i, j \in 1 .. N : s[i] = s[j] => i = j
        /\ head = s[1]
        /\ \A i \in 1 .. N : heap[s[i]].prox = IF i < N THEN s[i + 1] ELSE NULL
        /\ \A i \in 1 .. N : s[i] \in used
        /\ tail = s[N]
    BY <2>0, <2>1, PrinterConstants DEF Good, IsList, ListOK, N
  <2>3. /\ buffer' = s[1] /\ head' = heap[s[1]].prox /\ heap' = heap /\ used' = used
        /\ tail' = (IF heap[s[1]].prox = NULL THEN NULL ELSE tail)
        /\ ppc = "next" /\ ppc' = "tick"
    BY <1>1, <2>2 DEF NextJob
  <2>4. Printing = {} /\ Printing' = {s[1]}
    BY <1>1, <2>2, <2>3 DEF Printing
  <2>5. heap[s[1]].prox = IF N = 1 THEN NULL ELSE s[2]
    BY <2>1, <2>2
  <2>6. IsList(t)'
    <3>1. \A i, j \in 1 .. Len(t) : t[i] = t[j] => i = j
      <4> SUFFICES ASSUME NEW i \in 1 .. N - 1, NEW j \in 1 .. N - 1, t[i] = t[j]
                   PROVE  i = j
        BY <2>1
      <4>1. i + 1 \in 1 .. N /\ j + 1 \in 1 .. N /\ s[i + 1] = s[j + 1]
        BY <2>1
      <4>2. i + 1 = j + 1
        BY <2>2, <4>1
      <4> QED BY <2>1, <4>2
    <3>2. head' = IF t = <<>> THEN NULL ELSE t[1]
      <4>1. CASE N = 1
        BY <2>1, <2>3, <2>5, <4>1
      <4>2. CASE N # 1
        <5>1. 1 \in 1 .. N - 1
          BY <2>1, <4>2
        <5>2. t[1] = s[2]
          BY <2>1, <5>1
        <5> QED BY <2>1, <2>3, <2>5, <4>2, <5>2
      <4> QED BY <4>1, <4>2
    <3>3. ASSUME NEW i \in 1 .. Len(t)
          PROVE  heap[t[i]].prox = IF i < Len(t) THEN t[i + 1] ELSE NULL
      <4>1. i \in 1 .. N - 1 /\ i + 1 \in 1 .. N /\ (i < Len(t) <=> i + 1 < N)
        BY <2>1
      <4>2. heap[s[i + 1]].prox = IF i + 1 < N THEN s[i + 1 + 1] ELSE NULL
        BY <2>2, <4>1
      <4>3. i + 1 < N => t[i + 1] = s[i + 1 + 1]
        BY <2>1, <4>1
      <4> QED BY <2>1, <4>1, <4>2, <4>3
    <3> QED BY <2>1, <2>3, <3>1, <3>2, <3>3 DEF IsList
  <2>7. ListOK(t)'
    <3>1. \A i \in 1 .. Len(t) : t[i] \in used
      BY <2>1, <2>2
    <3>2. tail' = IF t = <<>> THEN NULL ELSE t[Len(t)]
      <4>1. CASE N = 1
        BY <2>1, <2>3, <2>5, <4>1
      <4>2. CASE N # 1
        <5>1. N - 1 \in 1 .. N - 1 /\ 2 \in 1 .. N /\ N - 1 + 1 = N
          BY <2>1, <4>2
        <5>2. t[N - 1] = s[N] /\ s[2] \in Nodes
          BY <2>1, <5>1
        <5> QED BY <2>1, <2>2, <2>3, <2>5, <4>2, <5>2
      <4> QED BY <4>1, <4>2
    <3> QED BY <2>3, <3>1, <3>2 DEF ListOK
  <2>8. BufferOK(t)'
    <3>1. \A i \in 1 .. Len(t) : t[i] # s[1]
      <4> TAKE i \in 1 .. Len(t)
      <4>1. i \in 1 .. N - 1 /\ i + 1 \in 1 .. N /\ 1 \in 1 .. N /\ i + 1 # 1
        BY <2>1
      <4> QED BY <2>1, <2>2, <4>1
    <3>2. s[1] \in used
      BY <2>1, <2>2
    <3> QED BY <2>3, <2>4, <3>1, <3>2 DEF BufferOK
  <2>9. AllListed(t)'
    <3> SUFFICES ASSUME NEW n \in used, n # s[1] PROVE \E i \in 1 .. Len(t) : t[i] = n
      BY <2>3, <2>4 DEF AllListed
    <3>1. PICK i \in 1 .. N : s[i] = n
      BY <2>4 DEF Good, AllListed, N
    <3>2. i - 1 \in 1 .. N - 1 /\ i - 1 + 1 = i
      BY <2>1, <3>1
    <3> QED BY <2>1, <3>1, <3>2
  <2> QED BY <2>0, <2>3, <2>4, <2>6, <2>7, <2>8, <2>9 DEF Good, t
<1>2. CASE ~(buffer = NULL /\ head # NULL)
  <2>1. /\ UNCHANGED <<heap, used, head, tail, buffer>> /\ ppc = "next" /\ ppc' = "tick"
        /\ Printing' = Printing
    BY <1>2 DEF NextJob, list, Printing
  <2>2. Good(s)'
    BY <2>1 DEF Good, IsList, ListOK, BufferOK, AllListed
  <2> QED BY <2>1, <2>2
<1> QED BY <1>1, <1>2

\* A step of the render thread, and none at all, change nothing of this.
LEMMA OtherStep ==
  ASSUME TypeOK, NEW s \in Seq(Nodes), Good(s), RenderThread \/ UNCHANGED vars
  PROVE  Good(s)' /\ UNCHANGED <<heap, buffer, ppc>>
<1>1. UNCHANGED <<heap, used, head, tail, buffer, ppc>>
  BY DEF RenderThread, get_print_time, print_event, vars, list, render
<1> QED BY <1>1 DEF Good, IsList, ListOK, BufferOK, AllListed, Printing

-----------------------------------------------------------------------------
(* The theorems. *)

LEMMA InitInv == Init => IInv
<1> SUFFICES ASSUME Init PROVE IInv
  OBVIOUS
<1>1. TypeOK
  BY PrinterConstants DEF Init, TypeOK, Node
<1>2. <<>> \in Seq(Nodes) /\ Len(<<>>) = 0
  BY EmptySeq
<1>3. Good(<<>>)
  BY <1>2 DEF Init, Good, IsList, ListOK, BufferOK, AllListed, Printing
<1> QED BY <1>1, <1>2, <1>3 DEF IInv

\* Every step of the printer, its clients and the panel preserves the invariant.
THEOREM PrinterInductive == IInv /\ [Next]_vars => IInv'
<1> SUFFICES ASSUME IInv, [Next]_vars PROVE IInv'
  OBVIOUS
<1>0. TypeOK' /\ TypeOK
  BY TypeStep DEF IInv
<1>1. PICK s \in Seq(Nodes) : Good(s)
  BY DEF IInv
<1>2. CASE \E pid \in Pids, time \in 0 .. MAX_TIME : add_to_print_queue(pid, time)
  <2>1. PICK new \in Nodes : Good(Append(s, new))'
    BY <1>0, <1>1, <1>2, AddStep
  <2>2. Append(s, new) \in Seq(Nodes)
    BY AppendProperties
  <2> QED BY <1>0, <2>1, <2>2 DEF IInv
<1>3. CASE Tick \/ Free \/ Clear
  BY <1>0, <1>1, <1>3, TickStep, FreeStep, ClearStep DEF IInv
<1>4. CASE NextJob
  <2>1. \/ Good(s)' /\ Printing' = Printing /\ buffer' = buffer
        \/ /\ s # <<>> /\ Good(Tail(s))'
           /\ Printing = {} /\ Printing' = {s[1]} /\ buffer' = s[1]
    BY <1>0, <1>1, <1>4, NextJobStep
  <2>2. s # <<>> => Tail(s) \in Seq(Nodes)
    BY HeadTailProperties
  <2> QED BY <1>0, <2>1, <2>2 DEF IInv
<1>5. CASE RenderThread \/ UNCHANGED vars
  BY <1>0, <1>1, <1>5, OtherStep DEF IInv
<1> QED BY <1>2, <1>3, <1>4, <1>5 DEF Next, PrinterThread

LEMMA PrinterInvariant == Spec => []IInv
BY InitInv, PrinterInductive, PTL DEF Spec

\* Types hold, and the pointers of the list, the buffer and the panel lead to
\* nodes or nowhere.
THEOREM PrinterTypeCorrect == Spec => []TypeOK
<1>1. IInv => TypeOK
  BY DEF IInv
<1> QED BY <1>1, PrinterInvariant, PTL

\* The list stays sound while its nodes are freed and allocated around it.
THEOREM ListStaysSound == Spec => []ListSound
<1>1. IInv => ListSound
  <2> SUFFICES ASSUME IInv PROVE ListSound
    OBVIOUS
  <2>1. PICK s \in Seq(Nodes) : Good(s)
    BY DEF IInv
  <2>2. Listed = s
    BY <2>1, Found DEF IInv, Good
  <2>3. head = NULL <=> s = <<>>
    <3>1. s # <<>> => s[1] \in Nodes
      BY EmptySeq, ElementOfSeq
    <3> QED BY <2>1, <3>1, PrinterConstants DEF Good, IsList
  <2> QED BY <2>1, <2>2, <2>3 DEF ListSound, Good, IsList, ListOK, BufferOK, Printing
<1> QED BY <1>1, PrinterInvariant, PTL

\* No node of the list is lost: what is allocated is listed or being printed.
THEOREM NothingLeaks == Spec => []NoLeak
<1>1. IInv => NoLeak
  <2> SUFFICES ASSUME IInv PROVE NoLeak
    OBVIOUS
  <2>1. PICK s \in Seq(Nodes) : Good(s)
    BY DEF IInv
  <2>2. Listed = s
    BY <2>1, Found DEF IInv, Good
  <2> QED BY <2>1, <2>2 DEF NoLeak, Good, AllListed, Printing
<1> QED BY <1>1, PrinterInvariant, PTL

-----------------------------------------------------------------------------
(* The refinement. *)

\* Listed is the list, whichever way one finds it.
Finds == \A s \in Seq(Nodes) : IsList(s) => Listed = s

LEMMA AlwaysFinds == IInv => Finds
BY Found DEF IInv, Finds

JobsOf(s) == [i \in 1 .. Len(s) |-> JobOf(s[i])]

LEMMA Mapping ==
  ASSUME TypeOK, Finds, NEW s \in Seq(Nodes), Good(s)
  PROVE  /\ Pending = JobsOf(s)
         /\ Current = IF Printing = {} THEN NULL ELSE JobOf(buffer)
         /\ \A n \in Nodes : JobOf(n) # NULL
         /\ Printing # {} => Printing = {buffer} /\ buffer \in Nodes
<1>1. Listed = s
  BY DEF Finds, Good
<1>2. ASSUME NEW n \in Nodes PROVE JobOf(n) # NULL
  <2>1. heap[n].pid \in Nat /\ heap[n].time \in Nat
    <3>1. heap[n] \in Node
      BY DEF TypeOK
    <3>2. heap[n].pid \in Pids \cup {0} /\ heap[n].time \in 0 .. MAX_TIME
      BY <3>1 DEF Node
    <3>3. Pids \cup {0} \subseteq Nat /\ 0 .. MAX_TIME \subseteq Nat
      BY PrinterConstants
    <3> QED BY <3>2, <3>3
  <2> QED BY <2>1, PrinterConstants DEF JobOf
<1> QED BY <1>1, <1>2 DEF Pending, JobsOf, Current, Printing, TypeOK

\* Each step of the printer is a step of the queue, or none.
LEMMA AbstractStep ==
  ASSUME IInv, [Next]_vars, Finds, Finds'
  PROVE  [PQ!Next]_<<Pending, Current>>
<1>0. TypeOK /\ TypeOK'
  BY TypeStep DEF IInv
<1>1. PICK s \in Seq(Nodes) : Good(s)
  BY DEF IInv
<1>2. /\ Pending = JobsOf(s)
      /\ Current = IF Printing = {} THEN NULL ELSE JobOf(buffer)
      /\ \A n \in Nodes : JobOf(n) # NULL
      /\ Printing # {} => Printing = {buffer} /\ buffer \in Nodes
  BY <1>0, <1>1, Mapping
<1>3. \A t \in Seq(Nodes) : Good(t)' =>
        /\ Pending' = [i \in 1 .. Len(t) |-> JobOf(t[i])']
        /\ Current' = IF Printing' = {} THEN NULL ELSE JobOf(buffer)'
  <2> SUFFICES ASSUME NEW t \in Seq(Nodes), Good(t)'
               PROVE  /\ Pending' = [i \in 1 .. Len(t) |-> JobOf(t[i])']
                      /\ Current' = IF Printing' = {} THEN NULL ELSE JobOf(buffer)'
    OBVIOUS
  <2>1. Listed' = t
    BY DEF Finds, Good
  <2> QED BY <2>1 DEF Pending, Current, Printing
<1>4. /\ Len(s) \in Nat /\ s \in [1 .. Len(s) -> Nodes]
      /\ s # <<>> => Len(s) # 0
  BY LenProperties, EmptySeq
<1>5. CASE \E pid \in Pids, time \in 0 .. MAX_TIME : add_to_print_queue(pid, time)
  <2>1. PICK pid \in Pids, time \in 0 .. MAX_TIME : add_to_print_queue(pid, time)
    BY <1>5
  <2>2. PICK new \in Nodes :
          /\ Good(Append(s, new))'
          /\ JobOf(new)' = [pid |-> pid, time |-> time]
          /\ \A i \in 1 .. Len(s) : JobOf(s[i])' = JobOf(s[i])
          /\ Printing' = Printing
          /\ \A b \in Printing : JobOf(b)' = JobOf(b)
    BY <1>0, <1>1, <2>1, AddStep
  <2> DEFINE t == Append(s, new)
             j == [pid |-> pid, time |-> time]
  <2>3. /\ t \in Seq(Nodes) /\ Len(t) = Len(s) + 1 /\ t[Len(s) + 1] = new
        /\ \A i \in 1 .. Len(s) : t[i] = s[i]
    BY AppendProperties
  <2>4. Pending' = [i \in 1 .. Len(t) |-> JobOf(t[i])'] /\ Current' = Current
    <3>1. buffer' = buffer
      BY <2>1 DEF add_to_print_queue
    <3>2. Printing # {} => JobOf(buffer)' = JobOf(buffer)
      <4>1. Printing # {} => JobOf(buffer)' = [pid |-> heap'[buffer].pid,
                                               time |-> heap'[buffer].time]
        BY <3>1 DEF JobOf
      <4> QED BY <1>2, <2>2, <4>1 DEF JobOf
    <3> QED BY <1>2, <1>3, <2>2, <2>3, <3>1, <3>2
  <2>5. j \in Jobs
    BY DEF Jobs
  <2> HIDE DEF t
  <2>6. Pending' = [i \in 1 .. Len(s) + 1 |->
                      IF i <= Len(s) THEN JobOf(s[i]) ELSE j]
    <3>1. \A i \in 1 .. Len(t) :
            JobOf(t[i])' = IF i <= Len(s) THEN JobOf(s[i]) ELSE j
      <4> TAKE i \in 1 .. Len(t)
      <4>1. CASE i <= Len(s)
        <5>1. i \in 1 .. Len(s) /\ t[i] = s[i]
          BY <1>4, <2>3, <4>1
        <5> QED BY <2>2, <4>1, <5>1
      <4>2. CASE ~(i <= Len(s))
        <5>1. i = Len(s) + 1
          BY <1>4, <2>3, <4>2
        <5> QED BY <2>2, <2>3, <4>2, <5>1
      <4> QED BY <4>1, <4>2
    <3> QED BY <2>3, <2>4, <3>1
  <2>7. Append(JobsOf(s), j) = [i \in 1 .. Len(s) + 1 |->
                                  IF i <= Len(s) THEN JobOf(s[i]) ELSE j]
    <3> HIDE DEF j
    <3> QED BY <1>4 DEF JobsOf
  <2>8. PQ!Request(j)
    BY <1>2, <2>4, <2>6, <2>7 DEF PQ!Request
  <2> QED BY <2>5, <2>8 DEF PQ!Next
<1>6. CASE Tick
  <2>1. /\ Good(s)'
        /\ \A i \in 1 .. Len(s) : JobOf(s[i])' = JobOf(s[i])
        /\ Printing' = Printing /\ buffer' = buffer
        /\ \/ \A b \in Printing : JobOf(b)' = JobOf(b)
           \/ \A b \in Printing : /\ JobOf(b).time > 0
                                  /\ JobOf(b)' = [JobOf(b) EXCEPT !.time = @ - 1]
    BY <1>0, <1>1, <1>6, TickStep
  <2>2. Pending' = Pending
    BY <1>2, <1>3, <2>1 DEF JobsOf
  <2>3. CASE Printing = {} \/ \A b \in Printing : JobOf(b)' = JobOf(b)
    <3>1. Current' = Current
      BY <1>2, <1>3, <2>1, <2>3
    <3> QED BY <2>2, <3>1
  <2>4. CASE Printing # {} /\ \A b \in Printing :
               JobOf(b).time > 0 /\ JobOf(b)' = [JobOf(b) EXCEPT !.time = @ - 1]
    <3>1. /\ Current = JobOf(buffer) /\ Current # NULL /\ Current.time > 0
          /\ Current' = [Current EXCEPT !.time = @ - 1]
      BY <1>2, <1>3, <2>1, <2>4
    <3> QED BY <2>2, <3>1 DEF PQ!Next, PQ!Work
  <2> QED BY <2>1, <2>3, <2>4
<1>7. CASE Free
  <2>1. /\ Good(s)' /\ heap' = heap /\ buffer' = buffer
        /\ Printing = {buffer} /\ Printing' = {} /\ JobOf(buffer).time = 0
    BY <1>0, <1>1, <1>7, FreeStep
  <2>2. \A n : JobOf(n)' = JobOf(n)
    BY <2>1 DEF JobOf
  <2>3. Pending' = Pending /\ Current' = NULL /\ Current = JobOf(buffer)
    BY <1>2, <1>3, <2>1, <2>2 DEF JobsOf
  <2>4. Current # NULL /\ Current.time = 0
    BY <1>2, <2>1, <2>3
  <2> QED BY <2>3, <2>4 DEF PQ!Next, PQ!Finish
<1>8. CASE Clear
  <2>1. Good(s)' /\ heap' = heap /\ Printing = {} /\ Printing' = {}
    BY <1>0, <1>1, <1>8, ClearStep
  <2>2. \A n : JobOf(n)' = JobOf(n)
    BY <2>1 DEF JobOf
  <2> QED BY <1>2, <1>3, <2>1, <2>2 DEF JobsOf
<1>9. CASE NextJob
  <2>1. /\ heap' = heap
        /\ \/ Good(s)' /\ Printing' = Printing /\ buffer' = buffer
           \/ /\ s # <<>> /\ Good(Tail(s))'
              /\ Printing = {} /\ Printing' = {s[1]} /\ buffer' = s[1]
    BY <1>0, <1>1, <1>9, NextJobStep
  <2>2. \A n : JobOf(n)' = [pid |-> heap[n].pid, time |-> heap[n].time]
    BY <2>1 DEF JobOf
  <2>3. CASE Good(s)' /\ Printing' = Printing /\ buffer' = buffer
    <3>1. \A n : JobOf(n)' = JobOf(n)
      BY <2>2 DEF JobOf
    <3>2. JobOf(buffer)' = JobOf(buffer)
      BY <2>1, <2>3 DEF JobOf
    <3> QED BY <1>2, <1>3, <2>3, <3>1, <3>2 DEF JobsOf
  <2>4. CASE /\ s # <<>> /\ Good(Tail(s))'
             /\ Printing = {} /\ Printing' = {s[1]} /\ buffer' = s[1]
    <3> DEFINE t == Tail(s)
    <3>1. /\ t \in Seq(Nodes) /\ Len(t) = Len(s) - 1
          /\ \A i \in 1 .. Len(t) : t[i] = s[i + 1]
      BY <2>4, HeadTailProperties
    <3>2. \A n : JobOf(n)' = JobOf(n)
      BY <2>2 DEF JobOf
    <3>3. Pending' = [i \in 1 .. Len(t) |-> JobOf(t[i])'] /\ Current' = JobOf(buffer)'
      BY <1>3, <2>4, <3>1
    <3> HIDE DEF t
    <3>4. Current' = JobOf(s[1]) /\ Current = NULL
      BY <1>2, <2>1, <2>4, <3>3 DEF JobOf
    <3>5. Pending' = [i \in 1 .. Len(s) - 1 |-> JobOf(s[i + 1])]
      BY <3>1, <3>2, <3>3
    <3>6. /\ JobsOf(s) # <<>> /\ Head(JobsOf(s)) = JobOf(s[1])
          /\ Tail(JobsOf(s)) = [i \in 1 .. Len(s) - 1 |-> JobOf(s[i + 1])]
      BY <1>4, <2>4 DEF JobsOf
    <3>7. PQ!Start
      BY <1>2, <3>4, <3>5, <3>6 DEF PQ!Start
    <3> QED BY <3>7 DEF PQ!Next
  <2> QED BY <2>1, <2>3, <2>4
<1>10. CASE RenderThread \/ UNCHANGED vars
  <2>1. Good(s)' /\ UNCHANGED <<heap, buffer, ppc>>
    BY <1>0, <1>1, <1>10, OtherStep
  <2>2. (\A n : JobOf(n)' = JobOf(n)) /\ JobOf(buffer)' = JobOf(buffer)
        /\ Printing' = Printing
    BY <2>1 DEF JobOf, Printing
  <2> QED BY <1>2, <1>3, <2>1, <2>2 DEF JobsOf
<1> QED BY <1>5, <1>6, <1>7, <1>8, <1>9, <1>10 DEF Next, PrinterThread

\* The linked list over memory that is freed and allocated again implements the
\* first-in first-out queue, for the safety part of what it promises.
THEOREM ImplementsQueue == Spec => PQ!Safety
<1>1. Init => PQ!Init
  <2> SUFFICES ASSUME Init PROVE PQ!Init
    OBVIOUS
  <2>1. <<>> \in Seq(Nodes) /\ Len(<<>>) = 0
    BY EmptySeq
  <2>2. IInv /\ IsList(<<>>)
    BY <2>1, InitInv DEF Init, IsList
  <2>3. Listed = <<>>
    BY <2>2, Found DEF IInv
  <2> QED BY <2>1, <2>3 DEF Init, PQ!Init, Pending, Current
<1>2. IInv /\ [Next]_vars /\ Finds /\ Finds' => [PQ!Next]_<<Pending, Current>>
  BY AbstractStep
<1> QED BY <1>1, <1>2, AlwaysFinds, PrinterInvariant, PTL DEF Spec, PQ!Safety
=============================================================================
