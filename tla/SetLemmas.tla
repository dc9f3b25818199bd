------------------------------ MODULE SetLemmas ------------------------------
(* Lemmas on numbers, finite sets and counting that the proofs share.        *)
EXTENDS Integers, FiniteSets, FiniteSetTheorems, FunctionTheorems, WellFoundedInduction,
        TLAPS

NatLess == {ss \in Nat \X Nat : ss[1] < ss[2]}

\* There is no infinite descent among the naturals.
LEMMA NatLessWellFounded == IsWellFoundedOn(NatLess, Nat)
BY NatLessThanWellFounded DEF OpToRel, NatLess

\* A set of naturals that has an element has a least one.
LEMMA LeastNat ==
  ASSUME NEW T \in SUBSET Nat, T # {}
  PROVE  \E x \in T : \A y \in T : x <= y
<1>1. PICK x \in T : \A y \in T : <<y, x>> \notin NatLess
  BY WFMin, NatLessWellFounded
<1>2. \A y, z \in Nat : y < z => <<y, z>> \in NatLess
  BY DEF NatLess
<1>3. \A y \in T : x <= y
  <2> TAKE y \in T
  <2>1. x \in Nat /\ y \in Nat
    OBVIOUS
  <2>2. ~(y < x)
    BY <1>1, <1>2, <2>1
  <2> QED BY <2>1, <2>2
<1> QED BY <1>3

\* A remainder is below the modulus, and what is below it is its own remainder.
LEMMA ModRange ==
  ASSUME NEW n \in Nat \ {0}, NEW a \in Int
  PROVE  a % n \in 0 .. n - 1
OBVIOUS

LEMMA ModSmall ==
  ASSUME NEW n \in Nat \ {0}, NEW a \in 0 .. n - 1
  PROVE  a % n = a /\ (a + n) % n = a
OBVIOUS

\* A set grows by at most one when an element joins it.
LEMMA AddOne ==
  ASSUME NEW S, NEW x, IsFiniteSet(S), Cardinality(S) \in Nat
  PROVE  IsFiniteSet(S \cup {x}) /\ Cardinality(S \cup {x}) <= Cardinality(S) + 1
<1> DEFINE n == Cardinality(S)
<1>1. IsFiniteSet(S \cup {x}) /\ Cardinality(S \cup {x}) = IF x \in S THEN n ELSE n + 1
  BY FS_AddElement
<1>2. n \in Nat
  OBVIOUS
<1> HIDE DEF n
<1>3. n <= n + 1 /\ n + 1 <= n + 1
  BY <1>2
<1>4. Cardinality(S \cup {x}) <= n + 1
  BY <1>1, <1>3
<1> QED BY <1>1, <1>4 DEF n

\* A bijection between finite sets, given as a function, makes them equally
\* large.
LEMMA SameSize ==
  ASSUME NEW S, NEW T, IsFiniteSet(S), NEW f \in [S -> T],
         \A x, y \in S : f[x] = f[y] => x = y,
         \A z \in T : \E x \in S : f[x] = z
  PROVE  IsFiniteSet(T) /\ Cardinality(T) = Cardinality(S)
<1>1. f \in Bijection(S, T)
  BY Fun_IsBij
<1>2. ExistsBijection(S, T)
  BY <1>1 DEF ExistsBijection
<1> QED BY <1>2, FS_Bijection

\* Exchanging two entries of a table changes no value's number of places: A has
\* its places before, B after.
LEMMA SwapCount ==
  ASSUME NEW A, NEW B, NEW a, NEW b, IsFiniteSet(A),
         a \in B <=> b \in A, b \in B <=> a \in A,
         \A i : i \notin {a, b} => (i \in B <=> i \in A)
  PROVE  IsFiniteSet(B) /\ Cardinality(B) = Cardinality(A)
<1> DEFINE f == [i \in A |-> IF i = a THEN b ELSE IF i = b THEN a ELSE i]
<1>1. f \in [A -> B]
  OBVIOUS
<1>2. \A x, y \in A : f[x] = f[y] => x = y
  OBVIOUS
<1>3. \A z \in B : \E x \in A : f[x] = z
  <2> TAKE z \in B
  <2>1. CASE z = a
    <3>1. b \in A /\ f[b] = a
      BY <2>1
    <3> QED BY <2>1, <3>1
  <2>2. CASE z = b
    <3>1. a \in A /\ f[a] = b
      BY <2>2
    <3> QED BY <2>2, <3>1
  <2>3. CASE z # a /\ z # b
    <3>1. z \in A /\ f[z] = z
      BY <2>3
    <3> QED BY <3>1
  <2> QED BY <2>1, <2>2, <2>3
<1> HIDE DEF f
<1> QED BY <1>1, <1>2, <1>3, SameSize

\* A set that a function maps into a finite one, no two elements to the same,
\* is no larger.
LEMMA NotMore ==
  ASSUME NEW S, NEW T, IsFiniteSet(T), NEW f \in [S -> T],
         \A x, y \in S : f[x] = f[y] => x = y
  PROVE  IsFiniteSet(S) /\ Cardinality(S) <= Cardinality(T)
<1>1. f \in Injection(S, T)
  BY Fun_IsInj
<1> QED BY <1>1, FS_Injection

\* A first value and a next one for each value give a sequence of all iterates.
LEMMA Iterates ==
  ASSUME NEW G, NEW z \in G, NEW h \in [G -> G]
  PROVE  \E f \in [Nat -> G] : f[0] = z /\ \A k \in Nat : f[k + 1] = h[f[k]]
<1> DEFINE Starts(f, n) == /\ f \in [0 .. n -> G] /\ f[0] = z
                           /\ \A k \in 0 .. n - 1 : f[k + 1] = h[f[k]]
           Bad == {n \in Nat : ~\E f : Starts(f, n)}
<1>1. \A n \in Nat : \E f : Starts(f, n)
  <2> SUFFICES ASSUME Bad # {} PROVE FALSE
    OBVIOUS
  <2>1. PICK n \in Bad : \A y \in Bad : n <= y
    <3>1. Bad \in SUBSET Nat
      OBVIOUS
    <3> HIDE DEF Bad
    <3> QED BY <3>1, LeastNat
  <2>2. CASE n = 0
    <3>1. Starts([i \in 0 .. 0 |-> z], 0)
      OBVIOUS
    <3> QED BY <2>1, <2>2, <3>1
  <2>3. CASE n # 0
    <3>1. n - 1 \in Nat /\ n - 1 \notin Bad
      <4>1. n \in Nat
        OBVIOUS
      <4> HIDE DEF Bad
      <4> QED BY <2>1, <2>3, <4>1
    <3>2. PICK f : Starts(f, n - 1)
      BY <3>1
    <3> DEFINE g == [i \in 0 .. n |-> IF i = n THEN h[f[n - 1]] ELSE f[i]]
    <3>3. f[n - 1] \in G
      BY <3>1, <3>2
    <3>4. g \in [0 .. n -> G]
      BY <3>1, <3>2, <3>3
    <3>5. g[0] = z
      BY <3>1, <3>2
    <3>6. ASSUME NEW k \in 0 .. n - 1 PROVE g[k + 1] = h[g[k]]
      <4>1. n \in Nat
        OBVIOUS
      <4>2. CASE k = n - 1
        BY <3>1, <4>1, <4>2
      <4>3. CASE k # n - 1
        <5>1. k \in 0 .. n - 1 - 1 /\ k \in 0 .. n /\ k + 1 \in 0 .. n /\ k # n /\ k + 1 # n
          BY <4>1, <4>3
        <5>2. f[k + 1] = h[f[k]]
          BY <3>2, <5>1
        <5> QED BY <5>1, <5>2
      <4> QED BY <4>2, <4>3
    <3>7. Starts(g, n)
      <4> HIDE DEF g
      <4> QED BY <3>4, <3>5, <3>6
    <3> QED BY <2>1, <3>7
  <2> QED BY <2>2, <2>3
<1> HIDE DEF Starts
<1>2. \A n \in Nat, m \in Nat : \A f, g : Starts(f, n) /\ Starts(g, m) =>
        \A k \in Nat : k <= n /\ k <= m => f[k] = g[k]
  <2> SUFFICES ASSUME NEW n \in Nat, NEW m \in Nat, NEW f, NEW g,
                      Starts(f, n), Starts(g, m)
               PROVE  \A k \in Nat : k <= n /\ k <= m => f[k] = g[k]
    OBVIOUS
  <2> DEFINE Apart == {k \in Nat : k <= n /\ k <= m /\ f[k] # g[k]}
  <2> SUFFICES ASSUME Apart # {} PROVE FALSE
    OBVIOUS
  <2>1. PICK k \in Apart : \A y \in Apart : k <= y
    <3>1. Apart \in SUBSET Nat
      OBVIOUS
    <3> HIDE DEF Apart
    <3> QED BY <3>1, LeastNat
  <2>2. k # 0 /\ k \in Nat /\ k <= n /\ k <= m /\ f[k] # g[k]
    <3>1. f[0] = z /\ g[0] = z
      BY DEF Starts
    <3>2. k \in Nat /\ k <= n /\ k <= m /\ f[k] # g[k]
      OBVIOUS
    <3> QED BY <3>1, <3>2
  <2>3. k - 1 \in Nat /\ k - 1 \notin Apart /\ k - 1 + 1 = k
    <3> HIDE DEF Apart
    <3> QED BY <2>1, <2>2
  <2>4. k - 1 \in 0 .. n - 1 /\ k - 1 \in 0 .. m - 1
    BY <2>2, <2>3
  <2>5. f[k - 1] = g[k - 1]
    BY <2>2, <2>3
  <2>6. f[k - 1 + 1] = h[f[k - 1]] /\ g[k - 1 + 1] = h[g[k - 1]]
    BY <2>4 DEF Starts
  <2> QED BY <2>2, <2>3, <2>5, <2>6
<1> DEFINE part == [n \in Nat |-> CHOOSE f : Starts(f, n)]
           all == [n \in Nat |-> part[n][n]]
<1>3. \A n \in Nat : Starts(part[n], n)
  BY <1>1
<1> HIDE DEF part
<1>4. \A n \in Nat : all[n] \in G
  BY <1>3 DEF Starts
<1>5. all[0] = z
  BY <1>3 DEF Starts
<1>6. ASSUME NEW k \in Nat PROVE all[k + 1] = h[all[k]]
  <2>1. Starts(part[k + 1], k + 1) /\ Starts(part[k], k)
    BY <1>3
  <2>2. part[k + 1][k + 1] = h[part[k + 1][k]]
    <3>1. k \in 0 .. k + 1 - 1
      OBVIOUS
    <3> QED BY <2>1, <3>1 DEF Starts
  <2>3. part[k + 1][k] = part[k][k]
    <3>1. k + 1 \in Nat /\ k <= k + 1 /\ k <= k
      OBVIOUS
    <3> QED BY <1>2, <2>1, <3>1
  <2> QED BY <2>2, <2>3
<1>7. all \in [Nat -> G]
  BY <1>4
<1> HIDE DEF all
<1> QED BY <1>5, <1>6, <1>7

\* A loop over d[0] .. d[N] keeps the index and the value of the smallest entry
\* so far, in c[i] after turn i.
Minima(c, d, N) ==
  /\ c[0] = [idx |-> 0, diff |-> d[0]]
  /\ \A i \in 1 .. N : c[i] = IF d[i] < c[i - 1].diff
                             THEN [idx |-> i, diff |-> d[i]] ELSE c[i - 1]

\* It has a result after each turn.
LEMMA LoopRuns ==
  ASSUME NEW N \in Nat, NEW d, \A i \in 0 .. N : d[i] \in Nat
  PROVE  \E c \in [0 .. N -> [idx : Nat, diff : Nat]] : Minima(c, d, N)
<1> DEFINE R == [idx : Nat, diff : Nat]
           G == Nat \X R
           z == <<0, [idx |-> 0, diff |-> d[0]]>>
           turn(k, s) == IF k \in 0 .. N /\ d[k] < s.diff THEN [idx |-> k, diff |-> d[k]] ELSE s
           h == [x \in G |-> <<x[1] + 1, turn(x[1] + 1, x[2])>>]
<1>1. z \in G
  OBVIOUS
<1>2. \A k \in Nat, s \in R : turn(k, s) \in R
  OBVIOUS
<1>3. /\ h \in [G -> G]
      /\ \A x \in G : x[1] \in Nat /\ x[2] \in R /\ h[x] = <<x[1] + 1, turn(x[1] + 1, x[2])>>
  <2> HIDE DEF turn, R
  <2> QED BY <1>2
<1>4. PICK f \in [Nat -> G] : f[0] = z /\ \A k \in Nat : f[k + 1] = h[f[k]]
  <2>1. h \in [G -> G]
    BY <1>3
  <2> HIDE DEF G, z, h
  <2> QED BY <1>1, <2>1, Iterates
<1>5. \A k \in Nat : /\ f[k][1] \in Nat /\ f[k][2] \in R
                     /\ f[k + 1][1] = f[k][1] + 1
                     /\ f[k + 1][2] = turn(f[k][1] + 1, f[k][2])
  <2> TAKE k \in Nat
  <2> HIDE DEF turn, R, G, h
  <2>1. f[k] \in G /\ f[k + 1] = h[f[k]]
    BY <1>4
  <2>2. f[k + 1] = <<f[k][1] + 1, turn(f[k][1] + 1, f[k][2])>>
    BY <1>3, <2>1
  <2> QED BY <1>3, <2>1, <2>2
<1>6. \A k \in Nat : f[k][1] = k
  <2> DEFINE Bad == {k \in Nat : f[k][1] # k}
  <2> SUFFICES ASSUME Bad # {} PROVE FALSE
    OBVIOUS
  <2>1. PICK k \in Bad : \A y \in Bad : k <= y
    <3>1. Bad \in SUBSET Nat
      OBVIOUS
    <3> HIDE DEF Bad
    <3> QED BY <3>1, LeastNat
  <2>2. k \in Nat /\ k # 0
    BY <1>4
  <2>3. k - 1 \in Nat /\ k - 1 \notin Bad
    BY <2>1, <2>2
  <2>4. f[k - 1][1] = k - 1 /\ k - 1 + 1 = k
    BY <2>2, <2>3
  <2>5. f[k - 1 + 1][1] = f[k - 1][1] + 1
    BY <1>5, <2>3
  <2> QED BY <2>2, <2>4, <2>5
<1> DEFINE c == [i \in 0 .. N |-> f[i][2]]
<1>7. c \in [0 .. N -> R]
  <2> HIDE DEF R
  <2> QED BY <1>5
<1>8. c[0] = [idx |-> 0, diff |-> d[0]]
  <2>1. c[0] = f[0][2]
    OBVIOUS
  <2>2. f[0] = z
    BY <1>4
  <2> HIDE DEF c
  <2>3. z[2] = [idx |-> 0, diff |-> d[0]]
    OBVIOUS
  <2> HIDE DEF z
  <2> QED BY <2>1, <2>2, <2>3
<1>9. ASSUME NEW i \in 1 .. N
      PROVE  c[i] = IF d[i] < c[i - 1].diff THEN [idx |-> i, diff |-> d[i]] ELSE c[i - 1]
  <2>1. i - 1 \in Nat /\ i - 1 + 1 = i /\ i \in 0 .. N /\ i - 1 \in 0 .. N
    OBVIOUS
  <2>2. c[i] = f[i][2] /\ c[i - 1] = f[i - 1][2]
    BY <2>1
  <2>3. f[i][2] = turn(i, f[i - 1][2])
    <3> HIDE DEF turn
    <3>1. f[i - 1 + 1][2] = turn(f[i - 1][1] + 1, f[i - 1][2]) /\ f[i - 1][1] = i - 1
      BY <1>5, <1>6, <2>1
    <3> QED BY <2>1, <3>1
  <2> HIDE DEF c
  <2> QED BY <2>1, <2>2, <2>3
<1> HIDE DEF c
<1>10. Minima(c, d, N)
  BY <1>8, <1>9 DEF Minima
<1> QED BY <1>7, <1>10

\* What it keeps after turn n is the first smallest of d[0] .. d[n].
LEMMA LoopFinds ==
  ASSUME NEW N \in Nat, NEW d \in [0 .. N -> Nat],
         NEW c, Minima(c, d, N), NEW n \in 0 .. N
  PROVE  /\ c[n].idx \in 0 .. n
         /\ \A j \in 0 .. n : \/ d[c[n].idx] < d[j]
                              \/ d[c[n].idx] = d[j] /\ c[n].idx <= j
<1> DEFINE Found(k) == /\ c[k].idx \in 0 .. k /\ c[k].diff = d[c[k].idx]
                       /\ \A j \in 0 .. k : \/ d[c[k].idx] < d[j]
                                            \/ d[c[k].idx] = d[j] /\ c[k].idx <= j
           Bad == {k \in 0 .. N : ~Found(k)}
<1>0. /\ c[0] = [idx |-> 0, diff |-> d[0]]
      /\ \A i \in 1 .. N : c[i] = IF d[i] < c[i - 1].diff
                                 THEN [idx |-> i, diff |-> d[i]] ELSE c[i - 1]
  BY DEF Minima
<1>1. Bad = {}
  <2> SUFFICES ASSUME Bad # {} PROVE FALSE
    OBVIOUS
  <2>1. PICK k \in Bad : \A y \in Bad : k <= y
    <3>1. Bad \in SUBSET Nat
      OBVIOUS
    <3> HIDE DEF Bad
    <3> QED BY <3>1, LeastNat
  <2>2. k \in 0 .. N /\ ~Found(k)
    OBVIOUS
  <2>3. k # 0
    <3>1. Found(0)
      BY <1>0
    <3> HIDE DEF Found
    <3> QED BY <2>2, <3>1
  <2>4. k \in 1 .. N /\ k - 1 \in 0 .. N /\ k - 1 < k
    BY <2>2, <2>3
  <2>5. Found(k - 1)
    <3> HIDE DEF Found
    <3>1. k - 1 \notin Bad
      <4> HIDE DEF Bad
      <4> QED BY <2>1, <2>4
    <3> QED BY <2>4, <3>1
  <2>6. CASE d[k] < c[k - 1].diff
    <3>1. c[k].idx = k /\ c[k].diff = d[k]
      <4>1. c[k] = [idx |-> k, diff |-> d[k]]
        BY <1>0, <2>4, <2>6
      <4> QED BY <4>1
    <3>2. ASSUME NEW j \in 0 .. k PROVE d[k] < d[j] \/ (d[k] = d[j] /\ k <= j)
      <4>1. CASE j = k
        BY <2>2, <4>1
      <4>2. CASE j # k
        <5>1. j \in 0 .. k - 1 /\ j \in 0 .. N /\ k \in 0 .. N
          BY <2>4, <4>2
        <5>2. d[k] \in Nat /\ d[j] \in Nat
          BY <5>1
        <5>3. c[k - 1].diff = d[c[k - 1].idx] /\ c[k - 1].idx \in 0 .. N
          BY <2>4, <2>5
        <5>4. d[c[k - 1].idx] < d[j] \/ d[c[k - 1].idx] = d[j]
          BY <2>5, <5>1
        <5>5. d[c[k - 1].idx] \in Nat
          BY <5>3
        <5>6. d[k] < d[c[k - 1].idx]
          BY <2>6, <5>3
        <5> QED BY <5>2, <5>4, <5>5, <5>6
      <4> QED BY <4>1, <4>2
    <3> QED BY <2>2, <3>1, <3>2
  <2>7. CASE ~(d[k] < c[k - 1].diff)
    <3>1. c[k] = c[k - 1]
      BY <1>0, <2>4, <2>7
    <3>2. c[k - 1].idx \in 0 .. k /\ c[k - 1].diff = d[c[k - 1].idx]
      BY <2>4, <2>5
    <3>3. ASSUME NEW j \in 0 .. k
          PROVE  \/ d[c[k - 1].idx] < d[j]
                 \/ d[c[k - 1].idx] = d[j] /\ c[k - 1].idx <= j
      <4>1. CASE j = k
        <5>1. d[k] \in Nat /\ c[k - 1].diff \in Nat /\ c[k - 1].idx <= k
          BY <2>4, <2>5
        <5> QED BY <2>7, <3>2, <4>1, <5>1
      <4>2. CASE j # k
        <5>1. j \in 0 .. k - 1
          BY <2>4, <4>2
        <5> QED BY <2>5, <5>1
      <4> QED BY <4>1, <4>2
    <3> QED BY <2>2, <3>1, <3>2, <3>3
  <2> QED BY <2>6, <2>7
<1>2. Found(n)
  <2> HIDE DEF Found
  <2> QED BY <1>1
<1> QED BY <1>2
=============================================================================
