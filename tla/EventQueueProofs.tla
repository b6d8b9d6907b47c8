--------------------------- MODULE EventQueueProofs ---------------------------
(***************************************************************************)
(* The entries of the heap stay inside its array, for any size it is       *)
(* given, and the heap implements a priority queue.                        *)
(***************************************************************************)
EXTENDS EventQueue, SequenceTheorems, RecursionProofs

QueueInv ==
  /\ m_heap \in Seq(Range(m_heap))
  /\ m_size_alloc \in Nat /\ m_size_alloc >= 2
  /\ InAllocation

(* A function on 1 .. n is a sequence of that length.                      *)
LEMMA FunctionIsSequence ==
  ASSUME NEW n \in Nat, NEW f, f = [k \in 1 .. n |-> f[k]]
  PROVE  f \in Seq(Range(f)) /\ Len(f) = n
<1>1. DOMAIN f = 1 .. n
  BY Zenon
<1>2. \A k \in 1 .. n : f[k] \in Range(f)
  BY <1>1 DEF Range
<1>3. f \in [1 .. n -> Range(f)]
  BY <1>2
<1> QED BY <1>1, <1>3

(* Each operation keeps the entries inside.                                *)
LEMMA QueueStep ==
  ASSUME QueueInv, [Next]_vars
  PROVE  QueueInv'
<1> USE DEF QueueInv, InAllocation, m_heap_size
<1>1. Len(m_heap) \in Nat
  OBVIOUS
<1>2. ASSUME NEW t \in Times, insert(t)
      PROVE  QueueInv'
  <2>1. /\ m_size_alloc' = Grown
        /\ m_heap' = [k \in 1 .. Len(m_heap) + 1 |-> m_heap'[k]]
    BY <1>2, Zenon DEF insert
  <2>2. m_heap' \in Seq(Range(m_heap')) /\ Len(m_heap') = Len(m_heap) + 1
    BY <1>1, <2>1, FunctionIsSequence
  <2>3. m_size_alloc \div 2 \in Nat /\ m_size_alloc \div 2 >= 1
    OBVIOUS
  <2>4. Grown \in Nat /\ Grown >= 2 /\ Len(m_heap) + 1 <= Grown
    BY <1>1, <2>3 DEF Grown
  <2> QED BY <2>1, <2>2, <2>4
<1>3. CASE extract_top
  <2> DEFINE h == Front(m_heap)
  <2>1. Len(m_heap) > 0 /\ m_size_alloc' = m_size_alloc
    BY <1>3 DEF extract_top
  <2>2. Len(h) = Len(m_heap) - 1
    <3> DEFINE n == Len(m_heap) - 1
    <3>1. n \in Nat /\ \A k \in 1 .. n : m_heap[k] \in Range(m_heap)
      BY <1>1, <2>1, ElementOfSeq
    <3>2. h = SubSeq(m_heap, 1, n)
      BY DEF Front
    <3> HIDE DEF h, n
    <3>3. Len(h) = IF 1 <= n THEN n - 1 + 1 ELSE 0
      BY <3>1, <3>2, SubSeqProperties
    <3>4. Len(h) = n
      BY <3>1, <3>3
    <3> QED BY <3>4 DEF n
  <2>3. m_heap' = [k \in 1 .. Len(h) |-> m_heap'[k]]
    BY <1>3, Zenon DEF extract_top
  <2>4. m_heap' \in Seq(Range(m_heap')) /\ Len(m_heap') = Len(m_heap) - 1
    BY <1>1, <2>1, <2>2, <2>3, FunctionIsSequence
  <2> QED BY <1>1, <2>1, <2>4
<1>4. CASE UNCHANGED vars
  BY <1>4 DEF vars
<1> QED BY <1>2, <1>3, <1>4 DEF Next

(***************************************************************************)
(* insert (sc_pq.cpp:71) never writes outside the array, whatever size the *)
(* queue is constructed with and however many entries it comes to hold.    *)
(***************************************************************************)
THEOREM StaysInAllocation == Spec => []InAllocation
<1>1. Init => QueueInv
  BY QueueAssumption DEF Init, QueueInv, InAllocation, m_heap_size, Range
<1>2. QueueInv => InAllocation
  BY DEF QueueInv
<1> QED BY <1>1, <1>2, QueueStep, PTL DEF Spec

----------------------------------------------------------------------------
(* The tree in the array                                                   *)

(* The parent comes before its children, and has at most two.              *)
LEMMA Parents ==
  /\ \A k \in Nat : k > 1 => parent(k) \in Nat /\ 1 <= parent(k) /\ parent(k) < k
  /\ \A j, k \in Nat : parent(k) = j => k = left(j) \/ k = right(j)
  /\ \A j \in Nat : parent(left(j)) = j /\ parent(right(j)) = j
BY DEF parent, left, right

(* Induction over the places of the array.                                 *)
LEMMA PlaceInduction ==
  ASSUME NEW n \in Nat, NEW S,
         \A k \in 1 .. n : (\A j \in 1 .. n : j < k => j \in S) => k \in S
  PROVE  1 .. n \subseteq S
<1> DEFINE T == {j \in Nat : \A k \in 1 .. n : k <= j => k \in S}
<1>1. 0 \in T
  OBVIOUS
<1>2. ASSUME NEW j \in T PROVE j + 1 \in T
  <2>1. j \in Nat /\ \A k \in 1 .. n : k <= j => k \in S
    OBVIOUS
  <2>2. ASSUME NEW k \in 1 .. n, k <= j + 1 PROVE k \in S
    <3>1. \A i \in 1 .. n : i < k => i \in S
      BY <2>1, <2>2
    <3> QED BY <3>1
  <2> QED BY <2>1, <2>2
<1>3. T = Nat
  <2>1. T \subseteq Nat
    OBVIOUS
  <2> HIDE DEF T
  <2> QED BY <1>1, <1>2, <2>1, Induction
<1>4. n \in T
  BY <1>3
<1> QED BY <1>4

(* w[k] is the way from place k up to place a, which it does not include.  *)
IsWay(w, a, n) ==
  \A k \in 1 .. n : w[k] = IF k <= a THEN {} ELSE {k} \union w[parent(k)]

(***************************************************************************)
(* A way leads from its first place, by parents, to a: each of its places  *)
(* but the first is the parent of another, and only of one.                *)
(***************************************************************************)
LEMMA WayFacts ==
  ASSUME NEW n \in Nat, NEW a \in 1 .. n, NEW w, IsWay(w, a, n)
  PROVE  \A k \in 1 .. n :
           /\ w[k] \subseteq a + 1 .. k
           /\ k > a => k \in w[k]
           /\ \A c \in w[k] : c # k => \E d \in w[k] : parent(d) = c
           /\ \A b, c \in w[k] : b < c => b <= parent(c)
           /\ \A c \in w[k] : parent(c) \in w[k] \/ parent(c) <= a
<1> DEFINE Facts(k) ==
             /\ w[k] \subseteq a + 1 .. k
             /\ k > a => k \in w[k]
             /\ \A c \in w[k] : c # k => \E d \in w[k] : parent(d) = c
             /\ \A b, c \in w[k] : b < c => b <= parent(c)
             /\ \A c \in w[k] : parent(c) \in w[k] \/ parent(c) <= a
           S == {k \in 1 .. n : Facts(k)}
<1>1. ASSUME NEW k \in 1 .. n, \A j \in 1 .. n : j < k => j \in S
      PROVE  k \in S
  <2>1. CASE k <= a
    <3>1. w[k] = {}
      BY <2>1 DEF IsWay
    <3> QED BY <2>1, <3>1
  <2>2. CASE k > a
    <3> DEFINE q == parent(k)
    <3>1. q \in 1 .. n /\ q < k /\ k > 1
      BY <2>2, Parents
    <3>2. w[k] = {k} \union w[q]
      <4>1. ~(k <= a)
        BY <2>2
      <4> QED BY <4>1, Zenon DEF IsWay
    <3>3. Facts(q) /\ (q <= a => w[q] = {})
      BY <1>1, <3>1 DEF IsWay
    <3>4. w[k] \subseteq a + 1 .. k /\ k \in w[k]
      BY <2>2, <3>1, <3>2, <3>3
    <3>5. \A c \in w[k] : c # k => \E d \in w[k] : parent(d) = c
      <4> SUFFICES ASSUME NEW c \in w[q] PROVE \E d \in w[k] : parent(d) = c
        BY <3>2
      <4>1. CASE c = q
        BY <3>2, <4>1
      <4>2. CASE c # q
        BY <3>2, <3>3, <4>2
      <4> QED BY <4>1, <4>2
    <3>6. \A b, c \in w[k] : b < c => b <= parent(c)
      BY <3>1, <3>2, <3>3
    <3>7. \A c \in w[k] : parent(c) \in w[k] \/ parent(c) <= a
      BY <3>1, <3>2, <3>3
    <3> QED BY <3>4, <3>5, <3>6, <3>7
  <2> QED BY <2>1, <2>2
<1>2. 1 .. n \subseteq S
  <2> HIDE DEF S
  <2> QED BY <1>1, PlaceInduction
<1> QED BY <1>2

(* Ways exist.                                                             *)
WaysTo(w, a, n) == w = [k \in 1 .. n |-> IF k <= a THEN {} ELSE {k} \union w[parent(k)]]

LEMMA WaysExist ==
  ASSUME NEW n \in Nat, NEW a \in Nat, a >= 1
  PROVE  \E w : WaysTo(w, a, n)
<1> DEFINE D == 1 .. n
           V == SUBSET (1 .. n)
           C == {k \in D : k > a}
           next == [k \in C |-> parent(k)]
           step == [k \in C |-> [v \in V |-> {k} \union v]]
           base == [k \in D |-> {}]
           m == [k \in D |-> k]
<1>1. /\ C \in SUBSET D /\ next \in [C -> D]
      /\ step \in [C -> [V -> V]] /\ base \in [D -> V]
      /\ m \in [D -> Nat] /\ \A k \in C : m[next[k]] < m[k]
      /\ n + 1 \in Nat /\ \A k \in D : m[k] < n + 1
      /\ {} \in V
  <2>1. \A k \in C : parent(k) \in D /\ parent(k) < k
    BY Parents
  <2>2. next \in [C -> D] /\ \A k \in C : m[next[k]] < m[k]
    BY <2>1
  <2>3. \A k \in C, v \in V : {k} \union v \in V
    OBVIOUS
  <2>4. step \in [C -> [V -> V]]
    <3> HIDE DEF V, C
    <3> QED BY <2>3
  <2> QED BY <2>2, <2>4
<1>2. /\ \A k \in D : k \in C <=> ~(k <= a)
      /\ \A k \in C : next[k] = parent(k)
      /\ \A k \in C : \A v \in V : step[k][v] = {k} \union v
      /\ \A k \in D : base[k] = {}
      /\ \A k \in C : next[k] \in D
  <2>1. \A k \in C : next[k] \in D
    BY <1>1
  <2> QED BY <2>1
<1> HIDE DEF D, V, C, next, step, base, m
<1>3. PICK w : Walks(w, D, V, C, next, step, base)
  BY <1>1, WalkExists
<1>4. w \in [D -> V] /\ \A k \in D : w[k] = IF k \in C THEN step[k][w[next[k]]] ELSE base[k]
  BY <1>3 DEF Walks
<1>5. \A k \in D : w[k] = IF k <= a THEN {} ELSE {k} \union w[parent(k)]
  <2> SUFFICES ASSUME NEW k \in D
               PROVE  w[k] = IF k <= a THEN {} ELSE {k} \union w[parent(k)]
    OBVIOUS
  <2>1. CASE k \in C
    <3>1. w[next[k]] \in V
      BY <1>2, <1>4, <2>1
    <3>2. w[k] = {k} \union w[next[k]]
      BY <1>2, <1>4, <2>1, <3>1
    <3> QED BY <1>2, <2>1, <3>2
  <2>2. CASE k \notin C
    BY <1>2, <1>4, <2>2
  <2> QED BY <2>1, <2>2
<1>6. w = [k \in D |-> IF k <= a THEN {} ELSE {k} \union w[parent(k)]]
  BY <1>4, <1>5
<1> QED BY <1>6 DEF D, WaysTo

----------------------------------------------------------------------------
(* insert                                                                  *)

(* p[k] is where an entry e that came to place k moves up to.              *)
IsUp(p, h, e, n) ==
  \A k \in 1 .. n : p[k] = IF k > 1 /\ Above(e, h[parent(k)]) THEN p[parent(k)] ELSE k

PlacesUp(p, h, e, n) ==
  p = [k \in 1 .. n |-> IF k > 1 /\ Above(e, h[parent(k)]) THEN p[parent(k)] ELSE k]

LEMMA UpExists ==
  ASSUME NEW n \in Nat, NEW h, NEW e
  PROVE  \E p : PlacesUp(p, h, e, n)
<1>1. CASE n = 0
  BY <1>1 DEF PlacesUp
<1>2. CASE n # 0
  <2> DEFINE D == 1 .. n
             Goes(k) == k > 1 /\ Above(e, h[parent(k)])
             C == {k \in D : Goes(k)}
             next == [k \in C |-> parent(k)]
             step == [k \in C |-> [v \in D |-> v]]
             base == [k \in D |-> k]
  <2>1. \A k \in C : parent(k) \in D /\ parent(k) < k
    BY Parents
  <2>2. next \in [C -> D] /\ \A k \in C : base[next[k]] < base[k]
    BY <2>1
  <2>3. step \in [C -> [D -> D]] /\ base \in [D -> D] /\ base \in [D -> Nat] /\ C \in SUBSET D
    OBVIOUS
  <2>4. n + 1 \in Nat /\ (\A k \in D : base[k] < n + 1) /\ 1 \in D
    BY <1>2
  <2>5. /\ \A k \in C : next[k] = parent(k) /\ next[k] \in D
        /\ \A k \in C, v \in D : step[k][v] = v
        /\ \A k \in D : base[k] = k
        /\ \A k \in D : k \in C <=> Goes(k)
    BY <2>1
  <2> HIDE DEF D, C, next, step, base
  <2>6. PICK p : Walks(p, D, D, C, next, step, base)
    BY <2>2, <2>3, <2>4, WalkExists
  <2>7. p \in [D -> D] /\ \A k \in D : p[k] = IF k \in C THEN step[k][p[next[k]]] ELSE base[k]
    BY <2>6 DEF Walks
  <2>8. \A k \in D : p[k] = IF k \in C THEN p[parent(k)] ELSE k
    BY <2>5, <2>7
  <2>9. p = [k \in D |-> IF Goes(k) THEN p[parent(k)] ELSE k]
    <3> HIDE DEF Goes
    <3> QED BY <2>5, <2>7, <2>8
  <2> QED BY <2>9 DEF D, PlacesUp
<1> QED BY <1>1, <1>2

(***************************************************************************)
(* From every place on the way to the entry's own one the entry there is   *)
(* later than the new one; above its own place it is not.                  *)
(***************************************************************************)
LEMMA UpFacts ==
  ASSUME NEW n \in Nat, NEW h, NEW e, NEW p, IsUp(p, h, e, n)
  PROVE  \A k \in 1 .. n :
           /\ p[k] \in 1 .. k
           /\ p[k] > 1 => ~Above(e, h[parent(p[k])])
           /\ \A w : IsWay(w, p[k], n) =>
                \A c \in w[k] : Above(e, h[parent(c)]) /\ parent(c) >= p[k]
<1> DEFINE Facts(k) ==
             /\ p[k] \in 1 .. k
             /\ p[k] > 1 => ~Above(e, h[parent(p[k])])
             /\ \A w : IsWay(w, p[k], n) =>
                  \A c \in w[k] : Above(e, h[parent(c)]) /\ parent(c) >= p[k]
           S == {k \in 1 .. n : Facts(k)}
<1>1. ASSUME NEW k \in 1 .. n, \A j \in 1 .. n : j < k => j \in S
      PROVE  k \in S
  <2> DEFINE q == parent(k)
  <2>1. CASE ~(k > 1 /\ Above(e, h[q]))
    <3>1. p[k] = k
      BY <2>1, Zenon DEF IsUp
    <3>2. ASSUME NEW w, IsWay(w, p[k], n) PROVE w[k] = {}
      <4>1. k <= p[k]
        BY <3>1
      <4> QED BY <3>2, <4>1, Zenon DEF IsWay
    <3>3. p[k] \in 1 .. k
      BY <3>1
    <3>4. p[k] > 1 => ~Above(e, h[parent(p[k])])
      BY <2>1, <3>1, Zenon
    <3> HIDE DEF q
    <3> QED BY <3>2, <3>3, <3>4, Zenon
  <2>2. CASE k > 1 /\ Above(e, h[q])
    <3>1. p[k] = p[q]
      BY <2>2, Zenon DEF IsUp
    <3>2. q \in 1 .. n /\ q < k
      BY <2>2, Parents
    <3>3. Facts(q)
      BY <1>1, <3>2
    <3>4. p[k] \in 1 .. k /\ q >= p[k] /\ k > p[k]
      BY <3>1, <3>2, <3>3
    <3>5. ASSUME NEW w, IsWay(w, p[k], n), NEW c \in w[k]
          PROVE  Above(e, h[parent(c)]) /\ parent(c) >= p[k]
      <4>1. ~(k <= p[k])
        BY <3>4
      <4>2. w[k] = {k} \union w[q]
        BY <3>5, <4>1, Zenon DEF IsWay
      <4>3. CASE c = k
        BY <2>2, <3>4, <4>3
      <4>4. CASE c \in w[q]
        <5>1. IsWay(w, p[q], n)
          BY <3>1, <3>5
        <5>2. Above(e, h[parent(c)]) /\ parent(c) >= p[q]
          BY <3>3, <4>4, <5>1, Zenon
        <5> QED BY <3>1, <5>2
      <4> QED BY <4>2, <4>3, <4>4
    <3>6. p[k] > 1 => ~Above(e, h[parent(p[k])])
      BY <3>1, <3>3, Zenon
    <3> QED BY <3>4, <3>5, <3>6, Zenon
  <2> QED BY <2>1, <2>2
<1>2. 1 .. n \subseteq S
  <2> HIDE DEF S
  <2> QED BY <1>1, PlaceInduction
<1> QED BY <1>2

HeapOrdered(h) == \A k \in 2 .. Len(h) : h[parent(k)] <= h[k]

(* What insert does, in terms of a place and a way to it.                  *)
Inserted(h, e, a, way) ==
  [k \in 1 .. Len(h) + 1 |->
     IF k = a THEN e ELSE IF k \in way THEN h[parent(k)] ELSE h[k]]

InsertShape(h, e, a, way) ==
  LET n == Len(h) + 1
  IN  /\ a \in 1 .. n
      /\ way \subseteq a + 1 .. n
      /\ n \in way \union {a}
      /\ \A c \in way : parent(c) \in way \union {a} /\ Above(e, h[parent(c)])
      /\ \A k \in way \union {a} : k # n => \E c \in way : parent(c) = k
      /\ \A b, c \in way : b < c => b <= parent(c)
      /\ a > 1 => ~Above(e, h[parent(a)])

LEMMA InsertDoes ==
  ASSUME NEW e, insert(e), Len(m_heap) \in Nat
  PROVE  \E a, way : InsertShape(m_heap, e, a, way) /\ m_heap' = Inserted(m_heap, e, a, way)
<1> DEFINE n == Len(m_heap) + 1
           p == CHOOSE q : PlacesUp(q, m_heap, e, n)
           w == CHOOSE q : WaysTo(q, p[n], n)
<1>0. n \in Nat /\ n \in 1 .. n
  OBVIOUS
<1>1. m_heap' = Inserted(m_heap, e, p[n], w[n])
  BY Zenon DEF insert, Inserted, m_heap_size, PlacesUp, WaysTo
<1>2. PlacesUp(p, m_heap, e, n)
  <2>1. \E q : PlacesUp(q, m_heap, e, n)
    <3> HIDE DEF n
    <3> QED BY <1>0, UpExists
  <2> QED BY <2>1, Zenon
<1> HIDE DEF p
<1>3. IsUp(p, m_heap, e, n)
  BY <1>2, Zenon DEF IsUp, PlacesUp
<1>4. /\ p[n] \in 1 .. n
      /\ p[n] > 1 => ~Above(e, m_heap[parent(p[n])])
      /\ \A v : IsWay(v, p[n], n) =>
           \A c \in v[n] : Above(e, m_heap[parent(c)]) /\ parent(c) >= p[n]
  <2> HIDE DEF n
  <2> QED BY <1>0, <1>3, UpFacts
<1>5. WaysTo(w, p[n], n)
  <2>1. p[n] \in Nat /\ p[n] >= 1
    BY <1>4
  <2>2. \E q : WaysTo(q, p[n], n)
    <3> HIDE DEF n
    <3> QED BY <1>0, <2>1, WaysExist
  <2> QED BY <2>2, Zenon
<1> HIDE DEF w, n
<1>6. IsWay(w, p[n], n)
  BY <1>5, Zenon DEF IsWay, WaysTo
<1>7. /\ w[n] \subseteq p[n] + 1 .. n
      /\ n > p[n] => n \in w[n]
      /\ \A c \in w[n] : c # n => \E d \in w[n] : parent(d) = c
      /\ \A b, c \in w[n] : b < c => b <= parent(c)
      /\ \A c \in w[n] : parent(c) \in w[n] \/ parent(c) <= p[n]
  BY <1>0, <1>4, <1>6, WayFacts
<1>8. n \in w[n] \union {p[n]}
  BY <1>0, <1>4, <1>7
<1>9. \A c \in w[n] : parent(c) \in w[n] \union {p[n]} /\ Above(e, m_heap[parent(c)])
  <2>1. \A c \in w[n] : c \in Nat /\ parent(c) \in Int
    BY <1>4, <1>7 DEF parent
  <2> QED BY <1>4, <1>6, <1>7, <2>1
<1>10. p[n] # n => \E c \in w[n] : parent(c) = p[n]
  <2> SUFFICES ASSUME p[n] # n, \A c \in w[n] : parent(c) # p[n] PROVE FALSE
    OBVIOUS
  <2>1. ASSUME NEW c \in w[n] PROVE parent(c) \in w[n] /\ parent(c) < c /\ c \in 1 .. n
    BY <1>4, <1>7, <1>9, Parents
  <2> DEFINE R == {k \in 1 .. n : k \notin w[n]}
  <2>2. 1 .. n \subseteq R
    <3>1. ASSUME NEW k \in 1 .. n, \A j \in 1 .. n : j < k => j \in R PROVE k \in R
      BY <2>1, <3>1
    <3> HIDE DEF R
    <3> QED BY <1>0, <3>1, PlaceInduction
  <2> QED BY <1>0, <1>8, <2>2
<1>11. \A k \in w[n] \union {p[n]} : k # n => \E c \in w[n] : parent(c) = k
  BY <1>7, <1>10
<1>12. InsertShape(m_heap, e, p[n], w[n])
  BY <1>4, <1>7, <1>8, <1>9, <1>11 DEF InsertShape, n
<1> QED BY <1>1, <1>12 DEF n

(* The heap stays ordered.                                                 *)
LEMMA InsertOrders ==
  ASSUME NEW h \in Seq(Int), NEW e \in Int, NEW a, NEW way,
         InsertShape(h, e, a, way), HeapOrdered(h)
  PROVE  HeapOrdered(Inserted(h, e, a, way))
<1> DEFINE n == Len(h) + 1
           g == Inserted(h, e, a, way)
<1>0. /\ Len(h) \in Nat /\ Len(g) = n
      /\ \A k \in 1 .. Len(h) : h[k] \in Int
      /\ \A k \in 1 .. n : g[k] = IF k = a THEN e ELSE IF k \in way THEN h[parent(k)] ELSE h[k]
  BY DEF Inserted
<1> HIDE DEF g
<1>1. /\ a \in 1 .. n /\ way \subseteq a + 1 .. n
      /\ n \in way \union {a}
      /\ \A c \in way : parent(c) \in way \union {a} /\ e < h[parent(c)]
      /\ \A k \in way \union {a} : k # n => \E c \in way : parent(c) = k
      /\ a > 1 => ~(e < h[parent(a)])
  BY DEF InsertShape, Above
<1>2. ASSUME NEW k \in 2 .. n
      PROVE  g[parent(k)] <= g[k]
  <2> DEFINE q == parent(k)
  <2>1. q \in 1 .. Len(h) /\ q < k /\ h[q] \in Int /\ k \in 1 .. n /\ q \in 1 .. n
    BY <1>0, Parents
  <2>2. q > 1 => q \in 2 .. Len(h) /\ h[parent(q)] <= h[q]
    BY <2>1, <1>0 DEF HeapOrdered
  <2>3. k <= Len(h) => h[q] <= h[k] /\ h[k] \in Int
    BY <1>0 DEF HeapOrdered
  <2> SUFFICES g[q] <= g[k]
    OBVIOUS
  <2> HIDE DEF q, n
  <2>4. CASE k \in way
    <3>1. g[k] = h[q] /\ e < h[q] /\ q \in way \union {a}
      <4>1. k # a
        BY <1>1, <2>4
      <4> QED BY <1>0, <1>1, <2>1, <2>4, <4>1 DEF q
    <3>2. CASE q = a
      <4>1. g[q] = e
        BY <1>0, <2>1, <3>2
      <4> QED BY <2>1, <3>1, <4>1
    <3>3. CASE q # a
      <4>1. q \in way /\ q > 1
        BY <1>1, <2>1, <3>1, <3>3
      <4>2. g[q] = h[parent(q)]
        BY <1>0, <2>1, <3>3, <4>1
      <4> QED BY <2>2, <3>1, <4>1, <4>2
    <3> QED BY <3>2, <3>3
  <2>5. CASE k = a
    <3>1. q # a /\ q \notin way
      BY <1>1, <2>1, <2>5
    <3>2. g[q] = h[q] /\ g[k] = e
      BY <1>0, <2>1, <2>5, <3>1
    <3>3. ~(e < h[q])
      BY <1>1, <2>5 DEF q
    <3> QED BY <2>1, <3>2, <3>3
  <2>6. CASE k \notin way /\ k # a
    <3>1. k <= Len(h)
      BY <1>0, <1>1, <2>6 DEF n
    <3>2. g[k] = h[k] /\ h[q] <= h[k] /\ h[k] \in Int
      BY <1>0, <2>1, <2>3, <2>6, <3>1
    <3>3. CASE q = a
      <4>1. q # n
        BY <1>0, <2>1 DEF n
      <4>2. PICK c \in way : parent(c) = q
        BY <1>1, <3>3, <4>1
      <4>3. e < h[q]
        BY <1>1, <4>2
      <4>4. g[q] = e
        BY <1>0, <2>1, <3>3
      <4> QED BY <2>1, <3>2, <4>3, <4>4
    <3>4. CASE q # a /\ q \in way
      <4>1. g[q] = h[parent(q)] /\ q > 1
        BY <1>0, <1>1, <2>1, <3>4
      <4>2. h[parent(q)] \in Int
        <5>1. parent(q) \in 1 .. Len(h)
          BY <1>0, <2>1, <4>1, Parents
        <5> QED BY <1>0, <5>1
      <4> QED BY <2>1, <2>2, <3>2, <4>1, <4>2
    <3>5. CASE q # a /\ q \notin way
      BY <1>0, <2>1, <3>2, <3>5
    <3> QED BY <3>3, <3>4, <3>5
  <2> QED BY <2>4, <2>5, <2>6
<1> QED BY <1>0, <1>2 DEF HeapOrdered, g

----------------------------------------------------------------------------
(* What is in the heap                                                     *)

Places(f, t) == {k \in DOMAIN f : f[k] = t}
Bag(f) == [t \in Range(f) |-> Cardinality(Places(f, t))]

(* Entries that are moved are the same entries.                            *)
LEMMA Moved ==
  ASSUME NEW f, NEW g, NEW s \in Bijection(DOMAIN g, DOMAIN f), IsFiniteSet(DOMAIN g),
         \A k \in DOMAIN g : g[k] = f[s[k]]
  PROVE  Bag(g) = Bag(f)
<1>1. /\ \A k \in DOMAIN g : s[k] \in DOMAIN f
      /\ \A j \in DOMAIN f : \E k \in DOMAIN g : s[k] = j
      /\ \A j, k \in DOMAIN g : s[j] = s[k] => j = k
  BY DEF Bijection, Injection, Surjection, IsInjective
<1>2. Range(g) = Range(f)
  BY <1>1 DEF Range
<1>3. ASSUME NEW t PROVE Cardinality(Places(g, t)) = Cardinality(Places(f, t))
  <2> DEFINE r == [k \in Places(g, t) |-> s[k]]
  <2>1. r \in [Places(g, t) -> Places(f, t)]
    BY <1>1 DEF Places
  <2>2. \A j \in Places(f, t) : \E k \in Places(g, t) : r[k] = j
    BY <1>1 DEF Places
  <2>3. \A j, k \in Places(g, t) : r[j] = r[k] => j = k
    BY <1>1 DEF Places
  <2>4. r \in Bijection(Places(g, t), Places(f, t))
    <3> HIDE DEF r
    <3> QED BY <2>1, <2>2, <2>3 DEF Bijection, Injection, Surjection, IsInjective
  <2>5. IsFiniteSet(Places(g, t))
    <3>1. Places(g, t) \subseteq DOMAIN g
      BY DEF Places
    <3> QED BY <3>1, FS_Subset
  <2> HIDE DEF r
  <2>6. ExistsBijection(Places(g, t), Places(f, t))
    BY <2>4 DEF ExistsBijection
  <2> QED BY <2>5, <2>6, FS_Bijection
<1> QED BY <1>2, <1>3 DEF Bag

(* One entry more, wherever it is put.                                     *)
LEMMA OneMore ==
  ASSUME NEW f, NEW g, IsFiniteSet(DOMAIN f), NEW a, a \notin DOMAIN g,
         DOMAIN f = DOMAIN g \union {a}, \A k \in DOMAIN g : g[k] = f[k]
  PROVE  /\ \A t : t # f[a] => Places(f, t) = Places(g, t)
         /\ Cardinality(Places(f, f[a])) = Cardinality(Places(g, f[a])) + 1
         /\ \A t : Cardinality(Places(g, t)) \in Nat /\ (t \in Range(g) <=> Cardinality(Places(g, t)) # 0)
         /\ Range(f) = Range(g) \union {f[a]}
<1>1. \A t : t # f[a] => Places(f, t) = Places(g, t)
  BY DEF Places
<1>2. Places(f, f[a]) = Places(g, f[a]) \union {a} /\ a \notin Places(g, f[a])
  BY DEF Places
<1>3. \A t : IsFiniteSet(Places(g, t))
  <2>1. \A t : Places(g, t) \subseteq DOMAIN f
    BY DEF Places
  <2> QED BY <2>1, FS_Subset
<1>4. Cardinality(Places(f, f[a])) = Cardinality(Places(g, f[a])) + 1
  BY <1>2, <1>3, FS_AddElement
<1>5. \A t : Cardinality(Places(g, t)) \in Nat /\ (Places(g, t) = {} <=> Cardinality(Places(g, t)) = 0)
  BY <1>3, FS_CardinalityType, FS_EmptySet
<1>6. \A t : t \in Range(g) <=> Places(g, t) # {}
  BY DEF Places, Range
<1>7. Range(f) = Range(g) \union {f[a]}
  BY DEF Range
<1> QED BY <1>1, <1>4, <1>5, <1>6, <1>7

(* insert adds the entry, and moves the others.                            *)
LEMMA InsertAdds ==
  ASSUME NEW h \in Seq(Int), NEW e, NEW a, NEW way, InsertShape(h, e, a, way)
  PROVE  Bag(Inserted(h, e, a, way)) = queue!BagAdd(Bag(h), e)
<1> DEFINE n == Len(h) + 1
           g == Inserted(h, e, a, way)
           f == [k \in 1 .. n |-> IF k = n THEN e ELSE h[k]]
           s == [k \in 1 .. n |-> IF k = a THEN n ELSE IF k \in way THEN parent(k) ELSE k]
<1>0. /\ Len(h) \in Nat /\ DOMAIN g = 1 .. n /\ DOMAIN f = 1 .. n /\ DOMAIN h = 1 .. Len(h)
      /\ \A k \in 1 .. n : g[k] = IF k = a THEN e ELSE IF k \in way THEN h[parent(k)] ELSE h[k]
      /\ \A k \in 1 .. n : f[k] = IF k = n THEN e ELSE h[k]
      /\ \A k \in 1 .. n : s[k] = IF k = a THEN n ELSE IF k \in way THEN parent(k) ELSE k
      /\ DOMAIN s = 1 .. n /\ s = [k \in 1 .. n |-> s[k]]
  BY DEF Inserted
<1>F. IsFiniteSet(1 .. n)
  <2>1. 1 \in Int /\ n \in Int
    BY <1>0
  <2> HIDE DEF n
  <2> QED BY <2>1, FS_Interval
<1>1. /\ a \in 1 .. n /\ way \subseteq a + 1 .. n
      /\ n \in way \union {a}
      /\ \A c \in way : parent(c) \in way \union {a}
      /\ \A k \in way \union {a} : k # n => \E c \in way : parent(c) = k
      /\ \A b, c \in way : b < c => b <= parent(c)
  BY DEF InsertShape
<1> HIDE DEF g, f, s
<1>2. ASSUME NEW c \in way
      PROVE  c \in 1 .. n /\ parent(c) \in 1 .. Len(h) /\ parent(c) < c /\ c # a
  <2>1. c \in a + 1 .. n /\ a \in 1 .. n /\ n \in Nat /\ Len(h) = n - 1
    BY <1>0, <1>1
  <2> HIDE DEF n
  <2>2. c \in 1 .. n /\ c \in Nat /\ c > 1 /\ c # a
    BY <2>1
  <2>3. parent(c) \in Nat /\ 1 <= parent(c) /\ parent(c) < c
    BY <2>2, Parents
  <2> QED BY <2>1, <2>2, <2>3
<1>3. \A k \in 1 .. n : s[k] \in 1 .. n
  BY <1>0, <1>2
<1>4. ASSUME NEW j \in 1 .. n PROVE \E k \in 1 .. n : s[k] = j
  <2>1. CASE j = n
    BY <1>0, <1>1, <2>1
  <2>2. CASE j # n /\ j \in way \union {a}
    <3>1. PICK c \in way : parent(c) = j
      BY <1>1, <2>2
    <3> QED BY <1>0, <1>2, <3>1
  <2>3. CASE j \notin way \union {a}
    BY <1>0, <2>3
  <2> QED BY <2>1, <2>2, <2>3
<1>5. ASSUME NEW j \in 1 .. n, NEW k \in 1 .. n, s[j] = s[k], j < k PROVE FALSE
  <2>1. CASE j = a
    <3>1. s[k] = n /\ k # a
      BY <1>0, <1>5, <2>1
    <3>2. k \notin way
      BY <1>0, <1>2, <3>1
    <3> QED BY <1>0, <1>1, <3>1, <3>2
  <2>2. CASE k = a
    <3>1. s[j] = n /\ j # a
      BY <1>0, <1>5, <2>2
    <3>2. j \notin way
      BY <1>0, <1>2, <3>1
    <3> QED BY <1>0, <1>1, <3>1, <3>2
  <2>3. CASE j # a /\ k # a /\ j \in way /\ k \in way
    <3>1. parent(j) = parent(k) /\ j <= parent(k) /\ parent(j) < j /\ parent(j) \in Int
      BY <1>0, <1>1, <1>2, <1>5, <2>3
    <3> QED BY <3>1
  <2>4. CASE j # a /\ k # a /\ j \in way /\ k \notin way
    <3>1. parent(j) = k
      BY <1>0, <1>5, <2>4
    <3> QED BY <1>1, <2>4, <3>1
  <2>5. CASE j # a /\ k # a /\ j \notin way /\ k \in way
    <3>1. parent(k) = j
      BY <1>0, <1>5, <2>5
    <3> QED BY <1>1, <2>5, <3>1
  <2>6. CASE j # a /\ k # a /\ j \notin way /\ k \notin way
    BY <1>0, <1>5, <2>6
  <2> QED BY <2>1, <2>2, <2>3, <2>4, <2>5, <2>6
<1>6. \A j, k \in 1 .. n : s[j] = s[k] => j = k
  <2> SUFFICES ASSUME NEW j \in 1 .. n, NEW k \in 1 .. n, s[j] = s[k], j # k PROVE FALSE
    OBVIOUS
  <2>1. j < k \/ k < j
    OBVIOUS
  <2> QED BY <1>5, <2>1
<1>7. s \in Bijection(DOMAIN g, DOMAIN f)
  BY <1>0, <1>3, <1>4, <1>6 DEF Bijection, Injection, Surjection, IsInjective
<1>8. \A k \in DOMAIN g : g[k] = f[s[k]]
  <2> SUFFICES ASSUME NEW k \in 1 .. n PROVE g[k] = f[s[k]]
    BY <1>0
  <2>1. CASE k = a
    BY <1>0, <1>1, <2>1
  <2>2. CASE k # a /\ k \in way
    <3>1. g[k] = h[parent(k)] /\ s[k] = parent(k) /\ parent(k) \in 1 .. n /\ parent(k) # n
      BY <1>0, <1>2, <2>2
    <3> QED BY <1>0, <3>1
  <2>3. CASE k # a /\ k \notin way
    <3>1. g[k] = h[k] /\ s[k] = k /\ k # n
      BY <1>0, <1>1, <2>3
    <3> QED BY <1>0, <3>1
  <2> QED BY <2>1, <2>2, <2>3
<1>9. Bag(g) = Bag(f)
  <2>1. IsFiniteSet(DOMAIN g)
    BY <1>0, <1>F
  <2> QED BY <1>7, <1>8, <2>1, Moved
<1>10. /\ \A t : t # e => Places(f, t) = Places(h, t)
       /\ Cardinality(Places(f, e)) = Cardinality(Places(h, e)) + 1
       /\ \A t : Cardinality(Places(h, t)) \in Nat
                /\ (t \in Range(h) <=> Cardinality(Places(h, t)) # 0)
       /\ Range(f) = Range(h) \union {e}
  <2>1. f[n] = e /\ n \notin DOMAIN h /\ DOMAIN f = DOMAIN h \union {n}
        /\ \A k \in DOMAIN h : h[k] = f[k]
    BY <1>0
  <2>2. IsFiniteSet(DOMAIN f)
    BY <1>0, <1>F
  <2> HIDE DEF n
  <2>3. /\ \A t : t # f[n] => Places(f, t) = Places(h, t)
        /\ Cardinality(Places(f, f[n])) = Cardinality(Places(h, f[n])) + 1
        /\ \A t : Cardinality(Places(h, t)) \in Nat
                 /\ (t \in Range(h) <=> Cardinality(Places(h, t)) # 0)
        /\ Range(f) = Range(h) \union {f[n]}
    BY <2>1, <2>2, OneMore
  <2> QED BY <2>1, <2>3
<1>11. Bag(f) = queue!BagAdd(Bag(h), e)
  <2>1. DOMAIN Bag(h) = Range(h) /\ \A t \in Range(h) : Bag(h)[t] = Cardinality(Places(h, t))
    BY DEF Bag
  <2>2. CASE e \in Range(h)
    <3>1. Range(f) = Range(h)
      BY <1>10, <2>2
    <3>2. queue!BagAdd(Bag(h), e) = [t \in Range(h) |-> IF t = e THEN Bag(h)[t] + 1 ELSE Bag(h)[t]]
      BY <2>1, <2>2 DEF queue!BagAdd
    <3>3. \A t \in Range(h) : (IF t = e THEN Bag(h)[t] + 1 ELSE Bag(h)[t]) = Cardinality(Places(f, t))
      BY <1>10, <2>1
    <3> QED BY <3>1, <3>2, <3>3, Zenon DEF Bag
  <2>3. CASE e \notin Range(h)
    <3>1. queue!BagAdd(Bag(h), e)
            = [t \in Range(h) \union {e} |-> IF t = e THEN 1 ELSE Bag(h)[t]]
      BY <2>1, <2>3 DEF queue!BagAdd
    <3>2. Cardinality(Places(f, e)) = 1
      BY <1>10, <2>3
    <3>3. \A t \in Range(f) : (IF t = e THEN 1 ELSE Bag(h)[t]) = Cardinality(Places(f, t))
      BY <1>10, <2>1, <3>2
    <3> QED BY <1>10, <3>1, <3>3 DEF Bag
  <2> QED BY <2>2, <2>3
<1> QED BY <1>9, <1>11 DEF g

(* The earliest entry is at the root.                                      *)
LEMMA RootIsEarliest ==
  ASSUME NEW h \in Seq(Int), HeapOrdered(h)
  PROVE  \A k \in 1 .. Len(h) : h[1] <= h[k]
<1> DEFINE S == {k \in 1 .. Len(h) : h[1] <= h[k]}
<1>0. Len(h) \in Nat /\ \A k \in 1 .. Len(h) : h[k] \in Int
  OBVIOUS
<1>1. ASSUME NEW k \in 1 .. Len(h), \A j \in 1 .. Len(h) : j < k => j \in S
      PROVE  k \in S
  <2>1. CASE k = 1
    BY <1>0, <2>1
  <2>2. CASE k # 1
    <3>1. parent(k) \in 1 .. Len(h) /\ parent(k) < k
      BY <2>2, Parents
    <3>2. h[1] <= h[parent(k)] /\ h[parent(k)] <= h[k] /\ 1 \in 1 .. Len(h)
      BY <1>1, <2>2, <3>1 DEF HeapOrdered
    <3>3. h[1] \in Int /\ h[parent(k)] \in Int /\ h[k] \in Int
      BY <1>0, <3>1, <3>2
    <3> QED BY <3>2, <3>3
  <2> QED BY <2>1, <2>2
<1>2. 1 .. Len(h) \subseteq S
  <2> HIDE DEF S
  <2> QED BY <1>0, <1>1, PlaceInduction
<1> QED BY <1>2

----------------------------------------------------------------------------
(* extract_top                                                             *)

(* The child above the other is one, and no child is earlier.              *)
LEMMA TopChildIsTop ==
  ASSUME NEW h \in Seq(Int), NEW k \in 1 .. Len(h), left(k) <= Len(h)
  PROVE  /\ TopChild(h, k) \in 1 .. Len(h) /\ TopChild(h, k) > k /\ parent(TopChild(h, k)) = k
         /\ \A c \in 1 .. Len(h) : parent(c) = k => h[TopChild(h, k)] <= h[c]
<1> DEFINE c == TopChild(h, k)
<1>0. Len(h) \in Nat /\ \A j \in 1 .. Len(h) : h[j] \in Int
  OBVIOUS
<1>1. /\ left(k) \in 1 .. Len(h) /\ left(k) > k /\ right(k) > k /\ right(k) \in Nat
      /\ parent(left(k)) = k /\ parent(right(k)) = k
  BY <1>0, Parents DEF left, right
<1>2. CASE right(k) <= Len(h) /\ h[right(k)] < h[left(k)]
  <2>1. c = right(k)
    BY <1>2 DEF TopChild, Above
  <2> HIDE DEF c
  <2>2. \A j \in 1 .. Len(h) : parent(j) = k => h[c] <= h[j]
    <3> SUFFICES ASSUME NEW j \in 1 .. Len(h), parent(j) = k PROVE h[c] <= h[j]
      OBVIOUS
    <3>1. j = left(k) \/ j = right(k)
      BY Parents
    <3>2. h[j] \in Int /\ h[left(k)] \in Int /\ h[right(k)] \in Int
      BY <1>0, <1>1, <1>2
    <3> QED BY <1>2, <2>1, <3>1, <3>2
  <2> QED BY <1>1, <1>2, <2>1, <2>2 DEF c
<1>3. CASE ~(right(k) <= Len(h) /\ h[right(k)] < h[left(k)])
  <2>1. c = left(k)
    BY <1>3 DEF TopChild, Above
  <2> HIDE DEF c
  <2>2. \A j \in 1 .. Len(h) : parent(j) = k => h[c] <= h[j]
    <3> SUFFICES ASSUME NEW j \in 1 .. Len(h), parent(j) = k PROVE h[c] <= h[j]
      OBVIOUS
    <3>1. j = left(k) \/ j = right(k)
      BY Parents
    <3>2. h[j] \in Int /\ h[left(k)] \in Int
      BY <1>0, <1>1
    <3>3. CASE j = right(k)
      <4>1. right(k) <= Len(h)
        BY <3>3
      <4> QED BY <1>3, <2>1, <3>2, <3>3, <4>1
    <3> QED BY <2>1, <3>1, <3>2, <3>3
  <2> QED BY <1>1, <2>1, <2>2 DEF c
<1> QED BY <1>2, <1>3

(* heapify goes on from place k, with the entry e, to the child above.     *)
Sinks(h, e, k) == left(k) <= Len(h) /\ Above(h[TopChild(h, k)], e)

IsDown(p, h, e) ==
  \A k \in 1 .. Len(h) : p[k] = IF Sinks(h, e, k) THEN p[TopChild(h, k)] ELSE k

PlacesDown(p, h, e) ==
  p = [k \in 1 .. Len(h) |->
         IF left(k) <= Len(h) /\ Above(h[TopChild(h, k)], e) THEN p[TopChild(h, k)] ELSE k]

LEMMA DownExists ==
  ASSUME NEW h \in Seq(Int), NEW e
  PROVE  \E p : PlacesDown(p, h, e)
<1> DEFINE n == Len(h)
<1>0. n \in Nat
  OBVIOUS
<1>1. CASE n = 0
  BY <1>1 DEF PlacesDown
<1>2. CASE n # 0
  <2> DEFINE D == 1 .. n
             C == {k \in D : Sinks(h, e, k)}
             next == [k \in C |-> TopChild(h, k)]
             step == [k \in C |-> [v \in D |-> v]]
             base == [k \in D |-> k]
             m == [k \in D |-> n - k]
  <2>1. \A k \in C : TopChild(h, k) \in D /\ TopChild(h, k) > k
    BY TopChildIsTop DEF Sinks
  <2>2. next \in [C -> D] /\ \A k \in C : m[next[k]] < m[k]
    <3>1. next \in [C -> D]
      BY <2>1
    <3>2. \A k \in C : next[k] \in D /\ k \in D /\ next[k] > k
      BY <2>1
    <3> HIDE DEF next, C
    <3>3. \A k \in D : m[k] = n - k /\ k \in Int
      BY <1>0
    <3> HIDE DEF m, D, n
    <3> QED BY <1>0, <3>1, <3>2, <3>3
  <2>3. step \in [C -> [D -> D]] /\ base \in [D -> D] /\ C \in SUBSET D
    OBVIOUS
  <2>4. m \in [D -> Nat] /\ n + 1 \in Nat /\ (\A k \in D : m[k] < n + 1) /\ 1 \in D
    <3> HIDE DEF n
    <3> QED BY <1>0, <1>2
  <2>5. /\ \A k \in C : next[k] = TopChild(h, k) /\ next[k] \in D
        /\ \A k \in C, v \in D : step[k][v] = v
        /\ \A k \in D : base[k] = k
        /\ \A k \in D : k \in C <=> Sinks(h, e, k)
    BY <2>1
  <2> HIDE DEF D, C, next, step, base, m
  <2>6. PICK p : Walks(p, D, D, C, next, step, base)
    BY <2>2, <2>3, <2>4, WalkExists
  <2>7. p \in [D -> D] /\ \A k \in D : p[k] = IF k \in C THEN step[k][p[next[k]]] ELSE base[k]
    BY <2>6 DEF Walks
  <2>8. \A k \in D : p[k] = IF k \in C THEN p[TopChild(h, k)] ELSE k
    BY <2>5, <2>7
  <2>9. p = [k \in D |-> IF Sinks(h, e, k) THEN p[TopChild(h, k)] ELSE k]
    BY <2>5, <2>7, <2>8
  <2> QED BY <2>9, Zenon DEF D, n, Sinks, PlacesDown
<1> QED BY <1>1, <1>2

(***************************************************************************)
(* From every place on the way from where the entry sinks to up to where   *)
(* it started, it has gone to the child above; there it goes no further.   *)
(***************************************************************************)
LEMMA DownFacts ==
  ASSUME NEW h \in Seq(Int), NEW e, NEW p, IsDown(p, h, e),
         NEW w, IsWay(w, 1, Len(h))
  PROVE  \A k \in 1 .. Len(h) :
           /\ p[k] \in k .. Len(h) /\ ~Sinks(h, e, p[k])
           /\ k \in w[p[k]] \union {1}
           /\ \A c \in w[p[k]] :
                c > k => Sinks(h, e, parent(c)) /\ TopChild(h, parent(c)) = c
<1> DEFINE n == Len(h)
           Facts(k) ==
             /\ p[k] \in k .. n /\ ~Sinks(h, e, p[k])
             /\ k \in w[p[k]] \union {1}
             /\ \A c \in w[p[k]] :
                  c > k => Sinks(h, e, parent(c)) /\ TopChild(h, parent(c)) = c
           S == {j \in 1 .. n : Facts(n + 1 - j)}
<1>0. n \in Nat
  OBVIOUS
<1>W. n # 0 => \A k \in 1 .. n :
           /\ w[k] \subseteq 2 .. k
           /\ k > 1 => k \in w[k]
           /\ \A b, c \in w[k] : b < c => b <= parent(c)
           /\ \A c \in w[k] : parent(c) \in w[k] \/ parent(c) <= 1
  <2> SUFFICES ASSUME n # 0
               PROVE  \A k \in 1 .. n :
           /\ w[k] \subseteq 2 .. k
           /\ k > 1 => k \in w[k]
           /\ \A b, c \in w[k] : b < c => b <= parent(c)
           /\ \A c \in w[k] : parent(c) \in w[k] \/ parent(c) <= 1
    OBVIOUS
  <2>1. 1 \in 1 .. n /\ 1 + 1 = 2
    BY <1>0
  <2> HIDE DEF n
  <2>2. IsWay(w, 1, n)
    BY DEF n
  <2>3. \A k \in 1 .. n :
           /\ w[k] \subseteq 1 + 1 .. k
           /\ k > 1 => k \in w[k]
           /\ \A b, c \in w[k] : b < c => b <= parent(c)
           /\ \A c \in w[k] : parent(c) \in w[k] \/ parent(c) <= 1
    BY <1>0, <2>1, <2>2, WayFacts
  <2> QED BY <2>1, <2>3
<1>1. ASSUME NEW k \in 1 .. n, \A j \in 1 .. n : j > k => Facts(j)
      PROVE  Facts(k)
  <2>1. CASE ~Sinks(h, e, k)
    <3>1. p[k] = k
      BY <2>1, Zenon DEF IsDown
    <3>2. k \in w[k] \union {1} /\ \A c \in w[k] : ~(c > k)
      BY <1>0, <1>W
    <3>3. k \in k .. n
      BY <1>0
    <3> QED BY <2>1, <3>1, <3>2, <3>3
  <2>2. CASE Sinks(h, e, k)
    <3> DEFINE t == TopChild(h, k)
    <3>1. p[k] = p[t]
      BY <2>2, Zenon DEF IsDown
    <3>2. t \in 1 .. n /\ t > k /\ parent(t) = k
      BY <2>2, TopChildIsTop DEF Sinks
    <3>3. Facts(t)
      BY <1>1, <3>2
    <3> HIDE DEF t
    <3>4. p[k] \in k .. n /\ p[k] \in 1 .. n /\ n # 0
      BY <1>0, <3>1, <3>2, <3>3
    <3>5. t \in w[p[k]]
      BY <3>1, <3>2, <3>3
    <3>6. k \in w[p[k]] \union {1}
      BY <1>W, <3>2, <3>4, <3>5
    <3>7. ASSUME NEW c \in w[p[k]], c > k
          PROVE  Sinks(h, e, parent(c)) /\ TopChild(h, parent(c)) = c
      <4>0. c \in Int
        BY <1>W, <3>4
      <4>1. CASE c > t
        BY <3>1, <3>3, <3>7, <4>1
      <4>2. CASE c = t
        BY <2>2, <3>2, <4>2 DEF t
      <4>3. CASE c < t
        <5>1. c <= parent(t)
          BY <1>W, <3>4, <3>5, <4>3
        <5> QED BY <3>2, <3>7, <4>0, <5>1
      <4> QED BY <3>2, <4>0, <4>1, <4>2, <4>3
    <3> QED BY <3>1, <3>3, <3>4, <3>6, <3>7
  <2> QED BY <2>1, <2>2
<1> HIDE DEF Facts
<1>2. 1 .. n \subseteq S
  <2>1. ASSUME NEW j \in 1 .. n, \A i \in 1 .. n : i < j => i \in S PROVE j \in S
    <3>1. n + 1 - j \in 1 .. n
      BY <1>0
    <3>2. ASSUME NEW i \in 1 .. n, i > n + 1 - j PROVE Facts(i)
      <4>1. n + 1 - i \in 1 .. n /\ n + 1 - i < j /\ n + 1 - (n + 1 - i) = i
        BY <1>0, <3>2
      <4> HIDE DEF n
      <4>2. Facts(n + 1 - (n + 1 - i))
        BY <2>1, <4>1
      <4> QED BY <4>1, <4>2
    <3> HIDE DEF n
    <3>3. Facts(n + 1 - j)
      BY <1>1, <3>1, <3>2
    <3> QED BY <3>3
  <2> HIDE DEF S
  <2> QED BY <1>0, <2>1, PlaceInduction
<1>3. ASSUME NEW k \in 1 .. n PROVE Facts(k)
  <2>1. n + 1 - k \in 1 .. n /\ n + 1 - (n + 1 - k) = k
    BY <1>0
  <2> HIDE DEF n
  <2>2. Facts(n + 1 - (n + 1 - k))
    BY <1>2, <2>1
  <2> QED BY <2>1, <2>2
<1> QED BY <1>3 DEF Facts

(* What extract_top does, in terms of a place and the way to it.           *)
Extracted(h, e, a, way) ==
  [k \in 1 .. Len(h) |->
     IF k = a THEN e
     ELSE IF \E c \in way : parent(c) = k THEN h[CHOOSE c \in way : parent(c) = k] ELSE h[k]]

ExtractShape(h, e, a, way) ==
  LET n == Len(h)
  IN  /\ a \in 1 .. n /\ a \in way \union {1}
      /\ way \subseteq 2 .. n
      /\ ~Sinks(h, e, a)
      /\ \A c \in way : /\ parent(c) \in way \union {1}
                       /\ Sinks(h, e, parent(c)) /\ TopChild(h, parent(c)) = c
      /\ \A k \in way \union {1} : k # a => \E c \in way : parent(c) = k

LEMMA FrontIs ==
  ASSUME NEW m \in Seq(Int), Len(m) > 0
  PROVE  /\ Front(m) \in Seq(Int) /\ Len(Front(m)) = Len(m) - 1
         /\ \A k \in 1 .. Len(m) - 1 : Front(m)[k] = m[k]
<1> DEFINE n == Len(m) - 1
<1>1. n \in Nat /\ \A k \in 1 .. n : m[k] \in Int
  BY ElementOfSeq
<1>2. Front(m) = SubSeq(m, 1, n)
  BY DEF Front
<1> HIDE DEF n
<1>3. /\ SubSeq(m, 1, n) \in Seq(Int)
      /\ Len(SubSeq(m, 1, n)) = IF 1 <= n THEN n - 1 + 1 ELSE 0
      /\ \A k \in 1 .. n - 1 + 1 : SubSeq(m, 1, n)[k] = m[1 + k - 1]
  BY <1>1, SubSeqProperties
<1>4. /\ Len(Front(m)) = n /\ \A k \in 1 .. n : Front(m)[k] = m[k]
  <2>1. n - 1 + 1 = n /\ \A k \in 1 .. n : 1 + k - 1 = k
    BY <1>1
  <2> QED BY <1>1, <1>2, <1>3, <2>1
<1> QED BY <1>2, <1>3, <1>4 DEF n

LEMMA ExtractDoes ==
  ASSUME extract_top, m_heap \in Seq(Int)
  PROVE  \E a, way :
           LET h == Front(m_heap)
               e == m_heap[Len(m_heap)]
           IN  /\ Len(h) # 0 => ExtractShape(h, e, a, way)
               /\ m_heap' = Extracted(h, e, a, way)
<1> DEFINE h == Front(m_heap)
           e == m_heap[Len(m_heap)]
           n == Len(h)
           p == CHOOSE q : PlacesDown(q, h, e)
           Way(q) == q = [k \in 1 .. n |-> IF k = 1 THEN {} ELSE {k} \union q[parent(k)]]
           w == CHOOSE q : Way(q)
<1>0. Len(m_heap) > 0
  BY DEF extract_top, m_heap_size
<1>1. m_heap' = Extracted(h, e, p[1], w[p[1]])
  BY Zenon DEF extract_top, Extracted, m_heap_size, PlacesDown
<1>2. h \in Seq(Int) /\ n \in Nat
  BY <1>0, FrontIs
<1> HIDE DEF h, e
<1>3. PlacesDown(p, h, e)
  <2>1. \E q : PlacesDown(q, h, e)
    BY <1>2, DownExists
  <2> QED BY <2>1, Zenon
<1> HIDE DEF p
<1>4. IsDown(p, h, e)
  BY <1>3, Zenon DEF IsDown, Sinks, PlacesDown
<1>5. w = [k \in 1 .. n |-> IF k = 1 THEN {} ELSE {k} \union w[parent(k)]]
  <2>1. 1 \in Nat /\ 1 >= 1
    OBVIOUS
  <2> HIDE DEF n
  <2>2. PICK q : WaysTo(q, 1, n)
    BY <1>2, <2>1, WaysExist
  <2>3. \A k \in 1 .. n : (k <= 1) <=> (k = 1)
    OBVIOUS
  <2>4. q = [k \in 1 .. n |-> IF k = 1 THEN {} ELSE {k} \union q[parent(k)]]
    BY <2>2, <2>3, Zenon DEF WaysTo
  <2>5. \E v : Way(v)
    BY <2>4, Zenon
  <2>6. Way(w)
    <3> HIDE DEF Way
    <3> QED BY <2>5, Zenon
  <2> HIDE DEF w
  <2> QED BY <2>6, Zenon
<1> HIDE DEF w
<1>6. IsWay(w, 1, Len(h))
  <2>1. \A k \in 1 .. n : (k <= 1) <=> (k = 1)
    BY <1>2
  <2>2. \A k \in 1 .. n : w[k] = IF k = 1 THEN {} ELSE {k} \union w[parent(k)]
    <3> HIDE DEF n
    <3> QED BY <1>5, Zenon
  <2> QED BY <2>1, <2>2, Zenon DEF IsWay, n
<1>7. ASSUME n # 0
      PROVE  ExtractShape(h, e, p[1], w[p[1]])
  <2> DEFINE a == p[1]
             way == w[a]
  <2>0. 1 \in 1 .. n /\ 1 \in 1 .. Len(h)
    BY <1>2, <1>7
  <2>1. /\ p[1] \in 1 .. Len(h) /\ ~Sinks(h, e, p[1])
        /\ 1 \in w[p[1]] \union {1}
        /\ \A c \in w[p[1]] :
             c > 1 => Sinks(h, e, parent(c)) /\ TopChild(h, parent(c)) = c
    BY <1>2, <1>4, <1>6, <2>0, DownFacts
  <2> HIDE DEF a
  <2>2. a \in 1 .. n /\ ~Sinks(h, e, a)
        /\ \A c \in way : c > 1 => Sinks(h, e, parent(c)) /\ TopChild(h, parent(c)) = c
    BY <2>1 DEF a
  <2>3. /\ way \subseteq 1 + 1 .. a
        /\ a > 1 => a \in way
        /\ \A c \in way : c # a => \E d \in way : parent(d) = c
        /\ \A c \in way : parent(c) \in way \/ parent(c) <= 1
    BY <1>2, <1>6, <2>0, <2>2, WayFacts
  <2> HIDE DEF way
  <2>4. /\ way \subseteq 2 .. n
        /\ a \in way \union {1}
        /\ \A c \in way : c > 1 /\ parent(c) \in way \union {1} /\ parent(c) < c
    <3>1. \A c \in way : c \in Nat /\ c > 1 /\ c <= n
      BY <1>2, <2>2, <2>3
    <3>2. \A c \in way : parent(c) \in Nat /\ 1 <= parent(c) /\ parent(c) < c
      BY <3>1, Parents
    <3> HIDE DEF n
    <3> QED BY <1>2, <2>2, <2>3, <3>1, <3>2
  <2>5. 1 # a => \E c \in way : parent(c) = 1
    <3> SUFFICES ASSUME 1 # a, \A c \in way : parent(c) # 1 PROVE FALSE
      OBVIOUS
    <3> DEFINE R == {k \in 1 .. n : k \notin way}
    <3>1. 1 .. n \subseteq R
      <4>1. ASSUME NEW k \in 1 .. n, \A j \in 1 .. n : j < k => j \in R PROVE k \in R
        <5> SUFFICES ASSUME k \in way PROVE FALSE
          OBVIOUS
        <5>1. parent(k) \in way /\ parent(k) < k
          BY <2>4
        <5>2. parent(k) \in 2 .. n
          BY <2>4, <5>1
        <5>3. parent(k) \in 1 .. n
          BY <1>2, <5>2
        <5> QED BY <4>1, <5>1, <5>3
      <4> HIDE DEF R, n
      <4> QED BY <1>2, <4>1, PlaceInduction
    <3> QED BY <2>2, <2>4, <3>1
  <2>6. \A k \in way \union {1} : k # a => \E c \in way : parent(c) = k
    BY <2>3, <2>5
  <2>7. ExtractShape(h, e, a, way)
    BY <2>2, <2>4, <2>6 DEF ExtractShape
  <2> QED BY <2>7 DEF a, way
<1>8. (Len(h) # 0 => ExtractShape(h, e, p[1], w[p[1]])) /\ m_heap' = Extracted(h, e, p[1], w[p[1]])
  BY <1>1, <1>7
<1> QED BY <1>8 DEF h, e

(* The entries on the way are replaced by those of the children above.     *)
LEMMA ExtractValues ==
  ASSUME NEW h, NEW e, NEW a, NEW way, ExtractShape(h, e, a, way)
  PROVE  \A k \in 1 .. Len(h) : Extracted(h, e, a, way)[k] =
           IF k = a THEN e ELSE IF k \in way \union {1} THEN h[TopChild(h, k)] ELSE h[k]
<1> SUFFICES ASSUME NEW k \in 1 .. Len(h)
             PROVE  Extracted(h, e, a, way)[k] =
                      IF k = a THEN e
                      ELSE IF k \in way \union {1} THEN h[TopChild(h, k)] ELSE h[k]
  OBVIOUS
<1>1. Extracted(h, e, a, way)[k] =
        IF k = a THEN e
        ELSE IF \E c \in way : parent(c) = k THEN h[CHOOSE c \in way : parent(c) = k] ELSE h[k]
  BY DEF Extracted
<1>2. /\ \A c \in way : parent(c) \in way \union {1} /\ TopChild(h, parent(c)) = c
      /\ \A j \in way \union {1} : j # a => \E c \in way : parent(c) = j
  BY DEF ExtractShape
<1>3. ASSUME \E c \in way : parent(c) = k
      PROVE  k \in way \union {1} /\ (CHOOSE c \in way : parent(c) = k) = TopChild(h, k)
  <2>1. PICK d : d = (CHOOSE c \in way : parent(c) = k) /\ d \in way /\ parent(d) = k
    BY <1>3
  <2> QED BY <1>2, <2>1
<1>4. CASE k = a
  BY <1>1, <1>4
<1>5. CASE k # a /\ k \in way \union {1}
  BY <1>1, <1>2, <1>3, <1>5
<1>6. CASE k # a /\ k \notin way \union {1}
  BY <1>1, <1>3, <1>6
<1> QED BY <1>4, <1>5, <1>6

(* The heap stays ordered.                                                 *)
LEMMA ExtractOrders ==
  ASSUME NEW h \in Seq(Int), NEW e \in Int, NEW a, NEW way,
         Len(h) # 0 => ExtractShape(h, e, a, way), HeapOrdered(h)
  PROVE  HeapOrdered(Extracted(h, e, a, way))
<1> DEFINE n == Len(h)
           g == Extracted(h, e, a, way)
<1>0. /\ n \in Nat /\ Len(g) = n
      /\ \A k \in 1 .. n : h[k] \in Int
  BY DEF Extracted
<1> SUFFICES ASSUME NEW k \in 2 .. n PROVE g[parent(k)] <= g[k]
  BY <1>0 DEF HeapOrdered
<1>1. /\ a \in 1 .. n /\ a \in way \union {1}
      /\ way \subseteq 2 .. n
      /\ ~Sinks(h, e, a)
      /\ \A c \in way : /\ parent(c) \in way \union {1}
                       /\ Sinks(h, e, parent(c)) /\ TopChild(h, parent(c)) = c
  BY <1>0 DEF ExtractShape
<1>2. \A j \in 1 .. n :
        g[j] = IF j = a THEN e ELSE IF j \in way \union {1} THEN h[TopChild(h, j)] ELSE h[j]
  BY <1>0, ExtractValues
<1> HIDE DEF g
<1> DEFINE q == parent(k)
<1>3. q \in 1 .. n /\ k \in 1 .. n /\ h[q] \in Int /\ h[k] \in Int /\ h[q] <= h[k]
      /\ left(q) <= n
  <2>1. q \in 1 .. n /\ k \in 1 .. n
    BY <1>0, Parents
  <2>2. k = left(q) \/ k = right(q)
    BY Parents
  <2>3. left(q) <= n
    BY <1>0, <2>1, <2>2 DEF left, right
  <2> QED BY <1>0, <2>1, <2>3 DEF HeapOrdered
<1> DEFINE t == TopChild(h, q)
<1>4. t \in 1 .. n /\ parent(t) = q /\ h[t] <= h[k] /\ h[t] \in Int /\ t > q
  <2>1. /\ t \in 1 .. n /\ t > q /\ parent(t) = q
        /\ \A c \in 1 .. Len(h) : parent(c) = q => h[t] <= h[c]
    BY <1>3, TopChildIsTop
  <2> QED BY <1>0, <1>3, <2>1
<1> SUFFICES g[q] <= g[k]
  OBVIOUS
<1>T. k \in way => k = t /\ Sinks(h, e, q)
  BY <1>1
<1>5. CASE q = a
  <2>1. g[q] = e
    BY <1>2, <1>3, <1>5
  <2>2. ~(h[t] < e)
    BY <1>1, <1>3, <1>5 DEF Sinks, Above
  <2>3. k # a /\ k \notin way \union {1}
    <3>1. k # 1 /\ q < k
      BY <1>0, <1>3, Parents
    <3> QED BY <1>1, <1>3, <1>5, <1>T, <3>1
  <2>4. g[k] = h[k]
    BY <1>2, <1>3, <2>3
  <2> QED BY <1>3, <1>4, <2>1, <2>2, <2>4
<1>6. CASE q # a /\ q \in way \union {1}
  <2>1. g[q] = h[t]
    BY <1>2, <1>3, <1>6
  <2>2. CASE k = a
    <3>1. g[k] = e /\ k \in way
      BY <1>0, <1>1, <1>2, <1>3, <2>2
    <3>2. h[t] < e
      BY <1>T, <3>1 DEF Sinks, Above
    <3> QED BY <1>4, <2>1, <3>1, <3>2
  <2>3. CASE k # a /\ k \in way
    <3>1. g[k] = h[TopChild(h, k)] /\ k = t
      BY <1>2, <1>3, <1>T, <2>3
    <3>2. PICK c \in way : parent(c) = k
      <4>1. \A j \in way \union {1} : j # a => \E c \in way : parent(c) = j
        BY <1>0, <1>3 DEF ExtractShape
      <4> QED BY <2>3, <4>1
    <3>3. left(k) <= Len(h)
      BY <1>1, <3>2 DEF Sinks
    <3>4. TopChild(h, k) \in 1 .. n /\ parent(TopChild(h, k)) = k /\ TopChild(h, k) > k
      BY <1>3, <3>3, TopChildIsTop
    <3>5. TopChild(h, k) \in 2 .. n
      BY <1>0, <1>3, <3>4
    <3>6. h[k] <= h[TopChild(h, k)] /\ h[TopChild(h, k)] \in Int
      BY <1>0, <3>4, <3>5 DEF HeapOrdered
    <3> HIDE DEF t, q
    <3> QED BY <1>3, <1>4, <2>1, <3>1, <3>6
  <2>4. CASE k # a /\ k \notin way
    <3>1. k # 1
      BY <1>0
    <3>2. g[k] = h[k]
      BY <1>2, <1>3, <2>4, <3>1
    <3> HIDE DEF t, q
    <3> QED BY <1>3, <1>4, <2>1, <3>2
  <2> QED BY <2>2, <2>3, <2>4
<1>7. CASE q # a /\ q \notin way \union {1}
  <2>1. k \notin way \union {1} /\ k # a
    <3>1. k # 1
      BY <1>0
    <3> QED BY <1>1, <1>7, <3>1
  <2>2. g[q] = h[q] /\ g[k] = h[k]
    BY <1>2, <1>3, <1>7, <2>1
  <2> HIDE DEF q
  <2> QED BY <1>3, <2>2
<1> QED BY <1>5, <1>6, <1>7

(* extract_top removes the first entry, and moves the others.              *)
LEMMA ExtractRemoves ==
  ASSUME NEW m \in Seq(Int), Len(m) > 0, NEW a, NEW way,
         Len(Front(m)) # 0 => ExtractShape(Front(m), m[Len(m)], a, way)
  PROVE  Bag(Extracted(Front(m), m[Len(m)], a, way)) = queue!BagRemove(Bag(m), m[1])
<1> DEFINE h == Front(m)
           e == m[Len(m)]
           n == Len(h)
           g == Extracted(h, e, a, way)
           f == [k \in 2 .. n + 1 |-> m[k]]
           s == [k \in 1 .. n |-> IF k = a THEN n + 1
                                  ELSE IF k \in way \union {1} THEN TopChild(h, k) ELSE k]
<1>0. /\ n \in Nat /\ Len(m) = n + 1 /\ DOMAIN m = 1 .. n + 1 /\ h \in Seq(Int)
      /\ \A k \in 1 .. n : h[k] = m[k]
  BY FrontIs
<1>1. /\ DOMAIN g = 1 .. n /\ DOMAIN f = 2 .. n + 1
      /\ \A k \in 2 .. n + 1 : f[k] = m[k]
      /\ \A k \in 1 .. n : s[k] = IF k = a THEN n + 1
                               ELSE IF k \in way \union {1} THEN TopChild(h, k) ELSE k
      /\ DOMAIN s = 1 .. n /\ s = [k \in 1 .. n |-> s[k]]
  BY DEF Extracted
<1>2. n # 0 =>
        /\ a \in 1 .. n /\ a \in way \union {1}
        /\ way \subseteq 2 .. n
        /\ ~Sinks(h, e, a)
        /\ \A c \in way : /\ parent(c) \in way \union {1}
                         /\ Sinks(h, e, parent(c)) /\ TopChild(h, parent(c)) = c
        /\ \A k \in way \union {1} : k # a => \E c \in way : parent(c) = k
  BY DEF ExtractShape
<1>3. \A k \in 1 .. n :
        g[k] = IF k = a THEN e ELSE IF k \in way \union {1} THEN h[TopChild(h, k)] ELSE h[k]
  BY <1>0, ExtractValues
<1>4. \A k \in 1 .. n : n # 0 /\ k >= 1
  BY <1>0
<1> HIDE DEF g, f, s, h, e, n
<1>5. ASSUME NEW k \in 1 .. n, k # a, k \in way \union {1}
      PROVE  TopChild(h, k) \in way /\ parent(TopChild(h, k)) = k
  BY <1>2, <1>4, <1>5
<1>6. \A c \in way : n # 0 => c \in 2 .. n /\ c \in 1 .. n /\ c # 1 /\ c # n + 1
  <2>1. \A c \in 2 .. n : c \in 1 .. n /\ c # 1 /\ c # n + 1
    BY <1>0
  <2> QED BY <1>2, <2>1
<1>7. \A k \in 1 .. n : s[k] \in 2 .. n + 1
  <2> SUFFICES ASSUME NEW k \in 1 .. n PROVE s[k] \in 2 .. n + 1
    OBVIOUS
  <2>1. CASE k = a
    BY <1>0, <1>1, <2>1
  <2>2. CASE k # a /\ k \in way \union {1}
    <3>1. s[k] \in 2 .. n
      BY <1>1, <1>4, <1>5, <1>6, <2>2
    <3> QED BY <1>0, <3>1
  <2>3. CASE k # a /\ k \notin way \union {1}
    <3>1. s[k] = k /\ k # 1
      BY <1>1, <2>3
    <3> QED BY <1>0, <3>1
  <2> QED BY <2>1, <2>2, <2>3
<1>8. ASSUME NEW j \in 2 .. n + 1 PROVE \E k \in 1 .. n : s[k] = j
  <2>0. n # 0
    BY <1>0
  <2>1. CASE j = n + 1
    BY <1>1, <1>2, <2>0, <2>1
  <2>2. CASE j \in way
    <3>1. parent(j) \in way \union {1} /\ TopChild(h, parent(j)) = j /\ parent(j) # a
      BY <1>2, <2>0, <2>2
    <3>2. parent(j) \in 1 .. n
      <4>1. 1 \in 1 .. n
        BY <1>0, <2>0
      <4> QED BY <1>6, <2>0, <3>1, <4>1
    <3> QED BY <1>1, <3>1, <3>2
  <2>3. CASE j # n + 1 /\ j \notin way
    <3>1. j \in 1 .. n /\ j \notin way \union {1}
      BY <1>0, <2>3
    <3>2. j # a
      BY <1>2, <2>0, <3>1
    <3> QED BY <1>1, <3>1, <3>2
  <2> QED BY <2>1, <2>2, <2>3
<1>9. ASSUME NEW j \in 1 .. n, NEW k \in 1 .. n, s[j] = s[k]
      PROVE  j = k
  <2>0. n # 0 /\ n + 1 \notin 1 .. n
    BY <1>0
  <2>1. CASE j = a \/ k = a
    <3>1. ASSUME NEW i \in 1 .. n, i # a PROVE s[i] # n + 1
      <4>1. CASE i \in way \union {1}
        BY <1>1, <1>5, <1>6, <2>0, <3>1, <4>1
      <4>2. CASE i \notin way \union {1}
        BY <1>1, <2>0, <3>1, <4>2
      <4> QED BY <4>1, <4>2
    <3> QED BY <1>1, <1>9, <2>1, <3>1
  <2>2. CASE j # a /\ k # a
    <3>1. ASSUME NEW i \in 1 .. n, i # a
          PROVE  IF i \in way \union {1} THEN s[i] \in way /\ parent(s[i]) = i
                                        ELSE s[i] = i /\ s[i] \notin way
      BY <1>1, <1>5, <3>1
    <3> QED BY <1>9, <2>2, <3>1
  <2> QED BY <2>1, <2>2
<1>10. s \in Bijection(DOMAIN g, DOMAIN f)
  BY <1>1, <1>7, <1>8, <1>9 DEF Bijection, Injection, Surjection, IsInjective
<1>11. \A k \in DOMAIN g : g[k] = f[s[k]]
  <2> SUFFICES ASSUME NEW k \in 1 .. n PROVE g[k] = f[s[k]]
    BY <1>1
  <2>0. f[s[k]] = m[s[k]]
    BY <1>1, <1>7
  <2>1. CASE k = a
    <3>1. g[k] = m[Len(m)] /\ s[k] = n + 1
      BY <1>1, <1>3, <2>1 DEF e
    <3> QED BY <1>0, <2>0, <3>1
  <2>2. CASE k # a /\ k \in way \union {1}
    <3>1. g[k] = h[TopChild(h, k)] /\ s[k] = TopChild(h, k) /\ TopChild(h, k) \in 1 .. n
      BY <1>1, <1>3, <1>4, <1>5, <1>6, <2>2
    <3> QED BY <1>0, <2>0, <3>1
  <2>3. CASE k # a /\ k \notin way \union {1}
    BY <1>0, <1>1, <1>3, <2>0, <2>3
  <2> QED BY <2>1, <2>2, <2>3
<1>F. IsFiniteSet(1 .. n) /\ IsFiniteSet(1 .. n + 1)
  <2>1. 1 \in Int /\ n \in Int /\ n + 1 \in Int
    BY <1>0
  <2> QED BY <2>1, FS_Interval
<1>12. Bag(g) = Bag(f)
  <2>1. IsFiniteSet(DOMAIN g)
    BY <1>1, <1>F
  <2> QED BY <1>10, <1>11, <2>1, Moved
<1>13. /\ \A t : t # m[1] => Places(m, t) = Places(f, t)
       /\ Cardinality(Places(m, m[1])) = Cardinality(Places(f, m[1])) + 1
       /\ \A t : Cardinality(Places(f, t)) \in Nat
                /\ (t \in Range(f) <=> Cardinality(Places(f, t)) # 0)
       /\ Range(m) = Range(f) \union {m[1]}
  <2>1. 1 \notin DOMAIN f /\ DOMAIN m = DOMAIN f \union {1}
        /\ \A k \in DOMAIN f : f[k] = m[k]
    BY <1>0, <1>1
  <2>2. IsFiniteSet(DOMAIN m)
    BY <1>0, <1>F
  <2> QED BY <2>1, <2>2, OneMore
<1>14. Bag(f) = queue!BagRemove(Bag(m), m[1])
  <2>1. /\ DOMAIN Bag(m) = Range(m) /\ m[1] \in Range(m)
        /\ \A t \in Range(m) : Bag(m)[t] = Cardinality(Places(m, t))
    BY <1>13 DEF Bag
  <2>2. CASE m[1] \in Range(f)
    <3>1. Range(f) = Range(m) /\ Bag(m)[m[1]] # 1
      BY <1>13, <2>1, <2>2
    <3>2. queue!BagRemove(Bag(m), m[1])
            = [t \in Range(m) |-> IF t = m[1] THEN Bag(m)[t] - 1 ELSE Bag(m)[t]]
      BY <2>1, <3>1 DEF queue!BagRemove
    <3>3. \A t \in Range(m) :
            (IF t = m[1] THEN Bag(m)[t] - 1 ELSE Bag(m)[t]) = Cardinality(Places(f, t))
      BY <1>13, <2>1
    <3> QED BY <3>1, <3>2, <3>3, Zenon DEF Bag
  <2>3. CASE m[1] \notin Range(f)
    <3>1. Range(f) = Range(m) \ {m[1]} /\ Bag(m)[m[1]] = 1
      BY <1>13, <2>1, <2>3
    <3>2. queue!BagRemove(Bag(m), m[1]) = [t \in Range(m) \ {m[1]} |-> Bag(m)[t]]
      BY <2>1, <3>1 DEF queue!BagRemove
    <3>3. \A t \in Range(f) : Bag(m)[t] = Cardinality(Places(f, t))
      BY <1>13, <2>1, <3>1
    <3> QED BY <3>1, <3>2, <3>3 DEF Bag
  <2> QED BY <2>2, <2>3
<1> QED BY <1>12, <1>14 DEF g, h, e

----------------------------------------------------------------------------
HeapInv ==
  /\ m_heap \in Seq(Times)
  /\ HeapOrdered(m_heap)

LEMMA SequenceTo ==
  ASSUME NEW n \in Nat, NEW f, f = [k \in 1 .. n |-> f[k]], Range(f) \subseteq Times
  PROVE  f \in Seq(Times)
<1>1. f \in Seq(Range(f)) /\ Len(f) = n
  BY FunctionIsSequence
<1> QED BY <1>1

LEMMA HeapTypes ==
  ASSUME HeapInv
  PROVE  /\ m_heap \in Seq(Int) /\ Len(m_heap) \in Nat
         /\ \A k \in 1 .. Len(m_heap) : m_heap[k] \in Times
         /\ Range(m_heap) \subseteq Times
<1>1. m_heap \in Seq(Times) /\ Times \subseteq Int
  BY QueueAssumption DEF HeapInv
<1>2. Len(m_heap) \in Nat /\ \A k \in 1 .. Len(m_heap) : m_heap[k] \in Times
  BY <1>1
<1>3. m_heap \in Seq(Int)
  <2>1. m_heap = [k \in 1 .. Len(m_heap) |-> m_heap[k]]
    BY <1>1
  <2>2. \A k \in 1 .. Len(m_heap) : m_heap[k] \in Int
    BY <1>1, <1>2
  <2>3. m_heap \in [1 .. Len(m_heap) -> Int]
    BY <2>1, <2>2, Zenon
  <2> QED BY <1>2, <2>3
<1>4. Range(m_heap) \subseteq Times
  <2>1. DOMAIN m_heap = 1 .. Len(m_heap)
    BY <1>1
  <2> QED BY <1>2, <2>1 DEF Range
<1> QED BY <1>2, <1>3, <1>4

LEMMA ContentsIsBag == Contents = Bag(m_heap)
BY DEF Contents, Bag, Places

LEMMA InsertStep ==
  ASSUME HeapInv, NEW t \in Times, insert(t)
  PROVE  HeapInv' /\ queue!Insert(t)
<1>1. m_heap \in Seq(Int) /\ Len(m_heap) \in Nat /\ Range(m_heap) \subseteq Times /\ t \in Int
  BY HeapTypes, QueueAssumption
<1>2. PICK a, way : InsertShape(m_heap, t, a, way) /\ m_heap' = Inserted(m_heap, t, a, way)
  BY <1>1, InsertDoes
<1>3. HeapOrdered(m_heap')
  <2>1. HeapOrdered(Inserted(m_heap, t, a, way))
    BY <1>1, <1>2, InsertOrders DEF HeapInv
  <2> QED BY <1>2, <2>1
<1>4. Bag(m_heap') = queue!BagAdd(Bag(m_heap), t)
  BY <1>1, <1>2, InsertAdds
<1>5. m_heap' \in Seq(Times)
  <2>1. DOMAIN Bag(m_heap') = Range(m_heap') /\ DOMAIN Bag(m_heap) = Range(m_heap)
    BY DEF Bag
  <2>2. DOMAIN queue!BagAdd(Bag(m_heap), t) \subseteq Range(m_heap) \union {t}
    BY <2>1 DEF queue!BagAdd
  <2>3. Range(m_heap') \subseteq Times
    BY <1>1, <1>4, <2>1, <2>2
  <2>4. m_heap' = [k \in 1 .. Len(m_heap) + 1 |-> m_heap'[k]]
    BY <1>2, Zenon DEF Inserted
  <2>5. Len(m_heap) + 1 \in Nat
    BY <1>1
  <2> QED BY <2>3, <2>4, <2>5, SequenceTo
<1>6. Contents' = queue!BagAdd(Contents, t)
  <2>1. Contents' = Bag(m_heap')
    BY DEF Contents, Bag, Places
  <2> QED BY <1>4, <2>1, ContentsIsBag
<1>7. top' = top
  BY DEF insert
<1> QED BY <1>3, <1>5, <1>6, <1>7 DEF HeapInv, queue!Insert

LEMMA ExtractStep ==
  ASSUME HeapInv, extract_top
  PROVE  HeapInv' /\ \E t \in Times : queue!Extract(t)
<1> DEFINE h == Front(m_heap)
           e == m_heap[Len(m_heap)]
           t == m_heap[1]
<1>1. /\ m_heap \in Seq(Int) /\ Len(m_heap) \in Nat /\ Len(m_heap) > 0
      /\ Range(m_heap) \subseteq Times
      /\ top' = t
  BY HeapTypes DEF extract_top, m_heap_size
<1>2. PICK a, way : (Len(h) # 0 => ExtractShape(h, e, a, way)) /\ m_heap' = Extracted(h, e, a, way)
  BY <1>1, ExtractDoes
<1>3. h \in Seq(Int) /\ Len(h) = Len(m_heap) - 1 /\ \A k \in 1 .. Len(h) : h[k] = m_heap[k]
  BY <1>1, FrontIs
<1>4. e \in Int /\ t \in Times
  BY <1>1, HeapTypes, QueueAssumption
<1>5. HeapOrdered(h)
  <2> HIDE DEF h
  <2>1. ASSUME NEW k \in 2 .. Len(h)
        PROVE  k \in 2 .. Len(m_heap) /\ k \in 1 .. Len(h) /\ parent(k) \in 1 .. Len(h)
    <3>1. Len(h) \in Nat /\ k \in Nat /\ k > 1
      BY <1>1, <1>3
    <3>2. parent(k) \in Nat /\ 1 <= parent(k) /\ parent(k) < k
      BY <3>1, Parents
    <3> QED BY <1>1, <1>3, <3>1, <3>2
  <2> QED BY <1>3, <2>1 DEF HeapInv, HeapOrdered
<1>6. HeapOrdered(m_heap')
  <2> HIDE DEF h, e
  <2>1. HeapOrdered(Extracted(h, e, a, way))
    BY <1>2, <1>3, <1>4, <1>5, ExtractOrders
  <2> QED BY <1>2, <2>1
<1>7. Bag(m_heap') = queue!BagRemove(Bag(m_heap), t)
  BY <1>1, <1>2, ExtractRemoves
<1>8. m_heap' \in Seq(Times)
  <2>1. DOMAIN Bag(m_heap') = Range(m_heap') /\ DOMAIN Bag(m_heap) = Range(m_heap)
    BY DEF Bag
  <2>2. DOMAIN queue!BagRemove(Bag(m_heap), t) \subseteq Range(m_heap)
    BY <2>1 DEF queue!BagRemove
  <2>3. Range(m_heap') \subseteq Times
    BY <1>1, <1>7, <2>1, <2>2
  <2>4. m_heap' = [k \in 1 .. Len(h) |-> m_heap'[k]]
    BY <1>2, Zenon DEF Extracted
  <2>5. Len(h) \in Nat
    BY <1>1, <1>3
  <2> QED BY <2>3, <2>4, <2>5, SequenceTo
<1>9. Contents' = queue!BagRemove(Contents, t)
  <2>1. Contents' = Bag(m_heap')
    BY DEF Contents, Bag, Places
  <2> QED BY <1>7, <2>1, ContentsIsBag
<1>10. queue!BagToSet(Contents) = Range(m_heap) /\ t \in Range(m_heap)
  BY <1>1 DEF queue!BagToSet, Contents, Range
<1>11. \A u \in Range(m_heap) : t <= u
  <2>1. \A k \in 1 .. Len(m_heap) : t <= m_heap[k]
    BY <1>1, RootIsEarliest DEF HeapInv
  <2>2. DOMAIN m_heap = 1 .. Len(m_heap)
    BY <1>1
  <2> QED BY <2>1, <2>2 DEF Range
<1>12. queue!Extract(t)
  BY <1>1, <1>9, <1>10, <1>11 DEF queue!Extract, queue!BagIn
<1> QED BY <1>4, <1>6, <1>8, <1>12 DEF HeapInv

(***************************************************************************)
(* insert and extract_top (sc_pq.cpp:71, :60) implement a priority queue,  *)
(* for any number of entries: moving entries along a way of the tree loses *)
(* and doubles none, and what is taken is the earliest of all that have    *)
(* been put in and not been taken yet.                                     *)
(***************************************************************************)
THEOREM QueueImplemented == Spec => ImplementsPriorityQueue
<1>1. Init => HeapInv /\ queue!Init
  <2> SUFFICES ASSUME Init PROVE HeapInv /\ queue!Init
    OBVIOUS
  <2>1. m_heap = << >> /\ top = -1 /\ Len(m_heap) = 0
    BY DEF Init
  <2>2. HeapInv
    BY <2>1 DEF HeapInv, HeapOrdered
  <2>3. Range(m_heap) = {}
    BY <2>1 DEF Range
  <2>4. Contents = queue!EmptyBag
    BY <2>3 DEF Contents, queue!EmptyBag, queue!SetToBag
  <2> QED BY <2>1, <2>2, <2>4 DEF queue!Init
<1>2. HeapInv /\ [Next]_vars => HeapInv' /\ [queue!Next]_<<Contents, top>>
  <2> SUFFICES ASSUME HeapInv, [Next]_vars
               PROVE  HeapInv' /\ [queue!Next]_<<Contents, top>>
    OBVIOUS
  <2>1. CASE extract_top
    BY <2>1, ExtractStep DEF queue!Next
  <2>2. ASSUME NEW t \in Times, insert(t)
        PROVE  HeapInv' /\ [queue!Next]_<<Contents, top>>
    BY <2>2, InsertStep DEF queue!Next
  <2>3. CASE UNCHANGED vars
    BY <2>3 DEF vars, HeapInv, Contents
  <2> QED BY <2>1, <2>2, <2>3 DEF Next
<1> QED BY <1>1, <1>2, PTL DEF Spec, ImplementsPriorityQueue, queue!Spec
=============================================================================
