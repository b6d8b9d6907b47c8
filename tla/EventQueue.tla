------------------------------ MODULE EventQueue ------------------------------
(***************************************************************************)
(* sc_ppq: the queue of timed notifications, a binary heap in an array     *)
(* that grows by half when it is full.  m_heap is the used part of the     *)
(* array, m_heap[1 .. m_heap_size].  An entry is represented by its time,  *)
(* on which alone sc_notify_time_compare decides: the earlier the higher.  *)
(***************************************************************************)
EXTENDS Integers, SequencesExt

CONSTANTS Times, SIZE,        \* SIZE bounds the number of entries
          sz                  \* the size the constructor is given

ASSUME QueueAssumption == Times \subseteq Nat /\ SIZE \in Nat /\ sz \in Nat

VARIABLES m_heap, m_size_alloc,
          top                 \* what extract_top last returned, -1 before

vars == <<m_heap, m_size_alloc, top>>

m_heap_size == Len(m_heap)

parent(k) == k \div 2
left(k)   == 2 * k
right(k)  == 2 * k + 1

Above(t, u) == t < u          \* m_compar(t, u) > 0

Init ==
  /\ m_heap = << >>
  /\ m_size_alloc = IF sz < 2 THEN 2 ELSE sz
  /\ top = -1

(***************************************************************************)
(* insert: later entries on the way from the new leaf to the root move     *)
(* down, until the place for elem is found.                                *)
(***************************************************************************)
GrownOnce == IF m_heap_size = sz THEN 2 * sz ELSE m_size_alloc   \* variant with a bug

Grown == IF m_heap_size + 1 > m_size_alloc THEN m_size_alloc + m_size_alloc \div 2
                                           ELSE m_size_alloc

insert(elem) ==
  LET leaf == m_heap_size + 1
      place[k \in 1 .. leaf] ==
        IF k > 1 /\ Above(elem, m_heap[parent(k)]) THEN place[parent(k)] ELSE k
      way[k \in 1 .. leaf] ==       \* from leaf up to place[leaf], excluded
        IF k <= place[leaf] THEN {} ELSE {k} \union way[parent(k)]
  IN  /\ leaf <= SIZE
      /\ m_heap' = [k \in 1 .. leaf |->
           IF k = place[leaf] THEN elem
           ELSE IF k \in way[leaf] THEN m_heap[parent(k)] ELSE m_heap[k]]
      /\ m_size_alloc' = Grown
      /\ UNCHANGED top

(* The child of k that is above the other.                                 *)
FirstChild(h, k) ==         \* variant with a bug: the right child is not looked at
  left(k)

TopChild(h, k) ==
  IF right(k) <= Len(h) /\ Above(h[right(k)], h[left(k)]) THEN right(k) ELSE left(k)

(***************************************************************************)
(* extract_top: the last entry replaces the first, and heapify exchanges   *)
(* it with the upper child as long as that is above it.                    *)
(***************************************************************************)
extract_top ==
  /\ m_heap_size > 0
  /\ LET last == m_heap[m_heap_size]
         h == Front(m_heap)
         place[k \in 1 .. Len(h)] ==
           IF left(k) <= Len(h) /\ Above(h[TopChild(h, k)], last)
             THEN place[TopChild(h, k)] ELSE k
         way[k \in 1 .. Len(h)] ==     \* from place[1] up to the root, excluded
           IF k = 1 THEN {} ELSE {k} \union way[parent(k)]
     IN  m_heap' = [k \in 1 .. Len(h) |->
           IF k = place[1] THEN last
           ELSE IF \E c \in way[place[1]] : parent(c) = k
                  THEN h[CHOOSE c \in way[place[1]] : parent(c) = k]
                  ELSE h[k]]
  /\ top' = m_heap[1]
  /\ UNCHANGED m_size_alloc

Next == extract_top \/ \E t \in Times : insert(t)

Spec == Init /\ [][Next]_vars

----------------------------------------------------------------------------
Contents == [t \in Range(m_heap) |-> Cardinality({k \in DOMAIN m_heap : m_heap[k] = t})]

(***************************************************************************)
(* The heap takes and gives what a priority queue does: no entry is lost   *)
(* or doubled when entries are moved, and the earliest is always on top.   *)
(***************************************************************************)
queue == INSTANCE PriorityQueue WITH
  entries <- Contents, taken <- top

ImplementsPriorityQueue == queue!Spec

(***************************************************************************)
(* Entries are written inside the array: m_size_alloc + 1 words, of which  *)
(* the first is not used.                                                  *)
(***************************************************************************)
InAllocation == m_heap_size <= m_size_alloc
=============================================================================
