---------------------------- MODULE PriorityQueue ----------------------------
(***************************************************************************)
(* What the queue of timed notifications promises: it holds a bag of       *)
(* times, and what is taken from it is the earliest of them.               *)
(***************************************************************************)
EXTENDS Integers, BagsExt, Bags

CONSTANT Times

VARIABLES entries,
          taken           \* the time of the entry last taken, -1 before

Init == entries = EmptyBag /\ taken = -1

Insert(t) ==
  /\ entries' = BagAdd(entries, t)
  /\ UNCHANGED taken

Extract(t) ==
  /\ BagIn(t, entries)
  /\ \A u \in BagToSet(entries) : t <= u
  /\ entries' = BagRemove(entries, t)
  /\ taken' = t

Next == \E t \in Times : Insert(t) \/ Extract(t)

Spec == Init /\ [][Next]_<<entries, taken>>
=============================================================================
