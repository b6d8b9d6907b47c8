------------------------------- MODULE TaskPool -------------------------------
(***************************************************************************)
(* What the dispatch of a layer promises: from its start to its end every  *)
(* number of the layer is computed, and its result shown, exactly once, in *)
(* any order; and the end is not reported before the last is shown.        *)
(***************************************************************************)
EXTENDS Integers

CONSTANT Sizes

VARIABLES todo,       \* the numbers whose result has not been shown
          results,    \* those whose result is shown now
          ended

vars == <<todo, results, ended>>

(* The generator compares after the first number: there is always one.     *)
Numbers(n) == 0 .. (IF n > 1 THEN n ELSE 1) - 1

Init == todo = {} /\ results = {} /\ ended = TRUE

Start(n) ==
  /\ ended
  /\ todo' = Numbers(n)
  /\ results' = {}
  /\ ended' = FALSE

(* Results are shown, or those shown last are withdrawn.                   *)
Work ==
  /\ ~ended
  /\ results' \in SUBSET todo
  /\ todo' = todo \ results'
  /\ UNCHANGED ended

End ==
  /\ ~ended
  /\ todo = {}
  /\ results' = {}
  /\ ended' = TRUE
  /\ UNCHANGED todo

Next == (\E n \in Sizes : Start(n)) \/ Work \/ End

Safety == Init /\ [][Next]_vars

Spec == Safety /\ []<>ended
=============================================================================
