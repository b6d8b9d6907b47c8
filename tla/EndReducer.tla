----------------------------- MODULE EndReducer -----------------------------
(***************************************************************************)
(* END_REDUCER: a combinational AND.  reduce is sensitive to its inputs,   *)
(* not to the clock: it runs in the delta cycles that follow an edge, so   *)
(* its output has settled on the new inputs before the next edge.          *)
(***************************************************************************)
EXTENDS Config

VARIABLES gen_end_i, contr_empty_i, cycle_ended_o

OnlyGeneratorEnded == gen_end_i     \* variant with a bug: the units are not asked

AllEnded == gen_end_i /\ \A p \in PC : contr_empty_i[p]

(* The initialization phase runs reduce once more after the units have     *)
(* reported that they are empty.                                           *)
Init == cycle_ended_o = AllEnded

reduce == cycle_ended_o' = AllEnded'

TypeOK == cycle_ended_o \in BOOLEAN
=============================================================================
