---------------------------- MODULE LayersStorage ----------------------------
(***************************************************************************)
(* LAYERS_STORAGE: the list of layer sizes and the cursor of the current   *)
(* layer.  Its three methods run on the same clock edge in an order the    *)
(* SystemC standard leaves open and share memory and index, so             *)
(* issue_element may see either of them before or after its sibling's      *)
(* update.                                                                 *)
(***************************************************************************)
EXTENDS FloatTerms

VARIABLES addr_i, data_i, wr_i,    \* the IO bus
          next,                    \* from the controller
          data_o,                  \* size of the current layer
          memory, index

Init ==
  /\ memory = << >>
  /\ index = 0
  /\ data_o = 0

next_element == index' = IF next THEN index + 1 ELSE index

add_to_queue ==
  memory' = IF addr_i = 1 /\ wr_i THEN Append(memory, ToInt(data_i)) ELSE memory

(* What the list m shows with the cursor at k.                             *)
Element(m, k) == IF Len(m) > k THEN m[k + 1] ELSE 0

issue_element ==
  \E m \in {memory, memory'}, k \in {index, index'} : data_o' = Element(m, k)

Edge == next_element /\ add_to_queue /\ issue_element

TypeOK ==
  /\ memory \in Seq(Int)
  /\ index \in Nat
  /\ data_o \in Int
=============================================================================
