-------------------------- MODULE PreviousLayerSize --------------------------
(***************************************************************************)
(* PREVIOUS_LAYER_SIZE: latches the size of the layer the processing units *)
(* read their inputs from.                                                 *)
(***************************************************************************)
EXTENDS Integers

VARIABLES save_i, data_i, data_o, layer_size

Init == layer_size = 0 /\ data_o = 0

save_new_element == layer_size' = IF save_i THEN data_i ELSE layer_size

pass_new_element == data_o' \in {layer_size, layer_size'}

Edge == save_new_element /\ pass_new_element

TypeOK == layer_size \in Int /\ data_o \in Int
=============================================================================
