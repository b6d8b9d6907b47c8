----------------------- MODULE PreviousLayerController -----------------------
(***************************************************************************)
(* PREVIOUS_LAYER_CONTROLLER: delays the clear and write-out commands by   *)
(* an edge and copies the computed layer, one word per edge, as a          *)
(* two-stage pipeline: next_o makes NEXT_LAYER issue a word, and           *)
(* wr_to_memory_from_mem_o, one edge behind, makes PREVIOUS_LAYER take it. *)
(***************************************************************************)
EXTENDS Integers

VARIABLES clr_i, start_clone_i, write_out_i, layer_size_i,
          wr_to_memory_from_mem_o, wr_to_out_o, clr_o, next_o, end_clone_o,
          pc, i

Init ==
  /\ wr_to_memory_from_mem_o = FALSE
  /\ wr_to_out_o = FALSE
  /\ clr_o = FALSE
  /\ next_o = FALSE
  /\ end_clone_o = FALSE
  /\ pc = "idle"
  /\ i = 0

clear_sticky == clr_o' = (clr_o \/ clr_i)    \* variant with a bug: never lowered

clear == clr_o' = clr_i

write_out_to_IO == wr_to_out_o' = write_out_i

(* Variant with a bug: the end of the last copy stays announced.           *)
AwaitStartKeepEnd ==
  /\ pc = "idle" /\ ~start_clone_i
  /\ UNCHANGED <<end_clone_o, next_o, wr_to_memory_from_mem_o, pc, i>>

AwaitStart ==
  /\ pc = "idle" /\ ~start_clone_i
  /\ end_clone_o' = FALSE
  /\ UNCHANGED <<next_o, wr_to_memory_from_mem_o, pc, i>>

(* Variant with a bug: the pipeline is not primed.                         *)
BeginCopyLate ==
  /\ pc = "idle" /\ start_clone_i
  /\ pc' = "copy" /\ i' = 0
  /\ UNCHANGED <<end_clone_o, next_o, wr_to_memory_from_mem_o>>

BeginCopy ==
  /\ pc = "idle" /\ start_clone_i
  /\ next_o' = TRUE
  /\ pc' = "copy" /\ i' = 0
  /\ UNCHANGED <<end_clone_o, wr_to_memory_from_mem_o>>

CopyWord ==
  /\ pc = "copy" /\ i < layer_size_i
  /\ next_o' = (i # layer_size_i - 1)
  /\ wr_to_memory_from_mem_o' = TRUE
  /\ i' = i + 1
  /\ UNCHANGED <<end_clone_o, pc>>

(* Variant with a bug: the end of the copy is not announced.               *)
EndCopySilent ==
  /\ pc = "copy" /\ i >= layer_size_i
  /\ next_o' = FALSE
  /\ wr_to_memory_from_mem_o' = FALSE
  /\ pc' = "idle"
  /\ UNCHANGED <<end_clone_o, i>>

EndCopy ==
  /\ pc = "copy" /\ i >= layer_size_i
  /\ next_o' = FALSE
  /\ wr_to_memory_from_mem_o' = FALSE
  /\ end_clone_o' = TRUE
  /\ pc' = "idle"
  /\ UNCHANGED i

copy_memory == AwaitStart \/ BeginCopy \/ CopyWord \/ EndCopy

Edge == clear /\ write_out_to_IO /\ copy_memory

TypeOK ==
  /\ wr_to_memory_from_mem_o \in BOOLEAN
  /\ wr_to_out_o \in BOOLEAN
  /\ clr_o \in BOOLEAN
  /\ next_o \in BOOLEAN
  /\ end_clone_o \in BOOLEAN
  /\ pc \in {"idle", "copy"}
  /\ i \in Nat
=============================================================================
