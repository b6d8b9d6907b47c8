------------------------------- MODULE Config -------------------------------
(***************************************************************************)
(* The build-time parameters of inc/config.h.                              *)
(***************************************************************************)
EXTENDS Integers

CONSTANTS
  COUNT_PC_UNIT,   \* number of processing units
  QUEUE_SIZE,      \* capacity of the task queue of one unit
  MEM_SIZE         \* words reserved for the memory of the layer being computed

ASSUME ConfigAssumption ==
  /\ COUNT_PC_UNIT \in Nat \ {0}
  /\ QUEUE_SIZE \in Nat \ {0}
  /\ MEM_SIZE \in Nat \ {0}

PC == 0 .. COUNT_PC_UNIT - 1
=============================================================================
