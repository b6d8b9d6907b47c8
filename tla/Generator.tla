------------------------------ MODULE Generator ------------------------------
(***************************************************************************)
(* GENERATOR: hands out the neuron numbers 0, 1, ... of a layer, each to   *)
(* the unit that reports the shortest queue, at most one every two edges:  *)
(* the second edge lets the chosen unit's new size come back.  pc names    *)
(* the wait() at which the thread is suspended.                            *)
(***************************************************************************)
EXTENDS Config

VARIABLES layer_size_i, generate_i, queue_size_i,
          end_generate_o, address_o, data_o, w_o,
          state, counter, pc

Init ==
  /\ end_generate_o = TRUE
  /\ address_o = 0
  /\ data_o = 0
  /\ w_o = FALSE
  /\ state = "IDLE"
  /\ counter = 0
  /\ pc = "idle"

(* find_min_index: the first of the shortest queues                        *)
IsFirstWithRoom(p) ==       \* variant with a bug: the first queue that is not full
  \A q \in 0 .. p - 1 : queue_size_i[q] >= QUEUE_SIZE

IsMinIndex(p) ==
  \A q \in PC : /\ queue_size_i[p] <= queue_size_i[q]
                /\ q < p => queue_size_i[p] < queue_size_i[q]

(* case IDLE, up to its wait(); reached from itself or after the last number *)
Idle ==
  /\ pc \in {"idle", "written"} /\ state = "IDLE"
  /\ end_generate_o' = ~generate_i
  /\ state' = IF generate_i THEN "GENERATE" ELSE "IDLE"
  /\ address_o' = 0
  /\ data_o' = 0
  /\ w_o' = FALSE
  /\ counter' = 0
  /\ pc' = "idle"

(* After the start: the first wait() of case GENERATE.                     *)
Enter ==
  /\ pc = "idle" /\ state = "GENERATE"
  /\ pc' = "choose"
  /\ UNCHANGED <<end_generate_o, address_o, data_o, w_o, state, counter>>

Choose(p) ==
  /\ pc = "choose"
  /\ IsMinIndex(p)
  /\ \/ /\ queue_size_i[p] < QUEUE_SIZE
        /\ data_o' = counter
        /\ address_o' = p
        /\ w_o' = TRUE
        /\ counter' = counter + 1
        /\ state' = IF counter + 1 >= layer_size_i THEN "IDLE" ELSE "GENERATE"
     \/ /\ queue_size_i[p] >= QUEUE_SIZE
        /\ UNCHANGED <<address_o, data_o, w_o, state, counter>>
  /\ pc' = "written"
  /\ UNCHANGED end_generate_o

(* Variant with a bug: the write line is left up.                          *)
WithdrawNot ==
  /\ pc = "written" /\ state = "GENERATE"
  /\ pc' = "choose"
  /\ UNCHANGED <<end_generate_o, address_o, data_o, w_o, state, counter>>

Withdraw ==
  /\ pc = "written" /\ state = "GENERATE"
  /\ w_o' = FALSE
  /\ pc' = "choose"
  /\ UNCHANGED <<end_generate_o, address_o, data_o, state, counter>>

generate == Idle \/ Enter \/ (\E p \in PC : Choose(p)) \/ Withdraw

TypeOK ==
  /\ end_generate_o \in BOOLEAN
  /\ address_o \in PC
  /\ data_o \in Nat
  /\ w_o \in BOOLEAN
  /\ state \in {"IDLE", "GENERATE"}
  /\ counter \in Nat
  /\ pc \in {"idle", "choose", "written"}
=============================================================================
