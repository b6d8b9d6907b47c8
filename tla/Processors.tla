----------------------------- MODULE Processors -----------------------------
(***************************************************************************)
(* sc_vector<PROCESSOR>: the processing units, all clocked together; every *)
(* variable below is a function of the unit.  A unit queues the neuron     *)
(* numbers addressed to it and computes them one after the other: for each *)
(* input, put the addresses on the ports, wait two edges, accumulate; then *)
(* the bias; then one edge with the result on the port to NEXT_LAYER.      *)
(* pc names the wait() at which the thread is suspended: "idle" (empty     *)
(* queue), the first and the second of a pair of waits ("mac1", "mac2",    *)
(* "bias1", "bias2"), or the one that shows the result ("store").          *)
(* add_to_queue is a method: it runs before the thread of the same edge.   *)
(***************************************************************************)
EXTENDS Config, FloatTerms

VARIABLES queue_address_i, queue_data_i, queue_w_i,
          contr_start_weight_address_i, prevmem_data_i, weight_data_i,
          prevmem_size_i,
          queue_size_o, contr_empty_o, resmem_addr_o, resmem_data_o,
          resmem_w_o, prevmem_addr_o, weight_addr_o,
          is_working, queue_nn_number, pc, number_of_nn, i, sum_reg,
          count_neurons_calc       \* statistic of the unit (PROCESSOR_STAT)

All(v) == [p \in PC |-> v]

Init ==
  /\ queue_size_o = All(0)
  /\ contr_empty_o = All(TRUE)     \* set by add_to_queue in the initialization phase
  /\ resmem_addr_o = All(0)
  /\ resmem_data_o = All(OfInt(0))
  /\ resmem_w_o = All(FALSE)
  /\ prevmem_addr_o = All(0)
  /\ weight_addr_o = All(0)
  /\ is_working = All(FALSE)
  /\ queue_nn_number = All(<< >>)
  /\ pc = All("idle")
  /\ number_of_nn = All(0)
  /\ i = All(0)
  /\ sum_reg = All(OfInt(0))
  /\ count_neurons_calc = All(0)

----------------------------------------------------------------------------
(* The method add_to_queue                                                 *)
Accepts(p) ==
  queue_address_i = p /\ queue_w_i /\ Len(queue_nn_number[p]) < QUEUE_SIZE

Pushed(p) ==
  IF Accepts(p) THEN Append(queue_nn_number[p], queue_data_i)
                ELSE queue_nn_number[p]

(* Variant with a bug: the length is reported before the push.             *)
add_to_queue_stale ==
  /\ queue_size_o' = [p \in PC |-> Len(queue_nn_number[p])]
  /\ contr_empty_o' = [p \in PC |->
       IF Pushed(p) = << >> THEN ~is_working[p]
       ELSE IF Accepts(p) THEN FALSE ELSE contr_empty_o[p]]

add_to_queue ==
  /\ queue_size_o' = [p \in PC |-> Len(Pushed(p))]
  /\ contr_empty_o' = [p \in PC |->
       IF Pushed(p) = << >> THEN ~is_working[p]
       ELSE IF Accepts(p) THEN FALSE ELSE contr_empty_o[p]]

----------------------------------------------------------------------------
(* The thread process, in the state add_to_queue left                      *)
Takes(p)    == pc[p] \in {"idle", "store"} /\ Pushed(p) # << >>
AtHead(p)   == Takes(p) \/ pc[p] = "mac2"   \* gets to the head of the inner loop
Finishes(p) == pc[p] = "store"

Neuron(p) == IF Takes(p) THEN Head(Pushed(p)) ELSE number_of_nn[p]
Input(p)  == IF Takes(p) THEN 0 ELSE IF pc[p] = "mac2" THEN i[p] + 1 ELSE i[p]

HasInputMore(p) == Input(p) <= prevmem_size_i   \* variant with a bug: one too many
HasInput(p) == Input(p) < prevmem_size_i

(* weights of neuron n: one per input, then the bias                       *)
(* Variant with a bug: the place of the bias is forgotten.                 *)
WeightAddressNoBias(n, k) ==
  contr_start_weight_address_i + prevmem_size_i * n + k

WeightAddress(n, k) ==
  contr_start_weight_address_i + (prevmem_size_i + 1) * n + k

(* Variant with a bug: one of each pair of waits is missing.               *)
NextPcOneWait(p) ==
  CASE AtHead(p)        -> IF HasInput(p) THEN "mac2" ELSE "bias2"
    [] pc[p] = "bias2"  -> "store"
    [] OTHER            -> "idle"

NextPc(p) ==
  CASE AtHead(p)        -> IF HasInput(p) THEN "mac1" ELSE "bias1"
    [] pc[p] = "mac1"   -> "mac2"
    [] pc[p] = "bias1"  -> "bias2"
    [] pc[p] = "bias2"  -> "store"
    [] OTHER            -> "idle"

Sum(p) ==
  CASE Takes(p)        -> OfInt(0)
    [] pc[p] = "mac2"  -> Mac(sum_reg[p], prevmem_data_i[p], weight_data_i[p])
    [] pc[p] = "bias2" -> AddBias(sum_reg[p], weight_data_i[p])
    [] OTHER           -> sum_reg[p]

(* Variant with a bug: neurons are counted when they are taken.            *)
CountedEarly(p) == count_neurons_calc[p] + IF Takes(p) THEN 1 ELSE 0
Counted(p) == count_neurons_calc[p] + IF Finishes(p) THEN 1 ELSE 0

process ==
  /\ queue_nn_number' = [p \in PC |-> IF Takes(p) THEN Tail(Pushed(p)) ELSE Pushed(p)]
  /\ number_of_nn' = [p \in PC |-> Neuron(p)]
  /\ is_working' = [p \in PC |-> Takes(p) \/ (is_working[p] /\ ~Finishes(p))]
  /\ pc' = [p \in PC |-> NextPc(p)]
  /\ i' = [p \in PC |-> Input(p)]
  /\ sum_reg' = [p \in PC |-> Sum(p)]
  /\ weight_addr_o' = [p \in PC |->
       IF ~AtHead(p) THEN weight_addr_o[p]
       ELSE WeightAddress(Neuron(p), IF HasInput(p) THEN Input(p) ELSE prevmem_size_i)]
  /\ prevmem_addr_o' = [p \in PC |->
       IF AtHead(p) /\ HasInput(p) THEN Input(p) ELSE prevmem_addr_o[p]]
  /\ resmem_w_o' = [p \in PC |->
       pc[p] = "bias2" \/ (resmem_w_o[p] /\ ~Finishes(p))]
  /\ resmem_addr_o' = [p \in PC |->
       IF pc[p] = "bias2" THEN number_of_nn[p] ELSE resmem_addr_o[p]]
  /\ resmem_data_o' = [p \in PC |->
       IF pc[p] = "bias2" THEN sigmoid(Sum(p)) ELSE resmem_data_o[p]]
  /\ count_neurons_calc' = [p \in PC |-> Counted(p)]

Edge == add_to_queue /\ process

TypeOK ==
  /\ queue_size_o \in [PC -> Nat]
  /\ contr_empty_o \in [PC -> BOOLEAN]
  /\ resmem_addr_o \in [PC -> Nat]
  /\ resmem_data_o \in [PC -> Number]
  /\ resmem_w_o \in [PC -> BOOLEAN]
  /\ prevmem_addr_o \in [PC -> Nat]
  /\ weight_addr_o \in [PC -> Int]
  /\ is_working \in [PC -> BOOLEAN]
  /\ queue_nn_number \in [PC -> Seq(Nat)]
  /\ pc \in [PC -> {"idle", "mac1", "mac2", "bias1", "bias2", "store"}]
  /\ number_of_nn \in [PC -> Nat]
  /\ i \in [PC -> Nat]
  /\ sum_reg \in [PC -> Float]
  /\ count_neurons_calc \in [PC -> Nat]
=============================================================================
