------------------------ MODULE AcceleratorProperties ------------------------
(***************************************************************************)
(* The correctness properties of the accelerator.                          *)
(***************************************************************************)
EXTENDS Accelerator, Functions

(***************************************************************************)
(* The neuron numbers handed out and not yet stored, by the place each is  *)
(* in.  A place is a unit and a position: 0 in the hands of the unit (its  *)
(* result on the port to NEXT_LAYER included), 1 .. QUEUE_SIZE in its      *)
(* queue, one more still on the bus from the generator.                    *)
(***************************************************************************)
Busy(p)   == pu_pc[p] # "idle"
OnBus     == IF gen_write THEN {<<gen_address, QUEUE_SIZE + 1>>} ELSE {}
Queued    == UNION {{<<p, k>> : k \in DOMAIN pu_queue[p]} : p \in PC}
BeingDone == {<<p, 0>> : p \in {q \in PC : Busy(q)}}
Places    == OnBus \union Queued \union BeingDone

NumberAt(place) ==
  CASE place \in OnBus     -> gen_data
    [] place \in BeingDone -> pu_number_of_nn[place[1]]
    [] place \in Queued    -> pu_queue[place[1]][place[2]]

PlacesOf(n) == {place \in Places : NumberAt(place) = n}

----------------------------------------------------------------------------
(***************************************************************************)
(* The abstract state of FeedForward.  The activations are in the input    *)
(* files until the start command has been obeyed, in NEXT_LAYER from the   *)
(* end of a cycle until its words have all been copied, and otherwise in   *)
(* PREVIOUS_LAYER.                                                         *)
(***************************************************************************)
Copying == ctrl_pc \in {"clear", "clone", "cloned"}
Started == ctrl_pc \notin {"idle", "read"} \/ write_out_controller_bus

layer == IF Copying THEN ctrl_i + 2 ELSE ctrl_i + 1

acts ==
  CASE ~Started -> files.picture
    [] Copying  -> [n \in 1 .. data_layer |-> next_memory[n - 1]]
    [] OTHER    -> prev_memory

feed_forward == INSTANCE FeedForward WITH printed <- io_results

(***************************************************************************)
(* The simulator computes the network: every layer, and then every printed *)
(* word, is what FeedForward says, in its order, each printed once; and if *)
(* the clock keeps running all of it happens and the simulation ends.      *)
(***************************************************************************)
ImplementsFeedForward == feed_forward!Spec

(* The simulation ends: no module waits forever for another one.           *)
Terminates == <>(status # "running")

----------------------------------------------------------------------------
(* Dispatch                                                                *)

(***************************************************************************)
(* A unit drops a number that reaches it with its queue full, and tells    *)
(* nobody (processor.cpp:85).  The generator never sends one there, though *)
(* the sizes it compares were reported before the units took their last    *)
(* numbers, and its own last number may still have been on its way.        *)
(***************************************************************************)
NoNeuronLost == gen_write => Len(pu_queue[gen_address]) < QUEUE_SIZE

(***************************************************************************)
(* While a layer is computed, every number handed out so far is either in  *)
(* exactly one place, or in none and its correct value is in NEXT_LAYER:   *)
(* nothing is lost, computed twice, overwritten or computed from inputs    *)
(* that have changed under the unit.                                       *)
(***************************************************************************)
HandedOut == 0 .. (IF gen_end THEN data_layer ELSE gen_counter) - 1

EveryNeuronAccounted ==
  ctrl_pc \in {"settle", "cycle"} =>
    \A n \in HandedOut :
      \/ Cardinality(PlacesOf(n)) = 1
      \/ PlacesOf(n) = {} /\ next_memory[n] = feed_forward!Neuron(n)

(***************************************************************************)
(* Neurons are conserved over the whole run: those the units count as      *)
(* computed and those still underway are all the neurons of the layers     *)
(* before the current one, and those handed out of this one.  So are the   *)
(* statistics printed at the end complete.                                 *)
(***************************************************************************)
Total(f) == FoldFunction(+, 0, f)

NeuronsUpTo(l) == Total([k \in 2 .. l |-> feed_forward!Size(k)])

EveryNeuronCounted ==
  Total(pu_count_neurons_calc) + Cardinality(Places) =
    NeuronsUpTo(layer)
      + IF ctrl_pc \in {"settle", "cycle"} THEN Cardinality(HandedOut) ELSE 0

(***************************************************************************)
(* END_REDUCER reports the end of the cycle only when no number is left    *)
(* anywhere: not between generator and unit, nor between unit and          *)
(* NEXT_LAYER.                                                             *)
(***************************************************************************)
NoPrematureEnd == cycle_ended => Places = {}

(***************************************************************************)
(* Generator, units and END_REDUCER seen alone, as in module Dispatch: a   *)
(* unit with anything between the first wait() of a neuron and the last is *)
(* busy, and the controller is at rest outside its handshake with them.    *)
(***************************************************************************)
UnitState(p) == IF pu_pc[p] \in {"idle", "store"} THEN pu_pc[p] ELSE "busy"

dispatch == INSTANCE Dispatch WITH
  Sizes <- Int, layer_size <- data_layer,
  ctrl <- IF ctrl_pc \in {"gen", "settle", "cycle"} THEN ctrl_pc ELSE "rest",
  contr_empty <- contr_empty_bus, is_working <- pu_is_working,
  queue <- pu_queue, unit <- [p \in PC |-> UnitState(p)],
  number <- pu_number_of_nn

(***************************************************************************)
(* In the accelerator these parts are used as Dispatch supposes: a start   *)
(* is a pulse of one edge, the end is not looked at for two edges, nothing *)
(* is started before it (controller.cpp:108-123), and the size at the      *)
(* generator does not move in between; so what holds of Dispatch for any   *)
(* sizes and any speed of the units holds here.                            *)
(***************************************************************************)
ImplementsDispatch == dispatch!Safety

(***************************************************************************)
(* Queue lengths never differ by more than two: the shortest queue is      *)
(* served although the reports are stale.                                  *)
(***************************************************************************)
Balanced == \A p, q \in PC : Len(pu_queue[p]) <= Len(pu_queue[q]) + 2

(***************************************************************************)
(* What the units compute from does not change while one of them computes, *)
(* nor the number of neurons to hand out while the generator works.        *)
(***************************************************************************)
KeepInputs ==
  /\ (\E p \in PC : Busy(p)) =>
       UNCHANGED <<prev_memory, weight_memory, previous_data_layer,
                   start_weight_adderess>>
  /\ gen_state = "GENERATE" => UNCHANGED data_layer

InputsStable == [][KeepInputs]_vars

----------------------------------------------------------------------------
(* Handshakes                                                              *)

(***************************************************************************)
(* Start and end commands are pulses of one edge.  Whenever one is up, the *)
(* module it is meant for is at the wait() that looks at it.               *)
(***************************************************************************)
PulsesHeard ==
  /\ start_generator => gen_pc = "idle" /\ gen_state = "IDLE"
  /\ start_clone_controller_bus => plc_pc = "idle"
  /\ end_clone_controller_bus => ctrl_pc \in {"clone", "cloned"}

(***************************************************************************)
(* The copy is a pipeline of three modules: when PREVIOUS_LAYER is told to *)
(* take a word, the word NEXT_LAYER shows is the next one it lacks; and at *)
(* the end it holds the whole layer, no word more.                         *)
(***************************************************************************)
CopyAligned ==
  /\ wr_to_mem_from_mem_ctrl_mem_bus =>
       /\ Len(prev_memory) < data_layer
       /\ data_from_now_layer_to_next_layer = next_memory[Len(prev_memory)]
  /\ end_clone_controller_bus =>
       prev_memory = [n \in 1 .. data_layer |-> next_memory[n - 1]]

(***************************************************************************)
(* The methods of PREVIOUS_LAYER share its memory and its cursor, those of *)
(* NEXT_LAYER theirs, and the same edge runs them in an order SystemC      *)
(* leaves open.  Of the commands to add a word, to drive the bus and to    *)
(* clear, at most one is given on an edge, and no word is asked of         *)
(* NEXT_LAYER on an edge on which it stores one: so what the members hold  *)
(* after an edge does not depend on the order.  (Methods that only show    *)
(* what a member holds run on every edge; of them ReadsSettled speaks.)    *)
(***************************************************************************)
ChangesExclusive ==
  /\ Cardinality({k \in 1 .. 4 :
       <<wr_io_bus /\ addr_io_bus = 2, wr_to_mem_from_mem_ctrl_mem_bus,
         wr_to_io_ctrl_mem_bus, clr_prev_layer_ctrl_mem_bus>>[k]}) <= 1
  /\ next_memory_transmit => \A p \in PC : ~resmem_w_bus[p]

(***************************************************************************)
(* The stores show a word on every edge, also on one on which a sibling    *)
(* method changes what they show it from (layers_storage.cpp:46,           *)
(* previous_layer.cpp:56, weight_storage.cpp:34,                           *)
(* previous_layer_size.cpp:32).  The order of the two then decides whether *)
(* the line is an edge behind its store.  Whoever takes the word from the  *)
(* line finds there what the store holds at that moment, in every order:   *)
(* the size of the layer when it is latched, counted to, copied by or      *)
(* multiplied with, the size of the previous layer when a unit compares    *)
(* with it, input and weight when a unit adds them up.                     *)
(***************************************************************************)
TakesLayerSize ==
  \/ ctrl_pc = "save"             \* CONTROLLER and PREVIOUS_LAYER_SIZE
  \/ gen_pc = "choose"            \* GENERATOR
  \/ plc_pc = "copy"              \* PREVIOUS_LAYER_CONTROLLER
  \/ end_clone_controller_bus     \* CONTROLLER

ReadsSettled ==
  /\ TakesLayerSize =>
       data_layer = layers_storage!Element(layers_memory, layers_index)
  /\ \A p \in PC :
       /\ processors!AtHead(p) => previous_data_layer = prev_layer_size
       /\ pu_pc[p] = "mac2" =>
            data_prev_layer_bus[p] =
              previous_layer!Word(prev_memory, addr_prev_layer_bus[p])
       /\ pu_pc[p] \in {"mac2", "bias2"} =>
            data_weight_bus[p] =
              weight_storage!Word(weight_memory, addr_weight_bus[p])

(***************************************************************************)
(* The IO bus is released by IO before PREVIOUS_LAYER drives it.           *)
(***************************************************************************)
BusOneDriver == wr_to_io_ctrl_mem_bus => ~io_module!DrivesWr

(***************************************************************************)
(* The start command is obeyed only when the stores hold everything the    *)
(* files contain: it travels on the same bus, behind the data.             *)
(***************************************************************************)
StartFindsAllLoaded ==
  Started /\ ctrl_i = 0 =>
    /\ ctrl_layers = LayersCount(files.config)
    /\ layers_memory = LayerSizes(files.config)
    /\ weight_memory = Weights(files.config)
    /\ ~Copying => prev_memory = files.picture

(***************************************************************************)
(* Results travel on the IO bus with its address line still 0, the command *)
(* address, and the controller looks at every word written there           *)
(* (controller.cpp:47, :59).  It obeys none of them and no store takes one.*)
(***************************************************************************)
IgnoreResults ==
  write_out_controller_bus =>
    UNCHANGED <<ctrlVars, layers_memory, weight_memory, prev_memory>>

ResultsNotObeyed == [][IgnoreResults]_vars

(***************************************************************************)
(* The base of a layer's weights is accumulated while the sizes change     *)
(* under it (controller.cpp:135), and the units add an offset to it in     *)
(* int.  If the files hold a weight for every input and bias of every      *)
(* neuron, a unit at work shows the address of one of them; so no address  *)
(* is larger than the list of weights, which has to fit the memory.        *)
(***************************************************************************)
EnoughWeights ==
  /\ \A l \in 2 .. LayersCount(files.config) : feed_forward!Size(l) > 0
  /\ Len(Weights(files.config)) >= feed_forward!Base[LayersCount(files.config) + 1]

WeightAddressInRange ==
  EnoughWeights =>
    \A p \in PC : Busy(p) => addr_weight_bus[p] \in 0 .. Len(weight_memory) - 1

(***************************************************************************)
(* NEXT_LAYER indexes its vector without a check.  In networks whose       *)
(* computed layers have at most MEM_SIZE neurons no access is out of the   *)
(* reserved words.                                                         *)
(***************************************************************************)
Fits == \A l \in 2 .. Len(layers_memory) : layers_memory[l] <= MEM_SIZE

MemoryInBounds ==
  Fits => /\ \A p \in PC : resmem_w_bus[p] => resmem_addr_bus[p] < MEM_SIZE
          /\ next_memory_transmit => next_index < MEM_SIZE
=============================================================================
