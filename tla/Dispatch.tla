------------------------------- MODULE Dispatch -------------------------------
(***************************************************************************)
(* GENERATOR, the units and END_REDUCER alone, edge by edge, with all they *)
(* must be able to cope with: units that take any time to compute a        *)
(* neuron, and a controller that starts a layer of any size whenever it    *)
(* likes, but for the handshake of controller.cpp:108-123: a start pulse   *)
(* of one edge, two edges in which it does not look, then the wait for the *)
(* end; and the size does not change meanwhile.                            *)
(***************************************************************************)
EXTENDS Config, Sequences

CONSTANT Sizes       \* of layers

ASSUME SizesAssumption == Sizes \subseteq Int

VARIABLES
  layer_size, ctrl,
  gen_end, gen_address, gen_data, gen_write, gen_state, gen_counter, gen_pc,
  gen_size, contr_empty, is_working, queue, unit, number,
  cycle_ended

ctrlVars == <<layer_size, ctrl>>
genVars  == <<gen_end, gen_address, gen_data, gen_write, gen_state, gen_counter, gen_pc>>
unitVars == <<gen_size, contr_empty, is_working, queue, unit, number>>
vars     == <<ctrlVars, genVars, unitVars, cycle_ended>>

generator == INSTANCE Generator WITH
  layer_size_i <- layer_size, generate_i <- ctrl = "gen", queue_size_i <- gen_size,
  end_generate_o <- gen_end, address_o <- gen_address, data_o <- gen_data,
  w_o <- gen_write, state <- gen_state, counter <- gen_counter, pc <- gen_pc

end_reducer == INSTANCE EndReducer WITH
  gen_end_i <- gen_end, contr_empty_i <- contr_empty, cycle_ended_o <- cycle_ended

(* unit is "idle", "busy" or, with its result on the port, "store".        *)
Init ==
  /\ layer_size \in Sizes
  /\ ctrl = "rest"
  /\ generator!Init
  /\ gen_size = [p \in PC |-> 0]
  /\ contr_empty = [p \in PC |-> TRUE]
  /\ is_working = [p \in PC |-> FALSE]
  /\ queue = [p \in PC |-> << >>]
  /\ unit = [p \in PC |-> "idle"]
  /\ number = [p \in PC |-> 0]
  /\ end_reducer!Init

----------------------------------------------------------------------------
(* The controller                                                          *)

AnySize == layer_size' \in Sizes

Rest == ctrl = "rest" /\ ctrl' \in {"rest", "gen"} /\ AnySize

EndStart == ctrl = "gen" /\ ctrl' = "settle" /\ AnySize

Settle == ctrl = "settle" /\ ctrl' = "cycle" /\ UNCHANGED layer_size

AwaitCycle ==
  /\ ctrl = "cycle"
  /\ ctrl' = IF cycle_ended THEN "rest" ELSE "cycle"
  /\ UNCHANGED layer_size

control == Rest \/ EndStart \/ Settle \/ AwaitCycle

----------------------------------------------------------------------------
(* The units                                                               *)

Accepts(p) == gen_address = p /\ gen_write /\ Len(queue[p]) < QUEUE_SIZE

Pushed(p) == IF Accepts(p) THEN Append(queue[p], gen_data) ELSE queue[p]

(* Variant with a bug: a unit that computes says it is empty.              *)
add_to_queue_idle ==
  /\ gen_size' = [p \in PC |-> Len(Pushed(p))]
  /\ contr_empty' = [p \in PC |-> Pushed(p) = << >>]

add_to_queue ==
  /\ gen_size' = [p \in PC |-> Len(Pushed(p))]
  /\ contr_empty' = [p \in PC |->
       IF Pushed(p) = << >> THEN ~is_working[p]
       ELSE IF Accepts(p) THEN FALSE ELSE contr_empty[p]]

Takes(p) == unit[p] \in {"idle", "store"} /\ Pushed(p) # << >>

(* The units of the set done finish their computation on this edge.        *)
process(done) ==
  /\ queue' = [p \in PC |-> IF Takes(p) THEN Tail(Pushed(p)) ELSE Pushed(p)]
  /\ number' = [p \in PC |-> IF Takes(p) THEN Head(Pushed(p)) ELSE number[p]]
  /\ is_working' = [p \in PC |-> Takes(p) \/ (is_working[p] /\ unit[p] # "store")]
  /\ unit' = [p \in PC |->
       IF Takes(p) THEN "busy"
       ELSE IF unit[p] = "busy" THEN IF p \in done THEN "store" ELSE "busy"
       ELSE "idle"]

Computing == {p \in PC : unit[p] = "busy"}

Edge ==
  /\ control
  /\ generator!generate
  /\ add_to_queue
  /\ \E done \in SUBSET Computing : process(done)
  /\ end_reducer!reduce

Finishes(p) == Edge /\ unit[p] = "busy" /\ unit'[p] = "store"

Safety == Init /\ [][Edge]_vars

(* The clock keeps ticking, and no unit computes one neuron for ever.      *)
Spec == Safety /\ WF_vars(Edge) /\ \A p \in PC : SF_vars(Finishes(p))

----------------------------------------------------------------------------
(* Where the numbers are whose result has not been shown.                  *)
ToHandOut == IF gen_state = "IDLE" THEN {}
             ELSE gen_counter .. (IF layer_size > 1 THEN layer_size ELSE 1) - 1
OnBus     == IF gen_write THEN {gen_data} ELSE {}
Queued    == UNION {{queue[p][k] : k \in DOMAIN queue[p]} : p \in PC}
InHand(u) == {number[p] : p \in {q \in PC : unit[q] = u}}

(***************************************************************************)
(* Whatever the sizes, the times the units take and the moments of the     *)
(* starts: every number of a layer is computed and shown exactly once, the *)
(* end is reported, and not before the last of them (generator.cpp:56,     *)
(* processor.cpp:85, :97).                                                 *)
(***************************************************************************)
pool == INSTANCE TaskPool WITH
  todo <- ToHandOut \union OnBus \union Queued \union InHand("busy"),
  results <- InHand("store"), ended <- cycle_ended

ImplementsTaskPool == pool!Spec
=============================================================================
