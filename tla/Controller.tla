----------------------------- MODULE Controller -----------------------------
(***************************************************************************)
(* CONTROLLER: takes the number of layers from the IO bus, and on the      *)
(* start command walks the layers: latch the input size, select the next   *)
(* layer, start the generator, wait for the end of the cycle, clear the    *)
(* previous layer's memory and have the new layer copied into it.          *)
(*                                                                         *)
(* pc names the wait() at which the thread is suspended, and high is the   *)
(* set of its bool outputs that are true.  The two methods run before the  *)
(* thread of the same edge: the kernel of systemc-2.3.3 executes all the   *)
(* runnable methods of an evaluation phase before any thread.              *)
(***************************************************************************)
EXTENDS FloatTerms

VARIABLES addr_i, data_i, wr_i, size_of_layer_i, end_clone_controller_layer_i,
          cycle_ended_i,
          high, start_weight_adderess_o,
          state, layers, prev_layer, pc, i

Lines == {"next_layer_o", "clr_controller_layer_o",
          "write_out_controller_layer_o", "start_clone_controller_layer_o",
          "save_prev_layer_size_o", "start_generator_o"}

Init ==
  /\ high = {}
  /\ start_weight_adderess_o = 0
  /\ state = "IDLE"
  /\ layers = 0
  /\ prev_layer = 0
  /\ pc = "idle"            \* not started yet: it will enter the loop at its top
  /\ i = 0

state_read_data(s) ==
  IF addr_i = 0 /\ data_i = PosInf /\ wr_i /\ s = "IDLE" THEN "READ_DATA" ELSE s

(* Variant with a bug: any word at the command address starts.             *)
state_start_any(s) ==
  IF addr_i = 0 /\ wr_i /\ s = "IDLE" THEN "START_CONV" ELSE s

state_start_conv(s) ==
  IF addr_i = 0 /\ data_i = NegInf /\ wr_i /\ s = "IDLE" THEN "START_CONV" ELSE s

(* state as the thread finds it                                            *)
Sampled == state_start_conv(state_read_data(state))

(* case IDLE, up to its wait()                                             *)
Rest ==
  /\ state' = "IDLE"
  /\ start_weight_adderess_o' = 0
  /\ pc' = "idle"

(* Assignments to the bool outputs: raise one, lower one.                  *)
Pulse(up, down) == high' = (high \ {down}) \union {up}
Lower(down)     == high' = high \ {down}

(***************************************************************************)
(* The head of the loop over the layers, reached with loop counter k and   *)
(* weight address base: go on to layer k + 1, or show the result and rest. *)
(***************************************************************************)
NextLayerOrEnd(k, base, down) ==
  /\ i' = k
  /\ \/ /\ k < layers - 1
        /\ Pulse("save_prev_layer_size_o", down)
        /\ start_weight_adderess_o' = base
        /\ state' = "START_CONV"
        /\ pc' = "save"
     \/ /\ k >= layers - 1
        /\ Pulse("write_out_controller_layer_o", down)
        /\ Rest

StayIdle ==
  /\ pc = "idle" /\ Sampled = "IDLE"
  /\ Rest
  /\ UNCHANGED <<high, layers, prev_layer, i>>

BeginRead ==
  /\ pc = "idle" /\ Sampled = "READ_DATA"
  /\ state' = Sampled
  /\ pc' = "read"
  /\ UNCHANGED <<high, start_weight_adderess_o, layers, prev_layer, i>>

ReadLayers ==
  /\ pc = "read"
  /\ \/ addr_i = 0 /\ wr_i /\ layers' = ToInt(data_i) /\ Rest
     \/ /\ ~(addr_i = 0 /\ wr_i)
        /\ UNCHANGED <<state, pc, layers, start_weight_adderess_o>>
  /\ UNCHANGED <<high, prev_layer, i>>

StartConv ==
  /\ pc = "idle" /\ Sampled = "START_CONV"
  /\ NextLayerOrEnd(0, start_weight_adderess_o, "none")
  /\ UNCHANGED <<layers, prev_layer>>

loop == <<start_weight_adderess_o, state, layers, i>>

SelectLayer ==
  /\ pc = "save" /\ pc' = "next"
  /\ Pulse("next_layer_o", "save_prev_layer_size_o")
  /\ prev_layer' = size_of_layer_i
  /\ UNCHANGED loop

StartGenerator ==
  /\ pc = "next" /\ pc' = "gen"
  /\ Pulse("start_generator_o", "next_layer_o")
  /\ UNCHANGED <<loop, prev_layer>>

EndStart ==
  /\ pc = "gen" /\ pc' = "settle"
  /\ Lower("start_generator_o")
  /\ UNCHANGED <<loop, prev_layer>>

(* The first of the two waits that give the generator time to answer.      *)
Settle ==
  /\ pc = "settle" /\ pc' = "cycle"
  /\ UNCHANGED <<loop, prev_layer, high>>

(* Variant with a bug: it waits a fixed time.                              *)
AwaitCycleNot ==
  /\ pc = "cycle" /\ pc' = "clear"
  /\ high' = high \union {"clr_controller_layer_o"}
  /\ UNCHANGED <<loop, prev_layer>>

AwaitCycle ==
  /\ pc = "cycle"
  /\ \/ ~cycle_ended_i /\ UNCHANGED <<pc, high>>
     \/ /\ cycle_ended_i /\ pc' = "clear"
        /\ high' = high \union {"clr_controller_layer_o"}
  /\ UNCHANGED <<loop, prev_layer>>

StartClone ==
  /\ pc = "clear" /\ pc' = "clone"
  /\ Pulse("start_clone_controller_layer_o", "clr_controller_layer_o")
  /\ UNCHANGED <<loop, prev_layer>>

(* Variant with a bug: the weight base moves by the sizes of the next layer. *)
AwaitCloneLateBase ==
  /\ pc \in {"clone", "cloned"}
  /\ \/ /\ ~end_clone_controller_layer_i
        /\ pc' = "cloned"
        /\ Lower("start_clone_controller_layer_o")
        /\ UNCHANGED loop
     \/ /\ end_clone_controller_layer_i
        /\ NextLayerOrEnd(i + 1,
             (size_of_layer_i + 1) * size_of_layer_i + start_weight_adderess_o,
             "start_clone_controller_layer_o")
        /\ UNCHANGED layers
  /\ UNCHANGED prev_layer

AwaitClone ==
  /\ pc \in {"clone", "cloned"}
  /\ \/ /\ ~end_clone_controller_layer_i
        /\ pc' = "cloned"
        /\ Lower("start_clone_controller_layer_o")
        /\ UNCHANGED loop
     \/ /\ end_clone_controller_layer_i
        /\ NextLayerOrEnd(i + 1,
             (prev_layer + 1) * size_of_layer_i + start_weight_adderess_o,
             "start_clone_controller_layer_o")
        /\ UNCHANGED layers
  /\ UNCHANGED prev_layer

process ==
  \/ StayIdle \/ BeginRead \/ ReadLayers \/ StartConv \/ SelectLayer
  \/ StartGenerator \/ EndStart \/ Settle \/ AwaitCycle \/ StartClone
  \/ AwaitClone

TypeOK ==
  /\ high \subseteq Lines
  /\ start_weight_adderess_o \in Int
  /\ state \in {"IDLE", "READ_DATA", "START_CONV"}
  /\ layers \in Int
  /\ prev_layer \in Int
  /\ pc \in {"idle", "read", "save", "next", "gen", "settle", "cycle",
             "clear", "clone", "cloned"}
  /\ i \in Nat
=============================================================================
