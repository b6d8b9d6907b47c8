----------------------------- MODULE Accelerator -----------------------------
(***************************************************************************)
(* The whole simulator, wired as in src/main.cpp.  Each sc_signal of       *)
(* main.cpp is a variable, each module an instance whose ports are bound   *)
(* to them.  (The six bool lines the controller drives are the members of  *)
(* one set, ctrl_high.)                                                    *)
(*                                                                         *)
(* One step is one rising edge of clk: every clocked process runs once on  *)
(* the values the signals had before the edge, and the signals take their  *)
(* new values together when all have run; so modules communicate only      *)
(* through unprimed signals and their order does not matter.  Order does   *)
(* matter within a module, whose processes share C++ members: the modules  *)
(* say how.                                                                *)
(***************************************************************************)
EXTENDS Config, NetworkFiles, FiniteSets

CONSTANT Inputs     \* the input files of which one is given to the program

(***************************************************************************)
(* The files hold numbers (the extraction operator reads no infinity), and *)
(* the number of layers is not negative.                                   *)
(***************************************************************************)
ASSUME InputsAssumption ==
  \A f \in Inputs :
    /\ f \in [opened : BOOLEAN, config : Seq(Number), picture : Seq(Number)]
    /\ LayersCount(f.config) \in Nat

VARIABLES
  addr_io_bus, data_io_bus, wr_io_bus, data_layer, previous_data_layer,
  addr_weight_bus, data_weight_bus, addr_prev_layer_bus, data_prev_layer_bus,
  wr_to_mem_from_mem_ctrl_mem_bus, wr_to_io_ctrl_mem_bus,
  clr_prev_layer_ctrl_mem_bus, data_from_now_layer_to_next_layer,
  next_memory_transmit, end_clone_controller_bus, cycle_ended,
  start_weight_adderess, ctrl_high,
  gen_address, gen_data, gen_write, gen_end, gen_size,
  resmem_addr_bus, resmem_data_bus, resmem_w_bus, contr_empty_bus

VARIABLES            \* members of the modules, and program counters
  files, io_beat, io_transmit, io_results,
  ctrl_state, ctrl_layers, ctrl_prev_layer, ctrl_pc, ctrl_i,
  layers_memory, layers_index, weight_memory, prev_memory, prev_index_to_out,
  plc_pc, plc_i, prev_layer_size, gen_state, gen_counter, gen_pc,
  pu_is_working, pu_queue, pu_pc, pu_number_of_nn, pu_i, pu_sum_reg,
  pu_count_neurons_calc, next_memory, next_index,
  status               \* of the simulation: "running", "stopped" or "aborted"

ioVars    == <<files, addr_io_bus, data_io_bus, wr_io_bus, io_beat,
               io_transmit, io_results>>
ctrlVars  == <<ctrl_high, start_weight_adderess, ctrl_state, ctrl_layers,
               ctrl_prev_layer, ctrl_pc, ctrl_i>>
storeVars == <<layers_memory, layers_index, data_layer, weight_memory,
               data_weight_bus, prev_layer_size, previous_data_layer>>
prevVars  == <<prev_memory, prev_index_to_out, data_prev_layer_bus>>
plcVars   == <<wr_to_mem_from_mem_ctrl_mem_bus, wr_to_io_ctrl_mem_bus,
               clr_prev_layer_ctrl_mem_bus, next_memory_transmit,
               end_clone_controller_bus, plc_pc, plc_i>>
genVars   == <<gen_end, gen_address, gen_data, gen_write, gen_state,
               gen_counter, gen_pc>>
puVars    == <<gen_size, contr_empty_bus, resmem_addr_bus, resmem_data_bus,
               resmem_w_bus, addr_prev_layer_bus, addr_weight_bus,
               pu_is_working, pu_queue, pu_pc, pu_number_of_nn, pu_i, pu_sum_reg,
               pu_count_neurons_calc>>
nextVars  == <<next_memory, next_index, data_from_now_layer_to_next_layer>>

vars == <<ioVars, ctrlVars, storeVars, prevVars, plcVars, genVars, puVars,
          nextVars, cycle_ended, status>>

----------------------------------------------------------------------------
(* The modules and their bindings                                          *)

io_module == INSTANCE IoModule WITH
  addr_o <- addr_io_bus, data_io <- data_io_bus, wr_io <- wr_io_bus,
  beat <- io_beat, transmit <- io_transmit, results <- io_results

controller == INSTANCE Controller WITH
  addr_i <- addr_io_bus, data_i <- data_io_bus, wr_i <- wr_io_bus,
  size_of_layer_i <- data_layer,
  end_clone_controller_layer_i <- end_clone_controller_bus,
  cycle_ended_i <- cycle_ended, high <- ctrl_high,
  start_weight_adderess_o <- start_weight_adderess,
  state <- ctrl_state, layers <- ctrl_layers, prev_layer <- ctrl_prev_layer,
  pc <- ctrl_pc, i <- ctrl_i

(* The lines of ctrl_high, by the names main.cpp gives them                *)
next_layer                    == "next_layer_o" \in ctrl_high
clr_prev_layer_controller_bus == "clr_controller_layer_o" \in ctrl_high
write_out_controller_bus      == "write_out_controller_layer_o" \in ctrl_high
start_clone_controller_bus    == "start_clone_controller_layer_o" \in ctrl_high
save_prev_layer_size          == "save_prev_layer_size_o" \in ctrl_high
start_generator               == "start_generator_o" \in ctrl_high

layers_storage == INSTANCE LayersStorage WITH
  addr_i <- addr_io_bus, data_i <- data_io_bus, wr_i <- wr_io_bus,
  next <- next_layer, data_o <- data_layer,
  memory <- layers_memory, index <- layers_index

weight_storage == INSTANCE WeightStorage WITH
  addr_io_bus_i <- addr_io_bus, data_io_bus_i <- data_io_bus,
  wr_io_bus_i <- wr_io_bus, addr_out_bus_i <- addr_weight_bus,
  data_out_bus_o <- data_weight_bus, memory <- weight_memory

previous_layer == INSTANCE PreviousLayer WITH
  addr_io_bus_i <- addr_io_bus, data_io_bus_io <- data_io_bus,
  wr_io_bus_io <- wr_io_bus,
  wr_to_memory_from_mem_i <- wr_to_mem_from_mem_ctrl_mem_bus,
  wr_to_out_i <- wr_to_io_ctrl_mem_bus, clr_i <- clr_prev_layer_ctrl_mem_bus,
  addr_PC_bus_i <- addr_prev_layer_bus, data_PC_bus_o <- data_prev_layer_bus,
  data_mem_bus_i <- data_from_now_layer_to_next_layer,
  memory <- prev_memory, index_to_out <- prev_index_to_out

previous_layer_controller == INSTANCE PreviousLayerController WITH
  clr_i <- clr_prev_layer_controller_bus,
  start_clone_i <- start_clone_controller_bus,
  write_out_i <- write_out_controller_bus, layer_size_i <- data_layer,
  wr_to_memory_from_mem_o <- wr_to_mem_from_mem_ctrl_mem_bus,
  wr_to_out_o <- wr_to_io_ctrl_mem_bus, clr_o <- clr_prev_layer_ctrl_mem_bus,
  next_o <- next_memory_transmit, end_clone_o <- end_clone_controller_bus,
  pc <- plc_pc, i <- plc_i

previous_layer_size == INSTANCE PreviousLayerSize WITH
  save_i <- save_prev_layer_size, data_i <- data_layer,
  data_o <- previous_data_layer, layer_size <- prev_layer_size

generator == INSTANCE Generator WITH
  layer_size_i <- data_layer, generate_i <- start_generator,
  queue_size_i <- gen_size, end_generate_o <- gen_end,
  address_o <- gen_address, data_o <- gen_data, w_o <- gen_write,
  state <- gen_state, counter <- gen_counter, pc <- gen_pc

processors == INSTANCE Processors WITH
  queue_address_i <- gen_address, queue_data_i <- gen_data,
  queue_w_i <- gen_write,
  contr_start_weight_address_i <- start_weight_adderess,
  prevmem_data_i <- data_prev_layer_bus, weight_data_i <- data_weight_bus,
  prevmem_size_i <- previous_data_layer,
  queue_size_o <- gen_size, contr_empty_o <- contr_empty_bus,
  resmem_addr_o <- resmem_addr_bus, resmem_data_o <- resmem_data_bus,
  resmem_w_o <- resmem_w_bus, prevmem_addr_o <- addr_prev_layer_bus,
  weight_addr_o <- addr_weight_bus, is_working <- pu_is_working,
  queue_nn_number <- pu_queue, pc <- pu_pc, number_of_nn <- pu_number_of_nn,
  i <- pu_i, sum_reg <- pu_sum_reg,
  count_neurons_calc <- pu_count_neurons_calc

next_layer_mem == INSTANCE NextLayer WITH
  addr_i <- resmem_addr_bus, data_i <- resmem_data_bus, w_i <- resmem_w_bus,
  next_i <- next_memory_transmit, data_o <- data_from_now_layer_to_next_layer,
  memory <- next_memory, index <- next_index

end_reducer == INSTANCE EndReducer WITH
  gen_end_i <- gen_end, contr_empty_i <- contr_empty_bus,
  cycle_ended_o <- cycle_ended

----------------------------------------------------------------------------
(* After elaboration and the initialization phase, before the first edge   *)
Init ==
  /\ files \in Inputs
  /\ io_module!Init
  /\ controller!Init
  /\ layers_storage!Init
  /\ weight_storage!Init
  /\ previous_layer!Init
  /\ previous_layer_controller!Init
  /\ previous_layer_size!Init
  /\ generator!Init
  /\ processors!Init
  /\ next_layer_mem!Init
  /\ end_reducer!Init
  /\ status = "running"

(***************************************************************************)
(* The two drivers of the IO bus.  A line nobody writes keeps its value;   *)
(* if both write a line on one edge the kernel reports an error, and here  *)
(* there is no step.                                                       *)
(***************************************************************************)
HoldBus(issues) ==
  /\ ~(io_module!DrivesWr /\ issues)
  /\ ~io_module!DrivesData /\ ~issues => UNCHANGED data_io_bus
  /\ ~io_module!DrivesWr /\ ~issues => UNCHANGED wr_io_bus

(* What PREVIOUS_LAYER does on an edge; sc_stop() lets the edge complete.  *)
PreviousLayerEdge ==
  /\ previous_layer!add_to_mem_and_clear
  /\ \E m \in previous_layer!Views, k \in previous_layer!Indices :
       /\ previous_layer!Edge(m, k)
       /\ HoldBus(previous_layer!Drives(m, k))
       /\ status' = IF previous_layer!Stops(m, k) THEN "stopped" ELSE "running"

Edge ==
  /\ status = "running"
  /\ ~io_module!LoadFails
  /\ io_module!Edge
  /\ controller!process
  /\ layers_storage!Edge
  /\ weight_storage!Edge
  /\ PreviousLayerEdge
  /\ previous_layer_controller!Edge
  /\ previous_layer_size!Edge
  /\ generator!generate
  /\ processors!Edge
  /\ next_layer_mem!Edge
  /\ end_reducer!reduce
  /\ UNCHANGED files

(* An input file cannot be opened: sc_abort() on the first edge.           *)
Abort ==
  /\ status = "running"
  /\ io_module!LoadFails
  /\ status' = "aborted"
  /\ UNCHANGED <<ioVars, ctrlVars, storeVars, prevVars, plcVars, genVars,
                 puVars, nextVars, cycle_ended>>

(* Nothing happens any more.                                               *)
Over == status # "running" /\ UNCHANGED vars

Next == Edge \/ Abort \/ Over

(* sc_start() keeps the clock running until sc_stop().                     *)
Spec == Init /\ [][Next]_vars /\ WF_vars(Edge \/ Abort)

----------------------------------------------------------------------------
TypeOK ==
  /\ files \in Inputs
  /\ io_module!TypeOK
  /\ controller!TypeOK
  /\ layers_storage!TypeOK
  /\ weight_storage!TypeOK
  /\ previous_layer!TypeOK
  /\ previous_layer_controller!TypeOK
  /\ previous_layer_size!TypeOK
  /\ generator!TypeOK
  /\ processors!TypeOK
  /\ next_layer_mem!TypeOK
  /\ end_reducer!TypeOK
  /\ status \in {"running", "stopped", "aborted"}
=============================================================================
