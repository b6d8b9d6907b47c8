--------------------------- MODULE RefinementProofs ---------------------------
(***************************************************************************)
(* Generator, units and END_REDUCER of the accelerator implement module    *)
(* Dispatch, for every network and any numbers of units and queue places:  *)
(* the controller, the stores and the arithmetic of the units are one of   *)
(* the environments, and of the speeds, that module allows.                *)
(***************************************************************************)
EXTENDS NetworkProofs

(* The accelerator starts as Dispatch does.                                *)
LEMMA DispatchStarts == Init => dispatch!Init
<1> SUFFICES ASSUME Init PROVE dispatch!Init
  OBVIOUS
<1> USE DEF Init
<1>1. data_layer \in Int /\ ctrl_pc = "idle"
  BY DEF layers_storage!Init, controller!Init
<1>2. dispatch!generator!Init
  BY DEF generator!Init, dispatch!generator!Init
<1>3. /\ gen_size = [p \in PC |-> 0]
      /\ contr_empty_bus = [p \in PC |-> TRUE]
      /\ pu_is_working = [p \in PC |-> FALSE]
      /\ pu_queue = [p \in PC |-> << >>]
      /\ pu_number_of_nn = [p \in PC |-> 0]
      /\ \A p \in PC : UnitState(p) = "idle"
  BY DEF processors!Init, processors!All, processors!PC, PC, UnitState
<1>4. dispatch!end_reducer!Init
  BY DEF end_reducer!Init, end_reducer!AllEnded, dispatch!end_reducer!Init,
         dispatch!end_reducer!AllEnded, end_reducer!PC, dispatch!end_reducer!PC
<1> QED BY <1>1, <1>2, <1>3, <1>4 DEF dispatch!Init, dispatch!PC, PC

(* The controller's moves are those of the open controller of Dispatch.    *)
LEMMA DispatchControl ==
  ASSUME TypeOK, TypeOK', DispatchInv, PhaseInv, Edge
  PROVE  dispatch!control
<1>1. data_layer' \in Int
  BY DEF TypeOK, layers_storage!TypeOK
<1>2. Moves
  BY ControllerSteps DEF PhaseInv, Edge
<1>3. ctrl_pc \in {"settle", "cycle"} => UNCHANGED data_layer
  BY CycleKeepsInputs
<1>4. ctrl_pc \in {"idle", "read", "save", "next", "gen", "settle", "cycle",
                   "clear", "clone", "cloned"}
  BY DEF TypeOK, controller!TypeOK
<1>5. CASE ctrl_pc \notin {"gen", "settle", "cycle"}
  <2>1. ctrl_pc' \notin {"settle", "cycle"}
    BY <1>2, <1>4, <1>5 DEF Moves
  <2> QED BY <1>1, <1>5, <2>1 DEF dispatch!control, dispatch!Rest, dispatch!AnySize
<1>6. CASE ctrl_pc = "gen"
  BY <1>1, <1>2, <1>6 DEF Moves, dispatch!control, dispatch!EndStart, dispatch!AnySize
<1>7. CASE ctrl_pc = "settle"
  BY <1>2, <1>3, <1>7 DEF Moves, dispatch!control, dispatch!Settle
<1>8. CASE ctrl_pc = "cycle"
  <2>1. ctrl_pc' = IF cycle_ended THEN "clear" ELSE "cycle"
    BY <1>8 DEF Edge, controller!process, controller!AwaitCycle, controller!StayIdle,
       controller!BeginRead, controller!ReadLayers, controller!StartConv,
       controller!SelectLayer, controller!StartGenerator, controller!EndStart,
       controller!Settle, controller!StartClone, controller!AwaitClone
  <2> QED BY <1>3, <1>8, <2>1 DEF dispatch!control, dispatch!AwaitCycle
<1> QED BY <1>5, <1>6, <1>7, <1>8

(* A unit moves as those of Dispatch do, finishing after its last wait.    *)
LEMMA DispatchUnits ==
  ASSUME TypeOK, DispatchInv, Edge
  PROVE  dispatch!process({p \in PC : pu_pc[p] = "bias2"})
<1> DEFINE done == {p \in PC : pu_pc[p] = "bias2"}
<1> USE DEF Edge, processors!Edge, dispatch!PC, processors!PC, PC
<1>1. \A p \in PC : dispatch!Pushed(p) = processors!Pushed(p)
  BY DEF dispatch!Pushed, dispatch!Accepts, processors!Pushed, processors!Accepts
<1>2. \A p \in PC : dispatch!Takes(p) = processors!Takes(p)
  BY <1>1 DEF dispatch!Takes, processors!Takes, UnitState
<1>3. pu_queue' = [p \in PC |-> IF dispatch!Takes(p) THEN Tail(dispatch!Pushed(p))
                                                     ELSE dispatch!Pushed(p)]
  BY <1>1, <1>2 DEF processors!process
<1>4. pu_number_of_nn' = [p \in PC |-> IF dispatch!Takes(p) THEN Head(dispatch!Pushed(p))
                                                            ELSE pu_number_of_nn[p]]
  BY <1>1, <1>2 DEF processors!process, processors!Neuron
<1>5. pu_is_working' =
        [p \in PC |-> dispatch!Takes(p) \/ (pu_is_working[p] /\ UnitState(p) # "store")]
  BY <1>2 DEF processors!process, processors!Finishes, UnitState
<1>6. ASSUME NEW p \in PC
      PROVE  UnitState(p)' =
               IF dispatch!Takes(p) THEN "busy"
               ELSE IF UnitState(p) = "busy" THEN IF p \in done THEN "store" ELSE "busy"
               ELSE "idle"
  <2>1. pu_pc[p] \in {"idle", "mac1", "mac2", "bias1", "bias2", "store"}
    BY DEF TypeOK, processors!TypeOK
  <2>2. pu_pc'[p] = processors!NextPc(p)
    BY DEF processors!process
  <2>3. UnitState(p)' = IF pu_pc'[p] \in {"idle", "store"} THEN pu_pc'[p] ELSE "busy"
    BY DEF UnitState
  <2>4. CASE processors!AtHead(p)
    <3>1. pu_pc'[p] \in {"mac1", "bias1"}
      BY <2>2, <2>4 DEF processors!NextPc, processors!AtHead, processors!Takes
    <3>2. \/ dispatch!Takes(p)
          \/ ~dispatch!Takes(p) /\ UnitState(p) = "busy" /\ pu_pc[p] # "bias2"
      BY <1>2, <2>4 DEF UnitState, processors!AtHead
    <3> QED BY <2>3, <3>1, <3>2
  <2>5. CASE ~processors!AtHead(p)
    <3>1. ~dispatch!Takes(p) /\ pu_pc[p] # "mac2"
      BY <1>2, <2>5 DEF processors!AtHead
    <3>2. /\ pu_pc[p] = "mac1" => pu_pc'[p] = "mac2"
          /\ pu_pc[p] = "bias1" => pu_pc'[p] = "bias2"
          /\ pu_pc[p] = "bias2" => pu_pc'[p] = "store"
          /\ pu_pc[p] \in {"idle", "store"} => pu_pc'[p] = "idle"
      BY <2>2, <2>5 DEF processors!NextPc
    <3>3. UnitState(p) = IF pu_pc[p] \in {"idle", "store"} THEN pu_pc[p] ELSE "busy"
      BY DEF UnitState
    <3> QED BY <2>1, <2>3, <3>1, <3>2, <3>3
  <2> QED BY <2>4, <2>5
<1>7. dispatch!process(done)
  <2> DEFINE unit == [p \in PC |-> UnitState(p)]
             next(p) == IF dispatch!Takes(p) THEN "busy"
                        ELSE IF unit[p] = "busy" THEN IF p \in done THEN "store" ELSE "busy"
                        ELSE "idle"
  <2>1. \A p \in PC : unit[p] = UnitState(p)
    OBVIOUS
  <2>2. unit' = [p \in PC |-> next(p)]
    BY <1>6, <2>1
  <2>3. pu_is_working' =
          [p \in PC |-> dispatch!Takes(p) \/ (pu_is_working[p] /\ unit[p] # "store")]
    BY <1>5, <2>1
  <2> HIDE DEF done
  <2> QED BY <1>3, <1>4, <2>2, <2>3 DEF dispatch!process
<1> QED BY <1>7

(* Every step of the accelerator is one of Dispatch, or none.              *)
LEMMA DispatchSteps ==
  ASSUME TypeOK, TypeOK', DispatchInv, PhaseInv, [Next]_vars
  PROVE  [dispatch!Edge]_(dispatch!vars)
<1>1. CASE Edge
  <2>1. dispatch!control
    BY <1>1, DispatchControl
  <2>2. dispatch!generator!generate
    <3>1. start_generator <=> ctrl_pc = "gen"
      BY DEF PhaseInv, LineInv
    <3>2. generator!generate
      BY <1>1 DEF Edge
    <3>3. CASE generator!Idle
      BY <3>1, <3>3 DEF generator!Idle, dispatch!generator!generate,
                        dispatch!generator!Idle
    <3>4. CASE generator!Enter \/ generator!Withdraw
      BY <3>4 DEF generator!Enter, generator!Withdraw, dispatch!generator!generate,
                  dispatch!generator!Enter, dispatch!generator!Withdraw
    <3>5. ASSUME NEW p \in PC, generator!Choose(p)
          PROVE  dispatch!generator!Choose(p)
      BY <3>5 DEF generator!Choose, generator!IsMinIndex, dispatch!generator!Choose,
                  dispatch!generator!IsMinIndex, generator!PC, dispatch!generator!PC
    <3> QED BY <3>2, <3>3, <3>4, <3>5 DEF generator!generate, generator!PC, PC,
                                     dispatch!generator!generate, dispatch!generator!PC
  <2>3. dispatch!add_to_queue
    BY <1>1 DEF Edge, processors!Edge, processors!add_to_queue, processors!Pushed,
       processors!Accepts, processors!PC, dispatch!add_to_queue, dispatch!Pushed,
       dispatch!Accepts, dispatch!PC
  <2>4. \E done \in SUBSET dispatch!Computing : dispatch!process(done)
    <3>1. {p \in PC : pu_pc[p] = "bias2"} \in SUBSET dispatch!Computing
      BY DEF dispatch!Computing, UnitState, dispatch!PC, PC
    <3> QED BY <1>1, <3>1, DispatchUnits
  <2>5. dispatch!end_reducer!reduce
    BY <1>1 DEF Edge, end_reducer!reduce, end_reducer!AllEnded, end_reducer!PC,
       dispatch!end_reducer!reduce, dispatch!end_reducer!AllEnded,
       dispatch!end_reducer!PC
  <2> QED BY <2>1, <2>2, <2>3, <2>4, <2>5 DEF dispatch!Edge
<1>2. CASE Abort \/ Over \/ UNCHANGED vars
  <2>1. UNCHANGED <<ctrlVars, storeVars, genVars, puVars, cycle_ended>>
    BY <1>2 DEF Abort, Over, vars
  <2> QED BY <2>1 DEF dispatch!vars, dispatch!ctrlVars, dispatch!genVars,
       dispatch!unitVars, ctrlVars, storeVars, genVars, puVars, UnitState
<1> QED BY <1>1, <1>2 DEF Next

(***************************************************************************)
(* The parts that hand out the neurons of a layer are used in the          *)
(* accelerator as Dispatch supposes (controller.cpp:108-123), so whatever  *)
(* is shown of Dispatch, for any sizes and any speed of the units, holds   *)
(* of the accelerator (ImplementsDispatch).                                *)
(***************************************************************************)
THEOREM DispatchImplemented == Spec => ImplementsDispatch
<1>1. /\ TypeOK /\ DispatchInv /\ PhaseInv /\ [Next]_vars /\ TypeOK'
      => [dispatch!Edge]_(dispatch!vars)
  BY DispatchSteps
<1> QED BY <1>1, DispatchStarts, TypeCorrect, DispatchInvariant, PhaseInvariant, PTL
        DEF Spec, ImplementsDispatch, dispatch!Safety

----------------------------------------------------------------------------
(***************************************************************************)
(* The printing.  A word is on the bus at the edge after PREVIOUS_LAYER    *)
(* has driven it, and printed at that edge; from the first word on there   *)
(* is one on the bus at each edge, until the simulation stops.  Before     *)
(* that a write on the bus is one of IO's own, made while it transmits.    *)
(***************************************************************************)
Showing(k) ==
  /\ wr_to_io_ctrl_mem_bus /\ wr_io_bus
  /\ k <= Len(prev_memory)
  /\ data_io_bus = prev_memory[k]
  /\ io_results = Prefix(prev_memory, k - 1)

PrintInv ==
  /\ io_beat > 0 => files.opened
  /\ io_transmit <=> io_beat \in 1 .. Len(io_module!Beats)
  /\ prev_index_to_out = 0 => io_results = << >> /\ (wr_io_bus => io_transmit)
  /\ status = "running" /\ prev_index_to_out > 0 => Showing(prev_index_to_out)

(* What an edge prints and drives, with k words shown before.              *)
Quiet(k) ==
  /\ ~wr_to_io_ctrl_mem_bus
  /\ k = 0 /\ prev_index_to_out' = 0
  /\ io_results' = io_results
  /\ status' = "running"

Shows(k) ==
  /\ wr_to_io_ctrl_mem_bus
  /\ io_results' = Prefix(prev_memory, k)
  /\ \/ /\ k < Len(prev_memory)
        /\ prev_index_to_out' = k + 1
        /\ data_io_bus' = prev_memory[k + 1] /\ wr_io_bus'
        /\ status' = "running"
     \/ /\ k >= Len(prev_memory)
        /\ prev_index_to_out' = k
        /\ status' = "stopped"

(* Nothing moves under PREVIOUS_LAYER while it shows its words.            *)
LEMMA ShownKept ==
  ASSUME TypeOK, PhaseInv, Edge, write_out_controller_bus
  PROVE  /\ ctrl_pc = "idle" /\ Started /\ controller!StayIdle
         /\ addr_io_bus = 0 /\ io_beat > Len(io_module!Beats)
         /\ ~clr_prev_layer_ctrl_mem_bus /\ ~wr_to_mem_from_mem_ctrl_mem_bus
         /\ prev_memory' = prev_memory
<1>1. ctrl_pc = "idle" /\ Started
  BY DEF PhaseInv, StartInv, Started
<1>2. controller!StayIdle
  BY ShownRests DEF Edge
<1>3. addr_io_bus = 0 /\ io_beat > Len(io_module!Beats)
  BY <1>1, AfterStart
<1>4. ~clr_prev_layer_ctrl_mem_bus /\ ~wr_to_mem_from_mem_ctrl_mem_bus
  BY <1>1 DEF PhaseInv, CloneInv
<1> QED BY <1>1, <1>2, <1>3, <1>4, CopyTarget

LEMMA EdgePrints ==
  ASSUME TypeOK, PhaseInv, PrintInv, Edge
  PROVE  Quiet(prev_index_to_out) \/ Shows(prev_index_to_out)
<1> DEFINE k == prev_index_to_out
<1>1. k \in Nat /\ prev_memory \in Seq(Number) /\ status = "running" /\ io_beat \in Nat
  BY Numbers DEF TypeOK, previous_layer!TypeOK, io_module!TypeOK, Edge
<1>2. io_results' = IF ~io_transmit /\ wr_io_bus THEN Append(io_results, data_io_bus)
                                                 ELSE io_results
  BY DEF Edge, io_module!Edge, io_module!read_data_from_system
<1>3. CASE ~wr_to_io_ctrl_mem_bus
  <2>1. k = 0
    BY <1>1, <1>3 DEF PrintInv, Showing
  <2>2. io_results' = io_results
    BY <1>2, <2>1 DEF PrintInv
  <2>3. prev_index_to_out' = 0 /\ status' = "running"
    BY <1>3, <2>1 DEF Edge, PreviousLayerEdge, previous_layer!Edge, previous_layer!Indices,
       previous_layer!issue_element_IO, previous_layer!Drives, previous_layer!Stops
  <2> QED BY <1>3, <2>1, <2>2, <2>3 DEF Quiet
<1>4. CASE wr_to_io_ctrl_mem_bus
  <2>1. write_out_controller_bus
    BY <1>4 DEF PhaseInv, StartInv
  <2>2. /\ ~clr_prev_layer_ctrl_mem_bus /\ ~wr_to_mem_from_mem_ctrl_mem_bus
        /\ addr_io_bus = 0 /\ prev_memory' = prev_memory
    BY <2>1, ShownKept
  <2>3. ~io_transmit
    <3>1. io_beat > Len(io_module!Beats) /\ Len(io_module!Beats) \in Nat
      BY <2>1, ShownKept, BeatsShape DEF TypeOK
    <3> QED BY <1>1, <3>1 DEF PrintInv
  <2>4. io_results' = Prefix(prev_memory, k)
    <3>1. CASE k = 0
      <4>1. io_results' = << >>
        BY <1>2, <2>3, <3>1 DEF PrintInv
      <4>2. Prefix(prev_memory, 0) = << >>
        BY <1>1, PrefixGrows
      <4> QED BY <3>1, <4>1, <4>2
    <3>2. CASE k > 0
      <4>1. Showing(k)
        BY <1>1, <3>2 DEF PrintInv
      <4>2. /\ io_results' = Append(Prefix(prev_memory, k - 1), prev_memory[k])
            /\ k \in 1 .. Len(prev_memory)
        BY <1>1, <1>2, <2>3, <3>2, <4>1 DEF Showing
      <4>3. k - 1 \in Int /\ (k - 1) + 1 = k
        BY <1>1
      <4> QED BY <1>1, <4>2, <4>3, PrefixGrows
    <3> QED BY <1>1, <3>1, <3>2
  <2>5. /\ previous_layer!Views = {prev_memory} /\ previous_layer!Indices = {k}
    BY <2>2 DEF previous_layer!Views, previous_layer!Indices, previous_layer!Added,
                previous_layer!Cleared, previous_layer!Push
  <2>6. /\ previous_layer!Edge(prev_memory, k)
        /\ status' = IF previous_layer!Stops(prev_memory, k) THEN "stopped" ELSE "running"
    BY <2>5 DEF Edge, PreviousLayerEdge
  <2>7. ASSUME Len(prev_memory) > k PROVE Shows(k)
    <3> HIDE DEF k
    <3> QED BY <1>1, <1>4, <2>2, <2>4, <2>6, <2>7 DEF Shows, previous_layer!Edge,
       previous_layer!issue_element_IO, previous_layer!Drives, previous_layer!Stops
  <2>8. ASSUME ~(Len(prev_memory) > k) PROVE Shows(k)
    <3> HIDE DEF k
    <3> QED BY <1>1, <1>4, <2>2, <2>4, <2>6, <2>8 DEF Shows, previous_layer!Edge,
       previous_layer!issue_element_IO, previous_layer!Drives, previous_layer!Stops
  <2> QED BY <2>7, <2>8
<1> QED BY <1>3, <1>4

LEMMA StepPrint ==
  ASSUME TypeOK, PhaseInv, PrintInv, [Next]_vars
  PROVE  PrintInv'
<1>1. CASE Edge
  <2> DEFINE k == prev_index_to_out
             n == Len(io_module!Beats)
  <2>1. /\ k \in Nat /\ prev_memory \in Seq(Number) /\ io_beat \in Nat /\ n \in Nat \ {0}
        /\ files' = files
    BY <1>1, Numbers, BeatsShape DEF TypeOK, previous_layer!TypeOK, io_module!TypeOK, Edge
  <2>2. n' = n
    BY <1>1 DEF Edge, io_module!Beats, io_module!At, io_module!SizesAsFloats,
       io_module!LayersCount, io_module!LayerSizes, io_module!Weights
  <2> HIDE DEF n
  <2>3. io_module!Send \/ io_module!Finish \/ io_module!Ended
    BY <1>1 DEF Edge, io_module!Edge, io_module!write_data_to_system
  <2>4. io_beat' > 0 => files'.opened
    BY <2>1, <2>3 DEF PrintInv, io_module!Send, io_module!LoadFails, io_module!Finish,
                      io_module!Ended, n
  <2>5. io_transmit' <=> io_beat' \in 1 .. n
    BY <2>1, <2>3 DEF PrintInv, io_module!Send, io_module!Finish, io_module!Ended, n
  <2>6. CASE Quiet(k)
    <3>1. k = 0 /\ prev_index_to_out' = 0 /\ io_results' = << >> /\ ~wr_to_io_ctrl_mem_bus
      BY <2>6 DEF Quiet, PrintInv
    <3>2. wr_io_bus' => io_transmit'
      <4>1. CASE io_module!Ended
        <5>1. io_beat > n /\ io_transmit' = io_transmit
          BY <4>1 DEF io_module!Ended, n
        <5>2. ~io_transmit /\ ~wr_io_bus
          BY <2>1, <3>1, <5>1 DEF PrintInv, n
        <5>3. HoldBus(FALSE)
          BY <1>1, <3>1 DEF Edge, PreviousLayerEdge, previous_layer!Drives
        <5>4. wr_io_bus' = wr_io_bus
          BY <2>1, <5>1, <5>3 DEF HoldBus, io_module!DrivesWr, n
        <5> QED BY <5>2, <5>4
      <4> QED BY <2>3, <4>1 DEF io_module!Send, io_module!Finish
    <3> QED BY <2>2, <2>4, <2>5, <3>1, <3>2 DEF PrintInv, n
  <2>7. CASE Shows(k)
    <3>1. wr_to_io_ctrl_mem_bus /\ write_out_controller_bus
      BY <2>7 DEF Shows, PhaseInv, StartInv
    <3>2. wr_to_io_ctrl_mem_bus' /\ prev_memory' = prev_memory
      BY <1>1, <3>1, ShownKept DEF Edge, previous_layer_controller!Edge,
                                   previous_layer_controller!write_out_to_IO
    <3>3. CASE k < Len(prev_memory)
      <4>1. /\ prev_index_to_out' = k + 1 /\ io_results' = Prefix(prev_memory, k)
            /\ data_io_bus' = prev_memory[k + 1] /\ wr_io_bus'
        BY <2>1, <2>7, <3>3 DEF Shows
      <4>2. k + 1 > 0 /\ (k + 1) - 1 = k /\ k + 1 <= Len(prev_memory) /\ k + 1 # 0
        BY <2>1, <3>3
      <4>3. prev_index_to_out' # 0 /\ prev_index_to_out' - 1 = k
        BY <4>1, <4>2
      <4>4. Showing(prev_index_to_out)'
        BY <3>2, <4>1, <4>2, <4>3 DEF Showing
      <4> QED BY <2>2, <2>4, <2>5, <4>3, <4>4 DEF PrintInv, n
    <3>4. CASE ~(k < Len(prev_memory))
      <4>1. prev_index_to_out' = k /\ status' = "stopped" /\ io_results' = Prefix(prev_memory, k)
        BY <2>1, <2>7, <3>4 DEF Shows
      <4>2. k = 0 => io_results' = << >>
        BY <2>1, <4>1, PrefixGrows
      <4>3. k = 0 => (wr_io_bus' => io_transmit')
        <5> SUFFICES ASSUME k = 0 PROVE ~wr_io_bus'
          OBVIOUS
        <5>1. io_beat > n /\ io_module!Ended
          BY <1>1, <2>1, <2>3, <3>1, ShownKept DEF io_module!Send, io_module!Finish, n
        <5>2. ~wr_io_bus
          BY <2>1, <5>1 DEF PrintInv, n
        <5>3. HoldBus(FALSE)
          <6>1. /\ ~clr_prev_layer_ctrl_mem_bus /\ ~wr_to_mem_from_mem_ctrl_mem_bus
                /\ addr_io_bus = 0
            BY <1>1, <3>1, ShownKept
          <6>2. previous_layer!Views = {prev_memory} /\ previous_layer!Indices = {k}
            BY <3>2, <6>1 DEF previous_layer!Views, previous_layer!Indices,
               previous_layer!Added, previous_layer!Cleared, previous_layer!Push
          <6>3. HoldBus(previous_layer!Drives(prev_memory, k))
            BY <1>1, <6>2 DEF Edge, PreviousLayerEdge
          <6>4. previous_layer!Drives(prev_memory, k) = FALSE
            BY <2>1, <3>4 DEF previous_layer!Drives
          <6> QED BY <6>3, <6>4
        <5> QED BY <2>1, <5>1, <5>2, <5>3 DEF HoldBus, io_module!DrivesWr, n
      <4> QED BY <2>2, <2>4, <2>5, <4>1, <4>2, <4>3 DEF PrintInv, n
    <3> QED BY <3>3, <3>4
  <2> QED BY <1>1, <2>6, <2>7, EdgePrints
<1>2. CASE Abort \/ Over \/ UNCHANGED vars
  <2>1. /\ UNCHANGED <<ioVars, prevVars, plcVars>>
        /\ status' = "running" => status = "running"
    BY <1>2 DEF Abort, Over, vars
  <2>2. Len(io_module!Beats)' = Len(io_module!Beats)
    BY <2>1 DEF ioVars, io_module!Beats, io_module!At, io_module!SizesAsFloats,
       io_module!LayersCount, io_module!LayerSizes, io_module!Weights
  <2> QED BY <2>1, <2>2 DEF PrintInv, Showing, Prefix, ioVars, prevVars, plcVars
<1> QED BY <1>1, <1>2 DEF Next

(* Nothing is printed before the last layer has been computed, and then    *)
(* the words of PREVIOUS_LAYER are, one per edge.                          *)
THEOREM PrintInvariant == Spec => []PrintInv
<1>1. Init => PrintInv
  <2> SUFFICES ASSUME Init PROVE PrintInv
    OBVIOUS
  <2>1. /\ io_beat = 0 /\ ~io_transmit /\ io_results = << >> /\ ~wr_io_bus
        /\ prev_index_to_out = 0
    BY DEF Init, io_module!Init, previous_layer!Init
  <2>2. Len(io_module!Beats) \in Nat
    BY BeatsShape DEF Init
  <2> QED BY <2>1, <2>2 DEF PrintInv
<1> QED BY <1>1, StepPrint, TypeCorrect, PhaseInvariant, PTL DEF Spec

----------------------------------------------------------------------------
(* No unit shows a result: NEXT_LAYER keeps its words.                     *)
LEMMA NobodyWrites ==
  ASSUME TypeOK, Edge, \A p \in PC : ~resmem_w_bus[p]
  PROVE  next_memory' = next_memory
<1>1. next_memory \in [0 .. MEM_SIZE - 1 -> Number]
  BY Numbers DEF TypeOK, next_layer_mem!TypeOK
<1>2. \A a : next_layer_mem!Writers(a) = {}
  BY DEF next_layer_mem!Writers, next_layer_mem!PC, PC
<1> QED BY <1>1, <1>2 DEF Edge, next_layer_mem!Edge, next_layer_mem!add_to_memory,
                          next_layer_mem!Written

(* The end of a cycle is the step that computes a layer.                   *)
Computes ==
  /\ Started /\ layer < Layers /\ ~wr_to_io_ctrl_mem_bus
  /\ layer' = layer + 1
  /\ acts' = [n \in 1 .. feed_forward!Size(layer + 1) |-> feed_forward!Neuron(n - 1)]

LEMMA CycleComputes ==
  ASSUME TypeOK, DispatchInv, PhaseInv, CopyInv, LoadedInv, SelectInv, Fitting, AccountInv,
         Edge, ctrl_pc = "cycle", ctrl_pc' = "clear"
  PROVE  Computes
<1>1. /\ layer = ctrl_i + 1 /\ layer \in Nat \ {0} /\ layer + 1 <= Layers
      /\ data_layer = feed_forward!Size(layer + 1)
  BY CycleLayer DEF CopyInv
<1>2. end_reducer!AllEnded
  BY ControllerSteps DEF PhaseInv, Edge, Moves, DispatchInv
<1>3. /\ ~gen_write /\ gen_end
      /\ \A p \in PC : pu_queue[p] = << >> /\ ~Busy(p) /\ ~resmem_w_bus[p]
  BY <1>2, AtRest DEF end_reducer!AllEnded
<1>4. data_layer' = data_layer /\ next_memory' = next_memory
  BY <1>3, SizeKept, NobodyWrites DEF CopyInv
<1>5. ctrl_i' = ctrl_i /\ ctrl_i \in Nat
  BY DEF Edge, controller!process, controller!StayIdle, controller!BeginRead,
         controller!ReadLayers, controller!StartConv, controller!SelectLayer,
         controller!StartGenerator, controller!EndStart, controller!Settle,
         controller!AwaitCycle, controller!StartClone, controller!AwaitClone,
         controller!loop, TypeOK, controller!TypeOK
<1>6. \A n \in 0 .. data_layer - 1 : next_memory[n] = feed_forward!Neuron(n)
  <2>1. \A p \in PC : Held(p) = << >>
    BY <1>3 DEF Held, Hand, processors!Pushed, processors!Accepts
  <2>2. \A n : ~IsHeld(n)
    BY <2>1 DEF IsHeld
  <2> QED BY <1>3, <2>2 DEF AccountInv, Stored, HandedOut
<1>7. layer' = layer + 1 /\ Started /\ ~wr_to_io_ctrl_mem_bus
  BY <1>1, <1>5 DEF layer, Copying, Started, PhaseInv, StartInv
<1>8. acts' = [n \in 1 .. data_layer' |-> next_memory'[n - 1]]
  BY DEF acts, Started, Copying
<1>9. data_layer \in Nat
  BY <1>1, FittingSizes
<1>10. acts' = [n \in 1 .. data_layer |-> feed_forward!Neuron(n - 1)]
  <2>1. \A n \in 1 .. data_layer : next_memory[n - 1] = feed_forward!Neuron(n - 1)
    BY <1>6, <1>9
  <2> QED BY <1>4, <1>8, <2>1
<1>11. Layers \in Nat
  BY FileTypes DEF TypeOK
<1> QED BY <1>1, <1>7, <1>10, <1>11 DEF Computes

(* Every other step leaves the layer reached and its activations alone,    *)
(* though they move from one memory to another.                            *)
LEMMA ActsKept ==
  ASSUME TypeOK, DispatchInv, PhaseInv, CopyInv, LoadedInv, LoadedInv', SelectInv, SelectInv',
         Fitting, Edge, ~(ctrl_pc = "cycle" /\ ctrl_pc' = "clear")
  PROVE  acts' = acts /\ layer' = layer
<1>1. Moves /\ files' = files /\ ctrl_i \in Nat
  BY ControllerSteps DEF PhaseInv, Edge, TypeOK, controller!TypeOK
<1>2. CASE ~Started'
  <2>1. ~Started
    BY <1>2, StartedStays
  <2>2. ctrl_i = 0 /\ ctrl_i' = 0 /\ ~Copying /\ ~Copying'
    BY <1>2, <2>1 DEF SelectInv, Started, Copying
  <2> QED BY <1>1, <1>2, <2>1, <2>2 DEF acts, layer
<1>3. CASE ~Started /\ Started'
  <2>1. ctrl_pc = "idle" /\ controller!Sampled = "START_CONV"
    BY <1>1, <1>3 DEF Moves
  <2>2. controller!StartConv
    BY <2>1 DEF Edge, controller!process, controller!StayIdle, controller!BeginRead,
       controller!ReadLayers, controller!SelectLayer, controller!StartGenerator,
       controller!EndStart, controller!Settle, controller!AwaitCycle,
       controller!StartClone, controller!AwaitClone
  <2>3. ctrl_i' = 0 /\ ctrl_pc' \in {"save", "idle"} /\ ctrl_i = 0
    BY <1>3, <2>2 DEF controller!StartConv, controller!NextLayerOrEnd, controller!Rest,
                      SelectInv
  <2>4. ~Copying /\ ~Copying' /\ layer' = layer
    BY <2>1, <2>3 DEF Copying, layer
  <2>5. prev_memory' = files.picture
    BY <1>1, <1>3, <2>3, <2>4 DEF LoadedInv, Picture
  <2> QED BY <1>3, <2>4, <2>5 DEF acts
<1>4. CASE Started /\ write_out_controller_bus
  <2>1. ctrl_pc = "idle" /\ controller!StayIdle /\ prev_memory' = prev_memory
    BY <1>4, ShownKept
  <2>2. ctrl_pc' = "idle" /\ ctrl_i' = ctrl_i /\ Started'
    BY <1>4, <2>1, StartedStays DEF controller!StayIdle, controller!Rest
  <2> QED BY <1>4, <2>1, <2>2 DEF acts, layer, Copying
<1>5. CASE Started /\ ~write_out_controller_bus
  <2>1. Started' /\ ctrl_pc \notin {"idle", "read"} /\ ~controller!StartConv
    BY <1>5, StartedStays DEF Started, controller!StartConv
  <2>2. CASE controller!AwaitClone /\ end_clone_controller_bus
    <3>1. /\ ctrl_pc = "cloned" /\ plc_pc = "idle" /\ ~wr_to_mem_from_mem_ctrl_mem_bus
          /\ ~clr_prev_layer_ctrl_mem_bus
      BY <2>2 DEF PhaseInv, CloneInv
    <3>2. prev_memory' = prev_memory
      BY <1>5, <3>1, CopyTarget
    <3>3. ctrl_i' = ctrl_i + 1 /\ ctrl_pc' \in {"save", "idle"}
      BY <2>2 DEF controller!AwaitClone, controller!NextLayerOrEnd, controller!Rest
    <3>4. Copying /\ ~Copying' /\ layer' = layer
      BY <1>1, <3>1, <3>3 DEF Copying, layer
    <3>5. data_layer <= MEM_SIZE
      <4>1. layers_memory = Sizes /\ data_layer = SizeAt(layers_index)
            /\ layers_index = ctrl_i + 1
        BY <1>5, <3>1 DEF LoadedInv, PhaseInv, SizeInv, SelectInv
      <4>2. data_layer = feed_forward!Size((ctrl_i + 1) + 1)
        BY <1>1, <4>1, SizesStored
      <4>3. (ctrl_i + 1) + 1 \in Nat \ {0} /\ (ctrl_i + 1) + 1 >= 2
        BY <1>1
      <4> QED BY <4>2, <4>3, FittingSizes
    <3>6. prev_memory = Copied(data_layer)
      BY <2>2, <3>5 DEF CopyInv, PipelineInv
    <3> QED BY <1>5, <2>1, <3>2, <3>4, <3>6 DEF acts, Copied
  <2>3. CASE ~(controller!AwaitClone /\ end_clone_controller_bus)
    <3>1. ctrl_i' = ctrl_i
      BY <2>1, <2>3 DEF Edge, controller!process, controller!StayIdle,
         controller!BeginRead, controller!ReadLayers, controller!SelectLayer,
         controller!StartGenerator, controller!EndStart, controller!Settle,
         controller!AwaitCycle, controller!StartClone, controller!AwaitClone,
         controller!loop
    <3>2. CASE Copying
      <4>1. ctrl_pc \in {"clear", "clone", "cloned"}
        BY <3>2 DEF Copying
      <4>2. ctrl_pc' \in {"clone", "cloned"}
        BY <2>1, <2>3, <4>1 DEF Edge, controller!process, controller!StayIdle,
           controller!BeginRead, controller!ReadLayers, controller!SelectLayer,
           controller!StartGenerator, controller!EndStart, controller!Settle,
           controller!AwaitCycle, controller!StartClone, controller!AwaitClone
      <4>3. data_layer' = data_layer /\ next_memory' = next_memory
        BY <4>1, SizeKept, CopySource DEF CopyInv
      <4> QED BY <1>5, <2>1, <3>1, <3>2, <4>2, <4>3 DEF acts, layer, Copying
    <3>3. CASE ~Copying
      <4>1. ~Copying'
        BY <1>1, <2>1, <3>3 DEF Moves, Copying, TypeOK, controller!TypeOK
      <4>2. prev_memory' = prev_memory
        <5>1. ~clr_prev_layer_ctrl_mem_bus /\ ~wr_to_mem_from_mem_ctrl_mem_bus
          BY <3>3 DEF PhaseInv, CloneInv, Copying
        <5> QED BY <1>5, <5>1, CopyTarget
      <4> QED BY <1>5, <2>1, <3>1, <3>3, <4>1, <4>2 DEF acts, layer
    <3> QED BY <3>2, <3>3
  <2> QED BY <2>2, <2>3
<1> QED BY <1>2, <1>3, <1>4, <1>5

(* An edge on which a word is shown prints the one before, or stops.       *)
LEMMA ShowsPrints ==
  ASSUME TypeOK, PhaseInv, LoadedInv, SelectInv, PrintInv, Edge, Shows(prev_index_to_out),
         acts' = acts, layer' = layer
  PROVE  [feed_forward!Next]_(feed_forward!vars)
<1> DEFINE k == prev_index_to_out
<1>1. k \in Nat /\ prev_memory \in Seq(Number) /\ status = "running" /\ files' = files
      /\ ctrl_i \in Nat /\ io_beat \in Nat
  BY Numbers DEF TypeOK, previous_layer!TypeOK, controller!TypeOK, io_module!TypeOK, Edge
<1>2. wr_to_io_ctrl_mem_bus /\ write_out_controller_bus
  BY DEF Shows, PhaseInv, StartInv
<1>3. ctrl_pc = "idle" /\ Started /\ io_beat > Len(io_module!Beats)
  BY <1>2, ShownKept
<1>4. acts = prev_memory /\ feed_forward!Computed
  <2>1. acts = prev_memory /\ layer = ctrl_i + 1
    BY <1>3 DEF acts, layer, Copying
  <2>2. ctrl_i + 1 >= Layers
    BY <1>2 DEF SelectInv
  <2>3. feed_forward!LayersCount(files.config) = Layers
    BY SameTerms DEF Layers
  <2> QED BY <2>1, <2>2, <2>3 DEF feed_forward!Computed
<1>5. files.opened
  <2>1. Len(io_module!Beats) \in Nat
    BY BeatsShape DEF TypeOK
  <2> QED BY <1>1, <1>3, <2>1 DEF PrintInv
<1>6. io_results' = Prefix(prev_memory, k)
  BY DEF Shows
<1>7. k > 0 => io_results = Prefix(prev_memory, k - 1) /\ k <= Len(prev_memory)
  BY <1>1 DEF PrintInv, Showing
<1>8. k = 0 => io_results = << >> /\ Prefix(prev_memory, k) = << >>
  BY <1>1, PrefixGrows DEF PrintInv
<1>9. status' = IF k < Len(prev_memory) THEN "running" ELSE "stopped"
  BY <1>1 DEF Shows
<1> HIDE DEF k
<1>10. CASE k = 0 /\ Len(prev_memory) > 0
  BY <1>1, <1>6, <1>8, <1>9, <1>10 DEF feed_forward!vars
<1>11. CASE k = 0 /\ Len(prev_memory) = 0
  <2>1. feed_forward!Finish
    BY <1>1, <1>4, <1>5, <1>6, <1>8, <1>9, <1>11 DEF feed_forward!Finish
  <2> QED BY <2>1 DEF feed_forward!Next
<1>12. CASE k > 0
  <2>1. k \in 1 .. Len(prev_memory) /\ k - 1 \in Int /\ (k - 1) + 1 = k
    BY <1>1, <1>7, <1>12
  <2>2. io_results' = Append(io_results, prev_memory[k])
    <3>1. Prefix(prev_memory, (k - 1) + 1) = Append(Prefix(prev_memory, k - 1),
                                                    prev_memory[(k - 1) + 1])
      BY <1>1, <2>1, PrefixGrows
    <3> QED BY <1>6, <1>7, <1>12, <2>1, <3>1
  <2>3. Len(Prefix(prev_memory, k - 1)) = k - 1 /\ Len(Prefix(prev_memory, k)) = k
    BY <1>1, <2>1 DEF Prefix
  <2>4. Len(io_results) = k - 1 /\ Len(io_results') = k
    BY <1>6, <1>7, <1>12, <2>3
  <2>5. status' \in {"running"} \union
                    (IF Len(io_results') = Len(acts) THEN {"stopped"} ELSE {})
    BY <1>1, <1>4, <1>9, <2>1, <2>4
  <2>6. /\ Len(io_results) < Len(acts)
        /\ io_results' = Append(io_results, acts[Len(io_results) + 1])
    BY <1>1, <1>4, <2>1, <2>2, <2>4
  <2>7. feed_forward!PrintWord
    BY <1>1, <1>4, <1>5, <2>5, <2>6 DEF feed_forward!PrintWord
  <2> QED BY <2>7 DEF feed_forward!Next
<1>13. Len(prev_memory) \in Nat
  BY <1>1
<1> QED BY <1>1, <1>10, <1>11, <1>12, <1>13

(* Every step of the accelerator is one of FeedForward, or none.           *)
LEMMA FeedForwardSteps ==
  ASSUME TypeOK, DispatchInv, PhaseInv, CopyInv, LoadedInv, LoadedInv', SelectInv, SelectInv',
         NetworkInv, PrintInv, Fitting, [Next]_vars
  PROVE  [feed_forward!Next]_(feed_forward!vars)
<1>1. CASE Edge
  <2>1. CASE ctrl_pc = "cycle" /\ ctrl_pc' = "clear"
    <3>1. Computes
      BY <1>1, <2>1, CycleComputes DEF NetworkInv
    <3>2. Quiet(prev_index_to_out)
      BY <1>1, <3>1, EdgePrints DEF Computes, Shows
    <3>3. files' = files /\ io_results' = io_results /\ status = "running" /\ status' = "running"
      BY <1>1, <3>2 DEF Quiet, Edge
    <3>4. files.opened
      <4>1. io_beat > Len(io_module!Beats) /\ Len(io_module!Beats) \in Nat /\ io_beat \in Nat
        BY <3>1, AfterStart, BeatsShape DEF Computes, TypeOK, io_module!TypeOK
      <4> QED BY <4>1 DEF PrintInv
    <3>5. ~feed_forward!Computed
      <4>1. feed_forward!LayersCount(files.config) = Layers
        BY SameTerms DEF Layers
      <4>2. layer \in Int /\ Layers \in Int
        BY FileTypes DEF layer, TypeOK, controller!TypeOK
      <4> QED BY <3>1, <4>1, <4>2 DEF Computes, feed_forward!Computed
    <3>6. feed_forward!Compute
      BY <3>1, <3>3, <3>4, <3>5 DEF feed_forward!Compute, Computes
    <3> QED BY <3>6 DEF feed_forward!Next
  <2>2. CASE ~(ctrl_pc = "cycle" /\ ctrl_pc' = "clear")
    <3>1. acts' = acts /\ layer' = layer
      BY <1>1, <2>2, ActsKept
    <3>2. CASE Quiet(prev_index_to_out)
      BY <1>1, <3>1, <3>2 DEF Quiet, Edge, feed_forward!vars
    <3>3. CASE Shows(prev_index_to_out)
      BY <1>1, <3>1, <3>3, ShowsPrints
    <3> QED BY <1>1, <3>2, <3>3, EdgePrints
  <2> QED BY <2>1, <2>2
<1>2. CASE Abort \/ Over \/ UNCHANGED vars
  <2>1. UNCHANGED <<ioVars, ctrlVars, storeVars, prevVars, nextVars>>
    BY <1>2 DEF Abort, Over, vars
  <2>2. UNCHANGED <<files, layer, acts, io_results>>
    BY <2>1 DEF ioVars, ctrlVars, storeVars, prevVars, nextVars, layer, acts, Started,
                Copying, write_out_controller_bus
  <2>3. CASE Abort
    BY <2>2, <2>3 DEF Abort, io_module!LoadFails, feed_forward!Abort, feed_forward!Next
  <2>4. CASE Over \/ UNCHANGED vars
    BY <2>2, <2>4 DEF Over, vars, feed_forward!vars
  <2> QED BY <1>2, <2>3, <2>4
<1> QED BY <1>1, <1>2 DEF Next

(***************************************************************************)
(* The accelerator computes the network: for every network that fits the   *)
(* memory and every number of units and queue places, the layers and then  *)
(* the printed words are those of FeedForward, in its order, and the       *)
(* simulation stops only after the last of them.                           *)
(***************************************************************************)
THEOREM NetworkImplemented == Spec => (Fitting => feed_forward!Safety)
<1>1. Init => feed_forward!Init
  <2> SUFFICES ASSUME Init PROVE feed_forward!Init
    OBVIOUS
  <2>1. /\ files \in Inputs /\ status = "running" /\ io_results = << >>
        /\ ctrl_pc = "idle" /\ ctrl_high = {} /\ ctrl_i = 0
    BY DEF Init, io_module!Init, controller!Init
  <2>2. ~Started /\ ~Copying
    BY <2>1 DEF Started, Copying, write_out_controller_bus
  <2> QED BY <2>1, <2>2 DEF feed_forward!Init, layer, acts
<1>2. Fitting /\ [Next]_vars => Fitting'
  <2> SUFFICES ASSUME Fitting, [Next]_vars PROVE Fitting'
    OBVIOUS
  <2>1. files' = files
    BY DEF Next, Edge, Abort, Over, ioVars, vars
  <2> QED BY <2>1 DEF Fitting, Layers, Sizes
<1> QED BY <1>1, <1>2, FeedForwardSteps, TypeCorrect, DispatchInvariant, PhaseInvariant,
           CopyInvariant, LoadedInvariant, SelectInvariant, NetworkInvariant,
           PrintInvariant, PTL DEF Spec, feed_forward!Safety
=============================================================================
