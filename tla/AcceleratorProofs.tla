-------------------------- MODULE AcceleratorProofs --------------------------
(***************************************************************************)
(* Theorems about the whole accelerator, for every number of units, queue  *)
(* capacity, memory size and all input files: types, dispatch, the phases  *)
(* of a run and its handshakes, and the balance of the queues.             *)
(* Definitions of the modules are cited through their instances            *)
(* (processors!PC is PC, and so on).                                       *)
(***************************************************************************)
EXTENDS AcceleratorProperties, SequenceTheorems, WellFoundedInduction,
        FiniteSetTheorems, TLAPS

Beat == {b \in [addr : 0 .. 3, data : Float] : b.addr # 0 => b.data \in Number}

(* Every operation on float values yields a float value.                   *)
LEMMA FloatTypes ==
  /\ PosInf \in Float /\ NegInf \in Float /\ Uninit \in Float
  /\ \A n \in Int : OfInt(n) \in Float
  /\ \A v \in Float : ToInt(v) \in Int
  /\ \A u, v, w \in Float :
       /\ Mac(u, v, w) \in Float
       /\ AddBias(u, v) \in Float
       /\ sigmoid(u) \in Float
<1>1. \A n \in Int : <<n>> \in Float
  BY DEF Float
<1>2. \A n \in Int : OfInt(n) \in Float
  BY DEF Float, OfInt
<1>3. \A v \in Float : ToInt(v) \in Int
  BY DEF Float, ToInt
<1>4. \A u, v \in Float : u \o v \in Float
  BY DEF Float
<1>5. PosInf \in Float /\ NegInf \in Float /\ Uninit \in Float
  BY <1>1 DEF PosInf, NegInf, Uninit
<1>6. \A u, v, w \in Float : Mac(u, v, w) \in Float
  BY <1>1, <1>4 DEF Mac
<1>7. \A u, v, w \in Float : AddBias(u, v) \in Float
  BY <1>1, <1>4 DEF AddBias
<1>8. \A u, v, w \in Float : sigmoid(u) \in Float
  BY <1>1, <1>4 DEF sigmoid
<1> QED BY <1>2, <1>3, <1>5, <1>6, <1>7, <1>8

(* What is shown to be a number, and that all modules mean the same by it. *)
LEMMA Numbers ==
  /\ Number \subseteq Float
  /\ Uninit \in Number
  /\ \A n \in Int : OfInt(n) \in Number
  /\ \A v \in Float : sigmoid(v) \in Number
  /\ io_module!Number = Number /\ previous_layer!Number = Number
  /\ processors!Number = Number /\ next_layer_mem!Number = Number
<1>1. Uninit \in Number /\ \A n \in Int : OfInt(n) \in Number
  BY FloatTypes DEF Number, Uninit, PosInf, NegInf, OfInt
<1>2. ASSUME NEW v \in Float
      PROVE  sigmoid(v) \in Number
  <2>1. sigmoid(v) \in Float /\ Len(sigmoid(v)) = Len(v) + 2 /\ Len(v) \in Nat
    BY FloatTypes DEF sigmoid, Float
  <2>2. Len(sigmoid(v)) # 1
    BY <2>1
  <2>3. sigmoid(v) # PosInf /\ sigmoid(v) # NegInf
    BY <2>2 DEF PosInf, NegInf
  <2> QED BY <2>1, <2>3 DEF Number
<1>3. /\ io_module!Number = Number /\ previous_layer!Number = Number
      /\ processors!Number = Number /\ next_layer_mem!Number = Number
  BY DEF Number, Float, PosInf, NegInf,
         io_module!Number, io_module!Float, io_module!PosInf, io_module!NegInf,
         previous_layer!Number, previous_layer!Float, previous_layer!PosInf,
         previous_layer!NegInf, processors!Number, processors!Float,
         processors!PosInf, processors!NegInf, next_layer_mem!Number,
         next_layer_mem!Float, next_layer_mem!PosInf, next_layer_mem!NegInf
<1> QED BY <1>1, <1>2, <1>3 DEF Number

(***************************************************************************)
(* The beats that send values to one address are well-typed, if those for  *)
(* a store are numbers.                                                    *)
(***************************************************************************)
LEMMA AtType ==
  ASSUME NEW a \in 0 .. 3, NEW values \in Seq(Float),
         a # 0 => values \in Seq(Number)
  PROVE  io_module!At(a, values) \in Seq(Beat)
<1>1. values \in [1 .. Len(values) -> Float] /\ Len(values) \in Nat
  OBVIOUS
<1>2. \A k \in 1 .. Len(values) : a # 0 => values[k] \in Number
  OBVIOUS
<1>3. \A k \in 1 .. Len(values) : [addr |-> a, data |-> values[k]] \in Beat
  BY <1>1, <1>2 DEF Beat
<1>4. io_module!At(a, values) \in [1 .. Len(values) -> Beat]
  BY <1>1, <1>3 DEF io_module!At
<1> QED BY <1>1, <1>4, SeqDef

(* What IO sends to the stores is made of numbers.                         *)
LEMMA SentTypes ==
  ASSUME files \in Inputs
  PROVE  /\ io_module!LayersCount(files.config) \in Nat
         /\ io_module!SizesAsFloats(files.config) \in Seq(Number)
         /\ files.picture \in Seq(Number)
         /\ io_module!Weights(files.config) \in Seq(Number)
<1> DEFINE cfg == files.config
           n == LayersCount(cfg)
<1>1. cfg \in Seq(Number) /\ files.picture \in Seq(Number) /\ n \in Nat
  BY InputsAssumption
<1>2. io_module!LayersCount(cfg) = n
  BY DEF io_module!LayersCount, LayersCount, io_module!ToInt, ToInt
<1>3. io_module!LayerSizes(cfg) \in [1 .. n -> Int]
  <2>1. \A k \in 1 .. n : (IF k + 1 <= Len(cfg) THEN io_module!ToInt(cfg[k + 1]) ELSE 0) \in Int
    BY <1>1, FloatTypes, Numbers DEF io_module!ToInt, ToInt
  <2> QED BY <1>2, <2>1 DEF io_module!LayerSizes
<1>4. io_module!SizesAsFloats(cfg) \in Seq(Number)
  <2>1. \A k \in 1 .. n : io_module!OfInt(io_module!LayerSizes(cfg)[k]) \in Number
    BY <1>3, Numbers DEF io_module!OfInt, OfInt
  <2>2. io_module!SizesAsFloats(cfg) \in [1 .. n -> Number]
    BY <1>2, <2>1 DEF io_module!SizesAsFloats
  <2> QED BY <1>1, <2>2, SeqDef
<1>5. io_module!Weights(cfg) \in Seq(Number)
  <2>1. Len(cfg) \in Nat BY <1>1
  <2>2. \A i \in n + 2 .. Len(cfg) : cfg[i] \in Number
    BY <1>1
  <2> QED BY <1>1, <1>2, <2>1, <2>2, SubSeqProperties DEF io_module!Weights
<1> QED BY <1>1, <1>2, <1>4, <1>5

(* The whole program of bus writes of write_data_to_system is well-typed.  *)
LEMMA BeatsType ==
  ASSUME files \in Inputs
  PROVE  io_module!Beats \in Seq(Beat)
<1> DEFINE cfg == files.config
           opening == <<io_module!PosInf, io_module!OfInt(io_module!LayersCount(cfg))>>
           start == <<io_module!NegInf>>
<1>1. opening \in Seq(Float) /\ start \in Seq(Float)
  BY SentTypes, FloatTypes
     DEF io_module!PosInf, io_module!OfInt, io_module!NegInf, PosInf, OfInt, NegInf
<1>2. /\ io_module!SizesAsFloats(cfg) \in Seq(Number)
      /\ files.picture \in Seq(Number)
      /\ io_module!Weights(cfg) \in Seq(Number)
  BY SentTypes
<1> HIDE DEF opening, start, cfg
<1>3. /\ io_module!At(0, opening) \in Seq(Beat)
      /\ io_module!At(1, io_module!SizesAsFloats(cfg)) \in Seq(Beat)
      /\ io_module!At(2, files.picture) \in Seq(Beat)
      /\ io_module!At(3, io_module!Weights(cfg)) \in Seq(Beat)
      /\ io_module!At(0, start) \in Seq(Beat)
  <2>1. \A values \in Seq(Float) : io_module!At(0, values) \in Seq(Beat)
    BY AtType
  <2>2. \A a \in 1 .. 3, values \in Seq(Number) : io_module!At(a, values) \in Seq(Beat)
    <3>1. Seq(Number) \subseteq Seq(Float)
      BY Numbers
    <3> QED BY <3>1, AtType
  <2>3. 1 \in 1 .. 3 /\ 2 \in 1 .. 3 /\ 3 \in 1 .. 3
    OBVIOUS
  <2> QED BY <2>1, <2>2, <2>3, <1>1, <1>2
<1>4. \A s1, s2, s3, s4, s5 \in Seq(Beat) : s1 \o s2 \o s3 \o s4 \o s5 \in Seq(Beat)
  OBVIOUS
<1> QED BY <1>3, <1>4 DEF io_module!Beats, opening, start, cfg

----------------------------------------------------------------------------
(* Each module keeps its variables in their types, given inputs of theirs. *)

(***************************************************************************)
(* An edge of IO keeps its variables in their types, and the bus lines it  *)
(* drives.                                                                 *)
(***************************************************************************)
LEMMA IoTypes ==
  ASSUME TypeOK, io_module!Edge
  PROVE  /\ addr_io_bus' \in 0 .. 3 /\ io_beat' \in Nat
         /\ io_transmit' \in BOOLEAN /\ io_results' \in Seq(Float)
         /\ IF io_module!DrivesData
              THEN data_io_bus' \in Float /\ (addr_io_bus' # 0 => data_io_bus' \in Number)
              ELSE addr_io_bus' = addr_io_bus
         /\ io_module!DrivesWr => wr_io_bus' \in BOOLEAN
<1> USE DEF TypeOK, io_module!TypeOK, io_module!Float, Float
<1>1. io_results' \in Seq(Float)
  BY DEF io_module!Edge, io_module!read_data_from_system
<1>0. Len(io_module!Beats) \in Nat
  BY BeatsType
<1>2. CASE io_module!Send
  <2>1. io_module!Beats[io_beat + 1] \in Beat
    <3>1. io_module!Beats \in Seq(Beat)
      BY BeatsType
    <3>2. io_beat + 1 \in 1 .. Len(io_module!Beats)
      BY <1>2, <3>1 DEF io_module!Send
    <3> QED BY <3>1, <3>2, ElementOfSeq
  <2>2. io_module!DrivesData
    BY <1>2 DEF io_module!Send, io_module!DrivesData
  <2> QED BY <1>1, <1>2, <2>1, <2>2 DEF io_module!Send, Beat
<1>3. CASE io_module!Finish
  <2>1. ~io_module!DrivesData /\ io_beat' \in Nat
    BY <1>0, <1>3 DEF io_module!Finish, io_module!DrivesData
  <2> QED BY <1>1, <1>3, <2>1 DEF io_module!Finish
<1>4. CASE io_module!Ended
  <2>1. ~io_module!DrivesData /\ ~io_module!DrivesWr
    BY <1>0, <1>4 DEF io_module!Ended, io_module!DrivesData, io_module!DrivesWr
  <2> QED BY <1>1, <1>4, <2>1 DEF io_module!Ended
<1> QED BY <1>2, <1>3, <1>4 DEF io_module!Edge, io_module!write_data_to_system

(***************************************************************************)
(* So does an edge of PREVIOUS_LAYER, the other driver of the bus, which   *)
(* also may stop the simulation.                                           *)
(***************************************************************************)
LEMMA PreviousLayerTypes ==
  ASSUME TypeOK, io_module!Edge, PreviousLayerEdge
  PROVE  /\ data_io_bus' \in Float /\ wr_io_bus' \in BOOLEAN
         /\ addr_io_bus' # 0 => data_io_bus' \in Number
         /\ data_io_bus' \in Number \/ HoldBus(FALSE)
         /\ previous_layer!TypeOK'
         /\ status' \in {"running", "stopped", "aborted"}
<1> USE DEF TypeOK, io_module!TypeOK, next_layer_mem!TypeOK,
            previous_layer!TypeOK, previous_layer!PC, PC
<1>0. /\ prev_memory \in Seq(Number)
      /\ addr_io_bus = 2 => data_io_bus \in Number
      /\ data_from_now_layer_to_next_layer \in Number
  BY Numbers
<1>1. /\ previous_layer!Added(prev_memory) \in Seq(Number)
      /\ previous_layer!Cleared(prev_memory) \in Seq(Number)
      /\ prev_memory' \in Seq(Number)
  <2>1. \A m \in Seq(Number) : previous_layer!Cleared(m) \in Seq(Number)
    BY DEF previous_layer!Cleared
  <2>2. \A m \in Seq(Number) : previous_layer!Added(m) \in Seq(Number)
    BY <1>0 DEF previous_layer!Added, previous_layer!Push
  <2> QED BY <1>0, <2>1, <2>2 DEF PreviousLayerEdge, previous_layer!add_to_mem_and_clear
<1>2. \A m \in previous_layer!Views : m \in Seq(Number)
  BY <1>0, <1>1 DEF previous_layer!Views
<1>3. \A k \in previous_layer!Indices : k \in Nat
  BY DEF previous_layer!Indices
<1>4. PICK m \in previous_layer!Views, k \in previous_layer!Indices :
        /\ previous_layer!Edge(m, k)
        /\ HoldBus(previous_layer!Drives(m, k))
        /\ status' = IF previous_layer!Stops(m, k) THEN "stopped" ELSE "running"
  BY DEF PreviousLayerEdge
<1>5. m \in Seq(Number) /\ k \in Nat
  BY <1>2, <1>3
<1>6. prev_index_to_out' \in Nat
  BY <1>4, <1>5 DEF previous_layer!Edge, previous_layer!issue_element_IO
<1>7. previous_layer!Drives(m, k) => data_io_bus' \in Number /\ wr_io_bus'
  BY <1>4, <1>5 DEF previous_layer!Edge, previous_layer!issue_element_IO,
                    previous_layer!Drives
<1>8. /\ data_io_bus' \in Float /\ wr_io_bus' \in BOOLEAN
      /\ addr_io_bus' # 0 => data_io_bus' \in Number
  BY <1>4, <1>7, IoTypes, Numbers DEF HoldBus, io_module!Float, Float
<1>9. data_io_bus' \in Number \/ HoldBus(FALSE)
  BY <1>4, <1>7 DEF HoldBus
<1>10. data_prev_layer_bus' \in [PC -> Float]
  <2>1. PICK v \in previous_layer!Views :
          data_prev_layer_bus' =
            [p \in PC |-> previous_layer!Word(v, addr_prev_layer_bus[p])]
    BY <1>4 DEF previous_layer!Edge, previous_layer!issue_element_PC
  <2>2. previous_layer!OfInt(-1) \in Float /\ v \in Seq(Number)
    BY <1>2, <2>1, FloatTypes DEF previous_layer!OfInt, OfInt
  <2>3. \A j \in 1 .. Len(v) : v[j] \in Float
    BY <2>2, Numbers
  <2>4. \A a : previous_layer!Word(v, a) \in Float
    BY <2>2, <2>3 DEF previous_layer!Word
  <2> QED BY <2>1, <2>4
<1> QED BY <1>1, <1>4, <1>6, <1>8, <1>9, <1>10, Numbers DEF previous_layer!Float, Float

(* A step of CONTROLLER keeps its variables in their types.                *)
LEMMA ControllerTypes ==
  ASSUME TypeOK, controller!process
  PROVE  controller!TypeOK'
<1> USE DEF TypeOK, controller!TypeOK, layers_storage!TypeOK, io_module!TypeOK
<1>1. controller!Sampled \in {"IDLE", "READ_DATA", "START_CONV"}
  BY DEF controller!Sampled, controller!state_start_conv, controller!state_read_data
<1>2. controller!ToInt(data_io_bus) \in Int
  BY FloatTypes DEF controller!ToInt, ToInt, io_module!Float, Float
<1>3. \A k \in Nat : \A b \in Int : \A d :
        controller!NextLayerOrEnd(k, b, d) /\ UNCHANGED <<ctrl_layers, ctrl_prev_layer>>
        => controller!TypeOK'
  <2> SUFFICES ASSUME NEW k \in Nat, NEW b \in Int, NEW d,
                      controller!NextLayerOrEnd(k, b, d),
                      UNCHANGED <<ctrl_layers, ctrl_prev_layer>>
               PROVE  controller!TypeOK'
    OBVIOUS
  <2>1. ctrl_high' \subseteq controller!Lines
    BY DEF controller!NextLayerOrEnd, controller!Pulse, controller!Lines
  <2>2. ctrl_i' \in Nat /\ start_weight_adderess' \in Int
    BY DEF controller!NextLayerOrEnd, controller!Rest
  <2>3. <<ctrl_state', ctrl_pc'>> \in {<<"START_CONV", "save">>, <<"IDLE", "idle">>}
    BY DEF controller!NextLayerOrEnd, controller!Rest
  <2> QED BY <2>1, <2>2, <2>3
<1>4. CASE controller!StayIdle
  BY <1>4 DEF controller!StayIdle, controller!Rest
<1>5. CASE controller!BeginRead
  BY <1>1, <1>5 DEF controller!BeginRead
<1>6. CASE controller!ReadLayers
  BY <1>2, <1>6 DEF controller!ReadLayers, controller!Rest
<1>7. CASE controller!StartConv
  <2>1. /\ controller!NextLayerOrEnd(0, start_weight_adderess, "none")
        /\ UNCHANGED <<ctrl_layers, ctrl_prev_layer>>
    BY <1>7 DEF controller!StartConv
  <2> QED BY <1>3, <2>1
<1>8. CASE controller!SelectLayer
  BY <1>8 DEF controller!SelectLayer, controller!Pulse, controller!Lines, controller!loop
<1>9. CASE controller!StartGenerator
  BY <1>9 DEF controller!StartGenerator, controller!Pulse, controller!Lines, controller!loop
<1>10. CASE controller!EndStart \/ controller!Settle
  BY <1>10 DEF controller!EndStart, controller!Settle, controller!Lower,
               controller!Lines, controller!loop
<1>11. CASE controller!AwaitCycle
  BY <1>11 DEF controller!AwaitCycle, controller!Lines, controller!loop
<1>12. CASE controller!StartClone
  BY <1>12 DEF controller!StartClone, controller!Pulse, controller!Lines, controller!loop
<1>13. CASE controller!AwaitClone
  <2> DEFINE base == (ctrl_prev_layer + 1) * data_layer + start_weight_adderess
  <2>1. base \in Int
    OBVIOUS
  <2>2. CASE ~end_clone_controller_bus
    BY <1>13, <2>2 DEF controller!AwaitClone, controller!Lower, controller!Lines,
                       controller!loop
  <2>3. CASE end_clone_controller_bus
    <3>1. /\ controller!NextLayerOrEnd(ctrl_i + 1, base, "start_clone_controller_layer_o")
          /\ UNCHANGED <<ctrl_layers, ctrl_prev_layer>>
      BY <1>13, <2>3 DEF controller!AwaitClone
    <3>2. ctrl_i + 1 \in Nat
      OBVIOUS
    <3> HIDE DEF base
    <3> QED BY <1>3, <2>1, <3>1, <3>2
  <2> QED BY <2>2, <2>3
<1> QED BY <1>4, <1>5, <1>6, <1>7, <1>8, <1>9, <1>10, <1>11, <1>12, <1>13
     DEF controller!process

(***************************************************************************)
(* So does an edge of LAYERS_STORAGE, WEIGHT_STORAGE and                   *)
(* PREVIOUS_LAYER_SIZE.                                                    *)
(***************************************************************************)
LEMMA StoresTypes ==
  ASSUME TypeOK, layers_storage!Edge, weight_storage!Edge, previous_layer_size!Edge
  PROVE  /\ layers_storage!TypeOK' /\ weight_storage!TypeOK'
         /\ previous_layer_size!TypeOK'
<1> USE DEF TypeOK, layers_storage!TypeOK, weight_storage!TypeOK,
            previous_layer_size!TypeOK, io_module!TypeOK, io_module!Float, Float
<1>1. layers_storage!TypeOK'
  <2>1. layers_memory' \in Seq(Int)
    <3>1. layers_storage!ToInt(data_io_bus) \in Int
      BY FloatTypes DEF layers_storage!ToInt, ToInt
    <3> QED BY <3>1 DEF layers_storage!Edge, layers_storage!add_to_queue
  <2>2. layers_index' \in Nat
    BY DEF layers_storage!Edge, layers_storage!next_element
  <2>3. data_layer' \in Int
    BY <2>1, <2>2 DEF layers_storage!Edge, layers_storage!issue_element,
                            layers_storage!Element
  <2> QED BY <2>1, <2>2, <2>3
<1>2. weight_storage!TypeOK'
  <2>1. weight_memory' \in Seq(Float)
    BY DEF weight_storage!Edge, weight_storage!add_to_memory, weight_storage!Float
  <2>2. PICK m \in {weight_memory, weight_memory'} :
          data_weight_bus' = [p \in PC |-> weight_storage!Word(m, addr_weight_bus[p])]
    BY DEF weight_storage!Edge, weight_storage!issue_element, weight_storage!PC, PC
  <2>3. m \in Seq(Float)
    BY <2>1, <2>2 DEF weight_storage!Float
  <2>4. weight_storage!OfInt(0) \in Float
    BY FloatTypes DEF weight_storage!OfInt, OfInt
  <2>5. ASSUME NEW a
        PROVE  weight_storage!Word(m, a) \in Float
    <3>1. CASE a \in 0 .. Len(m) - 1
      <4>1. m[a + 1] \in Float
        BY <2>3, <3>1
      <4> QED BY <3>1, <4>1 DEF weight_storage!Word
    <3>2. CASE a \notin 0 .. Len(m) - 1
      BY <2>4, <3>2 DEF weight_storage!Word
    <3> QED BY <3>1, <3>2
  <2> QED BY <2>1, <2>2, <2>5 DEF weight_storage!Float, weight_storage!PC, PC
<1>3. previous_layer_size!TypeOK'
  BY DEF previous_layer_size!Edge, previous_layer_size!save_new_element,
         previous_layer_size!pass_new_element
<1> QED BY <1>1, <1>2, <1>3

(* So does an edge of PREVIOUS_LAYER_CONTROLLER.                           *)
LEMMA PreviousLayerControllerTypes ==
  ASSUME TypeOK, previous_layer_controller!Edge
  PROVE  previous_layer_controller!TypeOK'
<1> USE DEF TypeOK, previous_layer_controller!TypeOK, layers_storage!TypeOK
<1>1. clr_prev_layer_ctrl_mem_bus' \in BOOLEAN /\ wr_to_io_ctrl_mem_bus' \in BOOLEAN
  BY DEF previous_layer_controller!Edge, previous_layer_controller!clear,
         previous_layer_controller!write_out_to_IO, clr_prev_layer_controller_bus,
         write_out_controller_bus
<1>2. previous_layer_controller!copy_memory
  BY DEF previous_layer_controller!Edge
<1>3. CASE previous_layer_controller!AwaitStart
  BY <1>1, <1>3 DEF previous_layer_controller!AwaitStart
<1>4. CASE previous_layer_controller!BeginCopy
  BY <1>1, <1>4 DEF previous_layer_controller!BeginCopy
<1>5. CASE previous_layer_controller!CopyWord
  BY <1>1, <1>5 DEF previous_layer_controller!CopyWord
<1>6. CASE previous_layer_controller!EndCopy
  BY <1>1, <1>6 DEF previous_layer_controller!EndCopy
<1> QED BY <1>2, <1>3, <1>4, <1>5, <1>6 DEF previous_layer_controller!copy_memory

(* So does a step of GENERATOR.                                            *)
LEMMA GeneratorTypes ==
  ASSUME TypeOK, generator!generate
  PROVE  generator!TypeOK'
<1> USE ConfigAssumption DEF TypeOK, generator!TypeOK, layers_storage!TypeOK,
                             generator!PC
<1>1. CASE generator!Idle
  <2>1. gen_end' \in BOOLEAN
    BY <1>1 DEF generator!Idle
  <2>2. gen_state' \in {"IDLE", "GENERATE"}
    BY <1>1 DEF generator!Idle
  <2>3. 0 \in generator!PC
    OBVIOUS
  <2> QED BY <1>1, <2>1, <2>2, <2>3 DEF generator!Idle
<1>2. CASE generator!Enter
  BY <1>2 DEF generator!Enter
<1>3. ASSUME NEW p \in generator!PC, generator!Choose(p)
      PROVE  generator!TypeOK'
  <2>1. CASE gen_size[p] < QUEUE_SIZE
    <3>1. gen_data' \in Nat /\ gen_counter' \in Nat /\ gen_address' \in generator!PC
      BY <1>3, <2>1 DEF generator!Choose
    <3>2. gen_state' \in {"IDLE", "GENERATE"}
      BY <1>3, <2>1 DEF generator!Choose
    <3> QED BY <1>3, <2>1, <3>1, <3>2 DEF generator!Choose
  <2>2. CASE ~(gen_size[p] < QUEUE_SIZE)
    BY <1>3, <2>2 DEF generator!Choose
  <2> QED BY <2>1, <2>2
<1>4. CASE generator!Withdraw
  BY <1>4 DEF generator!Withdraw
<1> QED BY <1>1, <1>2, <1>3, <1>4 DEF generator!generate

(* So does an edge of the processing units.                                *)
LEMMA ProcessorsTypes ==
  ASSUME TypeOK, processors!Edge
  PROVE  processors!TypeOK'
<1> USE DEF TypeOK, processors!TypeOK, processors!PC, PC, processors!Float, Float
<1>1. gen_data \in Nat
  BY DEF generator!TypeOK
<1>2. \A p \in PC : processors!Pushed(p) \in Seq(Nat)
  BY <1>1 DEF processors!Pushed, processors!Accepts
<1>3. \A p \in PC : processors!Takes(p) =>
        Head(processors!Pushed(p)) \in Nat /\ Tail(processors!Pushed(p)) \in Seq(Nat)
  BY <1>2 DEF processors!Takes
<1>4. \A p \in PC : processors!Neuron(p) \in Nat /\ processors!Input(p) \in Nat
  BY <1>3 DEF processors!Neuron, processors!Input
<1>5. \A p \in PC : processors!Sum(p) \in Float
  <2>1. \A p \in PC : data_prev_layer_bus[p] \in Float /\ data_weight_bus[p] \in Float
    BY DEF previous_layer!TypeOK, weight_storage!TypeOK, previous_layer!PC,
           weight_storage!PC, previous_layer!Float, weight_storage!Float
  <2> QED BY <2>1, FloatTypes DEF processors!Sum, processors!OfInt, OfInt,
             processors!Mac, Mac, processors!AddBias, AddBias
<1>6. gen_size' \in [PC -> Nat] /\ contr_empty_bus' \in [PC -> BOOLEAN]
  <2>1. gen_size' \in [PC -> Nat]
    BY <1>2 DEF processors!Edge, processors!add_to_queue
  <2>2. contr_empty_bus' \in [PC -> BOOLEAN]
    BY DEF processors!Edge, processors!add_to_queue
  <2> QED BY <2>1, <2>2
<1>7. /\ pu_queue' \in [PC -> Seq(Nat)]
      /\ pu_number_of_nn' \in [PC -> Nat]
      /\ pu_i' \in [PC -> Nat]
      /\ pu_sum_reg' \in [PC -> Float]
      /\ addr_prev_layer_bus' \in [PC -> Nat]
      /\ resmem_addr_bus' \in [PC -> Nat]
  BY <1>2, <1>3, <1>4, <1>5 DEF processors!Edge, processors!process
<1>8. pu_is_working' \in [PC -> BOOLEAN] /\ resmem_w_bus' \in [PC -> BOOLEAN]
  BY DEF processors!Edge, processors!process, processors!Takes, processors!Finishes
<1>9. pu_pc' \in [PC -> {"idle", "mac1", "mac2", "bias1", "bias2", "store"}]
  BY DEF processors!Edge, processors!process, processors!NextPc
<1>10. resmem_data_bus' \in [PC -> Number]
  <2>1. \A p \in PC : processors!sigmoid(processors!Sum(p)) \in Number
    BY <1>5, Numbers DEF processors!sigmoid, sigmoid
  <2> QED BY <2>1, Numbers DEF processors!Edge, processors!process
<1>11. addr_weight_bus' \in [PC -> Int]
  <2>1. previous_data_layer \in Int /\ start_weight_adderess \in Int
    BY DEF previous_layer_size!TypeOK, controller!TypeOK
  <2>2. \A n \in Nat, k \in Int : processors!WeightAddress(n, k) \in Int
    BY <2>1 DEF processors!WeightAddress
  <2>3. \A p \in PC :
          processors!WeightAddress(processors!Neuron(p),
            IF processors!HasInput(p) THEN processors!Input(p) ELSE previous_data_layer)
          \in Int
    <3> SUFFICES ASSUME NEW p \in PC
                 PROVE  processors!WeightAddress(processors!Neuron(p),
                          IF processors!HasInput(p) THEN processors!Input(p)
                                                    ELSE previous_data_layer) \in Int
      OBVIOUS
    <3>1. CASE processors!HasInput(p)
      BY <1>4, <2>2, <3>1
    <3>2. CASE ~processors!HasInput(p)
      BY <1>4, <2>1, <2>2, <3>2
    <3> QED BY <3>1, <3>2
  <2> QED BY <2>3 DEF processors!Edge, processors!process
<1>12. pu_count_neurons_calc' \in [PC -> Nat]
  BY DEF processors!Edge, processors!process, processors!Counted
<1> QED BY <1>6, <1>7, <1>8, <1>9, <1>10, <1>11, <1>12, Numbers

(***************************************************************************)
(* A non-empty set of unit numbers has a greatest member: the last unit    *)
(* that writes a word of NEXT_LAYER exists.                                *)
(***************************************************************************)
LEMMA GreatestExists ==
  ASSUME NEW n \in Nat, NEW S \in SUBSET (0 .. n - 1), S # {}
  PROVE  \E p \in S : \A q \in S : q <= p
<1> DEFINE T == {n - p : p \in S}
<1>1. T \subseteq Nat /\ T # {}
  OBVIOUS
<1>2. PICK x \in T : \A y \in T : ~(<<y, x>> \in OpToRel(<, Nat))
  BY <1>1, NatLessThanWellFounded, WFMin
<1>3. \A y \in T : ~(y < x)
  <2> SUFFICES ASSUME NEW y \in T, y < x
               PROVE  <<y, x>> \in OpToRel(<, Nat)
    BY <1>2
  <2> HIDE DEF T
  <2>1. y \in Nat /\ x \in Nat
    BY <1>1, <1>2
  <2> QED BY <2>1 DEF OpToRel
<1>4. PICK p \in S : x = n - p
  OBVIOUS
<1>5. \A q \in S : q <= p
  <2> SUFFICES ASSUME NEW q \in S PROVE q <= p
    OBVIOUS
  <2>1. n - q \in T
    OBVIOUS
  <2>2. ~(n - q < n - p)
    BY <1>3, <1>4, <2>1
  <2>3. p \in Int /\ q \in Int
    OBVIOUS
  <2> QED BY <2>2, <2>3
<1> QED BY <1>5

(* An edge of NEXT_LAYER keeps its variables in their types.               *)
LEMMA NextLayerTypes ==
  ASSUME TypeOK, next_layer_mem!Edge
  PROVE  next_layer_mem!TypeOK'
<1> USE Numbers DEF TypeOK, next_layer_mem!TypeOK, next_layer_mem!PC, PC
<1>1. \A p \in PC : resmem_data_bus[p] \in Number
  BY DEF processors!TypeOK, processors!PC
<1>2. next_memory' \in [0 .. MEM_SIZE - 1 -> Number]
  <2> SUFFICES ASSUME NEW a \in 0 .. MEM_SIZE - 1
               PROVE  next_layer_mem!Written(next_memory)[a] \in Number
    BY DEF next_layer_mem!Edge, next_layer_mem!add_to_memory, next_layer_mem!Written
  <2>1. CASE next_layer_mem!Writers(a) = {}
    BY <2>1 DEF next_layer_mem!Written
  <2>2. CASE next_layer_mem!Writers(a) # {}
    <3>1. next_layer_mem!Writers(a) \subseteq PC
      BY DEF next_layer_mem!Writers
    <3>2. \E p \in next_layer_mem!Writers(a) :
            \A q \in next_layer_mem!Writers(a) : q <= p
      BY <2>2, <3>1, GreatestExists, ConfigAssumption
    <3> QED BY <1>1, <2>2, <3>1, <3>2 DEF next_layer_mem!Written
  <2> QED BY <2>1, <2>2
<1>3. \A k \in Nat : next_layer_mem!Rewound(k) \in Nat
  BY DEF next_layer_mem!Rewound
<1>4. next_index' \in Nat
  <2>1. /\ next_layer_mem!Rewound(next_index) \in Nat
        /\ next_layer_mem!Rewound(IF next_memory_transmit THEN next_index + 1
                                                         ELSE next_index) \in Nat
    BY <1>3
  <2> QED BY <2>1 DEF next_layer_mem!Edge, next_layer_mem!issue_element
<1>5. \A m \in [0 .. MEM_SIZE - 1 -> Number], k \in Nat :
        next_layer_mem!Issue(m, k) \in Number
  <2> SUFFICES ASSUME NEW m \in [0 .. MEM_SIZE - 1 -> Number], NEW k \in Nat
               PROVE  next_layer_mem!Issue(m, k) \in Number
    OBVIOUS
  <2>1. k \in DOMAIN m => m[k] \in Number
    OBVIOUS
  <2>2. next_layer_mem!Uninit \in Number
    BY DEF next_layer_mem!Uninit, Uninit
  <2> QED BY <2>1, <2>2 DEF next_layer_mem!Issue
<1>6. data_from_now_layer_to_next_layer' \in Number
  <2>1. /\ next_layer_mem!Issue(next_memory, next_index) \in Number
        /\ next_layer_mem!Issue(next_memory', next_layer_mem!Rewound(next_index)) \in Number
    BY <1>2, <1>3, <1>5
  <2> QED BY <2>1 DEF next_layer_mem!Edge, next_layer_mem!issue_element
<1> QED BY <1>2, <1>4, <1>6

----------------------------------------------------------------------------
(* The initialization phase leaves every variable in its type.             *)
LEMMA InitTypes == Init => TypeOK
<1> SUFFICES ASSUME Init PROVE TypeOK
  OBVIOUS
<1> USE ConfigAssumption, FloatTypes, Numbers DEF Init, Float
<1>1. files \in Inputs /\ io_module!TypeOK
  <2>1. io_module!OfInt(0) \in Float
    BY DEF io_module!OfInt, OfInt
  <2>2. io_beat \in Nat /\ addr_io_bus \in 0 .. 3 /\ files \in Inputs
    BY DEF io_module!Init
  <2>3. wr_io_bus \in BOOLEAN /\ io_transmit \in BOOLEAN
    BY DEF io_module!Init
  <2> QED BY <2>1, <2>2, <2>3 DEF io_module!Init, io_module!TypeOK, io_module!Float
<1>2. controller!TypeOK
  BY DEF controller!Init, controller!TypeOK, controller!Lines
<1>3. layers_storage!TypeOK /\ previous_layer_size!TypeOK
  BY DEF layers_storage!Init, layers_storage!TypeOK, previous_layer_size!Init,
         previous_layer_size!TypeOK
<1>4. weight_storage!TypeOK
  BY DEF weight_storage!Init, weight_storage!TypeOK, weight_storage!Float,
         weight_storage!OfInt, OfInt
<1>5. previous_layer!TypeOK
  BY DEF previous_layer!Init, previous_layer!TypeOK, previous_layer!Float,
         previous_layer!OfInt, OfInt
<1>6. previous_layer_controller!TypeOK
  BY DEF previous_layer_controller!Init, previous_layer_controller!TypeOK
<1>7. generator!TypeOK
  <2>1. 0 \in generator!PC
    BY DEF generator!PC
  <2> QED BY <2>1 DEF generator!Init, generator!TypeOK
<1>8. processors!TypeOK
  BY DEF processors!Init, processors!All, processors!TypeOK, processors!Float,
         processors!OfInt, OfInt
<1>9. next_layer_mem!TypeOK
  BY DEF next_layer_mem!Init, next_layer_mem!TypeOK,
         next_layer_mem!OfInt, OfInt, next_layer_mem!Uninit, Uninit
<1>10. end_reducer!TypeOK
  BY DEF end_reducer!Init, end_reducer!TypeOK, end_reducer!AllEnded
<1> QED BY <1>1, <1>2, <1>3, <1>4, <1>5, <1>6, <1>7, <1>8, <1>9, <1>10 DEF TypeOK

(* Every step of the accelerator keeps all variables in their types.       *)
LEMMA StepTypes ==
  ASSUME TypeOK, [Next]_vars
  PROVE  TypeOK'
<1>1. CASE Edge
  <2>1. files' = files
    BY <1>1 DEF Edge
  <2>2. io_module!TypeOK'
    BY <1>1, IoTypes, PreviousLayerTypes, Numbers
       DEF Edge, io_module!TypeOK, io_module!Float, Float
  <2>3. end_reducer!TypeOK'
    BY <1>1 DEF Edge, end_reducer!TypeOK, end_reducer!reduce, end_reducer!AllEnded
  <2> QED BY <1>1, <2>1, <2>2, <2>3, PreviousLayerTypes, ControllerTypes, StoresTypes,
             PreviousLayerControllerTypes, GeneratorTypes, ProcessorsTypes,
             NextLayerTypes DEF Edge, TypeOK
<1>2. CASE Abort \/ Over \/ UNCHANGED vars
  <2>1. UNCHANGED <<ioVars, ctrlVars, storeVars, prevVars, plcVars, genVars, puVars,
                    nextVars, cycle_ended>>
    BY <1>2 DEF Abort, Over, vars
  <2>2. status' \in {"running", "stopped", "aborted"}
    BY <1>2 DEF Abort, Over, vars, TypeOK
  <2>3. /\ files' \in Inputs /\ io_module!TypeOK' /\ controller!TypeOK'
    BY <2>1 DEF TypeOK, io_module!TypeOK, controller!TypeOK, ioVars, ctrlVars
  <2>4. layers_storage!TypeOK' /\ weight_storage!TypeOK' /\ previous_layer_size!TypeOK'
    BY <2>1 DEF TypeOK, layers_storage!TypeOK, weight_storage!TypeOK,
                previous_layer_size!TypeOK, storeVars
  <2>5. previous_layer!TypeOK' /\ previous_layer_controller!TypeOK'
    BY <2>1 DEF TypeOK, previous_layer!TypeOK, previous_layer_controller!TypeOK,
                prevVars, plcVars
  <2>6. generator!TypeOK' /\ processors!TypeOK'
    BY <2>1 DEF TypeOK, generator!TypeOK, processors!TypeOK, genVars, puVars
  <2>7. next_layer_mem!TypeOK' /\ end_reducer!TypeOK'
    BY <2>1 DEF TypeOK, next_layer_mem!TypeOK, end_reducer!TypeOK, nextVars
  <2> QED BY <2>2, <2>3, <2>4, <2>5, <2>6, <2>7 DEF TypeOK
<1> QED BY <1>1, <1>2 DEF Next

(***************************************************************************)
(* Every variable keeps its type: for every number of units, every queue   *)
(* capacity and memory size, and all files.                                *)
(***************************************************************************)
THEOREM TypeCorrect == Spec => []TypeOK
<1> QED BY InitTypes, StepTypes, PTL DEF Spec

----------------------------------------------------------------------------
(***************************************************************************)
(* The inductive invariant of the dispatch.  A number on the generator's   *)
(* bus has room in the queue it goes to, because the reports the generator *)
(* compares are never below the lengths; a unit that reports itself empty  *)
(* is; a unit that shows a result is still busy; and the generator reports *)
(* its end only at rest.                                                   *)
(***************************************************************************)
GeneratorInv ==
  /\ gen_write => gen_pc = "written" /\ Len(pu_queue[gen_address]) < QUEUE_SIZE
  /\ gen_end => gen_pc = "idle" /\ gen_state = "IDLE"

UnitInv ==
  \A p \in PC :
    /\ Len(pu_queue[p]) <= gen_size[p]
    /\ pu_is_working[p] = Busy(p)
    /\ resmem_w_bus[p] => pu_pc[p] = "store"
    /\ contr_empty_bus[p] => pu_queue[p] = << >> /\ ~Busy(p)

DispatchInv == GeneratorInv /\ UnitInv /\ cycle_ended = end_reducer!AllEnded

(* The dispatch invariant holds after the initialization phase.            *)
LEMMA InitDispatch == Init => DispatchInv
<1> SUFFICES ASSUME Init PROVE DispatchInv
  OBVIOUS
<1> USE DEF Init, processors!Init, processors!All, processors!PC, PC
<1>1. GeneratorInv
  BY DEF GeneratorInv, generator!Init
<1>2. UnitInv
  <2> SUFFICES ASSUME NEW p \in PC
               PROVE  /\ Len(pu_queue[p]) <= gen_size[p]
                      /\ pu_is_working[p] = Busy(p)
                      /\ resmem_w_bus[p] => pu_pc[p] = "store"
                      /\ contr_empty_bus[p] => pu_queue[p] = << >> /\ ~Busy(p)
    BY DEF UnitInv
  <2>1. pu_queue[p] = << >> /\ gen_size[p] = 0
    OBVIOUS
  <2>2. Len(pu_queue[p]) <= gen_size[p]
    BY <2>1
  <2>3. pu_is_working[p] = Busy(p) /\ ~Busy(p)
    BY DEF Busy
  <2>4. ~resmem_w_bus[p]
    OBVIOUS
  <2> QED BY <2>2, <2>3, <2>4
<1>3. cycle_ended = end_reducer!AllEnded
  BY DEF end_reducer!Init
<1> QED BY <1>1, <1>2, <1>3 DEF DispatchInv

(* What a unit's queue is after an edge.                                   *)
LEMMA QueueAfter ==
  ASSUME TypeOK, processors!Edge, NEW p \in PC
  PROVE  /\ processors!Pushed(p) \in Seq(Nat)
         /\ gen_size'[p] = Len(processors!Pushed(p))
         /\ pu_queue'[p] = IF processors!Takes(p) THEN Tail(processors!Pushed(p))
                                                  ELSE processors!Pushed(p)
         /\ pu_queue'[p] \in Seq(Nat)
         /\ Len(pu_queue'[p]) <= gen_size'[p]
         /\ ~gen_write => processors!Pushed(p) = pu_queue[p]
<1> USE DEF processors!Edge, processors!PC, PC
<1>1. processors!Pushed(p) \in Seq(Nat)
  BY DEF TypeOK, processors!TypeOK, generator!TypeOK, processors!Pushed
<1>2. gen_size'[p] = Len(processors!Pushed(p))
  BY DEF processors!add_to_queue
<1>3. pu_queue'[p] = IF processors!Takes(p) THEN Tail(processors!Pushed(p))
                                            ELSE processors!Pushed(p)
  BY DEF processors!process
<1>4. pu_queue'[p] \in Seq(Nat) /\ Len(pu_queue'[p]) <= gen_size'[p]
  <2>1. CASE processors!Takes(p)
    <3>1. processors!Pushed(p) # << >>
      BY <2>1 DEF processors!Takes
    <3> QED BY <1>1, <1>2, <1>3, <2>1, <3>1
  <2>2. CASE ~processors!Takes(p)
    BY <1>1, <1>2, <1>3, <2>2
  <2> QED BY <2>1, <2>2
<1>5. ~gen_write => processors!Pushed(p) = pu_queue[p]
  BY DEF processors!Pushed, processors!Accepts
<1> QED BY <1>1, <1>2, <1>3, <1>4, <1>5

(***************************************************************************)
(* An edge keeps the part of the invariant about the generator and the     *)
(* number on its bus.                                                      *)
(***************************************************************************)
LEMMA StepGenerator ==
  ASSUME TypeOK, DispatchInv, Edge
  PROVE  GeneratorInv'
<1> USE DEF DispatchInv, GeneratorInv
<1>1. CASE generator!Idle
  BY <1>1 DEF generator!Idle
<1>2. CASE generator!Enter
  BY <1>2 DEF generator!Enter
<1>3. ASSUME NEW p \in PC, generator!Choose(p)
      PROVE  GeneratorInv'
  <2>1. ~gen_write /\ ~gen_end /\ gen_pc' = "written" /\ gen_end' = gen_end
    BY <1>3 DEF generator!Choose
  <2> gen_size[p] \in Nat /\ pu_queue[p] \in Seq(Nat) /\ QUEUE_SIZE \in Nat
    BY ConfigAssumption DEF TypeOK, processors!TypeOK, processors!PC, PC
  <2>2. CASE gen_size[p] < QUEUE_SIZE
    <3>1. gen_address' = p
      BY <1>3, <2>2 DEF generator!Choose
    <3>2. Len(pu_queue'[p]) <= Len(pu_queue[p])
      BY <2>1, QueueAfter DEF Edge
    <3>3. Len(pu_queue[p]) <= gen_size[p]
      BY DEF UnitInv
    <3> Len(pu_queue[p]) \in Nat /\ Len(pu_queue'[p]) \in Nat
      <4>1. pu_queue'[p] \in Seq(Nat)
        BY QueueAfter DEF Edge
      <4> QED BY <4>1, LenProperties
    <3>4. Len(pu_queue'[p]) < QUEUE_SIZE
      BY <2>2, <3>2, <3>3
    <3> QED BY <2>1, <3>1, <3>4
  <2>3. CASE ~(gen_size[p] < QUEUE_SIZE)
    BY <1>3, <2>1, <2>3 DEF generator!Choose
  <2> QED BY <2>2, <2>3
<1>4. CASE generator!Withdraw
  BY <1>4 DEF generator!Withdraw
<1> QED BY <1>1, <1>2, <1>3, <1>4 DEF Edge, generator!generate, generator!PC, PC

(***************************************************************************)
(* An edge keeps the part of the invariant about the units, their queues   *)
(* and their reports.                                                      *)
(***************************************************************************)
LEMMA StepUnits ==
  ASSUME TypeOK, DispatchInv, Edge
  PROVE  UnitInv'
<1> SUFFICES ASSUME NEW p \in PC
             PROVE  /\ Len(pu_queue'[p]) <= gen_size'[p]
                    /\ pu_is_working'[p] = Busy(p)'
                    /\ resmem_w_bus'[p] => pu_pc'[p] = "store"
                    /\ contr_empty_bus'[p] => pu_queue'[p] = << >> /\ ~Busy(p)'
  BY DEF UnitInv
<1> USE DEF processors!PC, PC
<1>1. processors!Edge /\ pu_is_working[p] = Busy(p)
  BY DEF Edge, DispatchInv, UnitInv
<1>2. Len(pu_queue'[p]) <= gen_size'[p]
  BY <1>1, QueueAfter
<1>3. pu_is_working'[p] = Busy(p)'
  <2>1. pu_is_working'[p] = (processors!Takes(p) \/ (Busy(p) /\ pu_pc[p] # "store"))
    BY <1>1 DEF processors!Edge, processors!process, processors!Finishes
  <2>2. pu_pc'[p] = processors!NextPc(p)
    BY <1>1 DEF processors!Edge, processors!process
  <2>3. pu_pc[p] \in {"idle", "mac1", "mac2", "bias1", "bias2", "store"}
    BY DEF TypeOK, processors!TypeOK
  <2> QED BY <2>1, <2>2, <2>3 DEF Busy, processors!NextPc, processors!AtHead,
                                  processors!Takes
<1>4. ASSUME contr_empty_bus'[p]
      PROVE  pu_queue'[p] = << >> /\ ~Busy(p)'
  <2>1. contr_empty_bus'[p] =
          IF processors!Pushed(p) = << >> THEN ~pu_is_working[p]
          ELSE IF processors!Accepts(p) THEN FALSE ELSE contr_empty_bus[p]
    BY <1>1 DEF processors!Edge, processors!add_to_queue
  <2>2. processors!Pushed(p) = << >>
    <3> SUFFICES ASSUME processors!Pushed(p) # << >> PROVE FALSE
      OBVIOUS
    <3>1. ~processors!Accepts(p) /\ contr_empty_bus[p]
      BY <1>4, <2>1
    <3>2. pu_queue[p] = << >>
      BY <3>1 DEF DispatchInv, UnitInv
    <3> QED BY <3>1, <3>2 DEF processors!Pushed
  <2>3. ~Busy(p)
    BY <1>1, <1>4, <2>1, <2>2
  <2>4. ~processors!Takes(p)
    BY <2>2 DEF processors!Takes
  <2>5. pu_queue'[p] = << >>
    BY <1>1, <2>2, <2>4, QueueAfter
  <2>6. pu_pc'[p] = "idle"
    BY <1>1, <2>3, <2>4 DEF processors!Edge, processors!process, processors!NextPc,
                            processors!AtHead, Busy
  <2> QED BY <2>5, <2>6 DEF Busy
<1>5. resmem_w_bus'[p] => pu_pc'[p] = "store"
  <2>1. resmem_w_bus[p] => pu_pc[p] = "store"
    BY DEF DispatchInv, UnitInv
  <2>2. resmem_w_bus'[p] = (pu_pc[p] = "bias2" \/ (resmem_w_bus[p] /\ pu_pc[p] # "store"))
    BY <1>1 DEF processors!Edge, processors!process, processors!Finishes
  <2>3. pu_pc[p] = "bias2" => pu_pc'[p] = "store"
    BY <1>1 DEF processors!Edge, processors!process, processors!NextPc,
                processors!AtHead, processors!Takes
  <2> QED BY <2>1, <2>2, <2>3
<1> QED BY <1>2, <1>3, <1>4, <1>5

(* Every step of the accelerator keeps the dispatch invariant.             *)
LEMMA StepDispatch ==
  ASSUME TypeOK, DispatchInv, [Next]_vars
  PROVE  DispatchInv'
<1>1. CASE Edge
  BY <1>1, StepGenerator, StepUnits DEF DispatchInv, Edge, end_reducer!reduce
<1>2. CASE Abort \/ Over \/ UNCHANGED vars
  <2>1. UNCHANGED <<genVars, puVars, cycle_ended>>
    BY <1>2 DEF Abort, Over, vars
  <2> QED BY <2>1 DEF DispatchInv, GeneratorInv, UnitInv, Busy, end_reducer!AllEnded,
                      genVars, puVars
<1> QED BY <1>1, <1>2 DEF Next

(***************************************************************************)
(* The dispatch invariant holds at every edge: reports are never below the *)
(* queue lengths, so the handshake of generator.cpp with add_to_queue of   *)
(* processor.cpp is safe although the reports are an edge old.             *)
(***************************************************************************)
THEOREM DispatchInvariant == Spec => []DispatchInv
<1> QED BY TypeCorrect, InitDispatch, StepDispatch, PTL DEF Spec

(***************************************************************************)
(* No unit ever drops a neuron, however slow the units and however short   *)
(* the queues.                                                             *)
(***************************************************************************)
THEOREM NeuronsNotLost == Spec => []NoNeuronLost
<1>1. DispatchInv => NoNeuronLost
  BY DEF DispatchInv, GeneratorInv, NoNeuronLost
<1> QED BY <1>1, DispatchInvariant, PTL

(***************************************************************************)
(* The end of a cycle is never reported while a neuron is on the bus, in a *)
(* queue, in a unit or on its way to NEXT_LAYER.                           *)
(***************************************************************************)
THEOREM EndsNotPremature == Spec => []NoPrematureEnd
<1>1. DispatchInv => NoPrematureEnd
  <2> SUFFICES ASSUME DispatchInv, cycle_ended
               PROVE  Places = {}
    BY DEF NoPrematureEnd
  <2>1. gen_end /\ \A p \in PC : contr_empty_bus[p]
    BY DEF DispatchInv, end_reducer!AllEnded, end_reducer!PC, PC
  <2>2. ~gen_write
    BY <2>1 DEF DispatchInv, GeneratorInv
  <2>3. \A p \in PC : pu_queue[p] = << >> /\ ~Busy(p)
    BY <2>1 DEF DispatchInv, UnitInv
  <2>4. Queued = {}
    BY <2>3 DEF Queued
  <2>5. OnBus = {} /\ BeingDone = {}
    BY <2>2, <2>3 DEF OnBus, BeingDone
  <2> QED BY <2>4, <2>5 DEF Places
<1> QED BY <1>1, DispatchInvariant, PTL

----------------------------------------------------------------------------
(***************************************************************************)
(* The phases of a run.  The controller's position determines which of its *)
(* lines is up, when the units may work, when the copy is under way, and   *)
(* that IO has left the bus; from it follows that nothing a working unit   *)
(* reads ever changes, that no command pulse is missed, and that the       *)
(* queues grow alike.                                                      *)
(***************************************************************************)
(* Each command line is up at one wait() of the controller and no other.   *)
LineInv ==
  /\ save_prev_layer_size <=> ctrl_pc = "save"
  /\ next_layer <=> ctrl_pc = "next"
  /\ start_generator <=> ctrl_pc = "gen"
  /\ clr_prev_layer_controller_bus <=> ctrl_pc = "clear"
  /\ start_clone_controller_bus <=> ctrl_pc = "clone"

(* Generator and units are at rest except in a cycle.                      *)
RestInv == ctrl_pc \notin {"settle", "cycle"} => end_reducer!AllEnded

(* The copy is under way only while the controller awaits its end.         *)
CloneInv ==
  /\ end_clone_controller_bus => ctrl_pc = "cloned" /\ plc_pc = "idle"
  /\ plc_pc = "copy" => ctrl_pc = "cloned"
  /\ wr_to_mem_from_mem_ctrl_mem_bus \/ next_memory_transmit => plc_pc = "copy"
  /\ clr_prev_layer_ctrl_mem_bus => ctrl_pc = "clone"

SizeAt(k) == IF Len(layers_memory) > k THEN layers_memory[k + 1] ELSE 0

(* The size of the layer is unsettled only on the edge after the next one  *)
(* was selected, and so, in a cycle, is neither of the two.                *)
SizeInv ==
  /\ ctrl_pc \notin {"idle", "read", "gen"} => data_layer = SizeAt(layers_index)
  /\ ctrl_pc \in {"gen", "settle", "cycle"} => previous_data_layer = prev_layer_size

(* What IO last sent is on the bus; the last thing it sends is a command;  *)
(* only results, which are numbers, come after it.                         *)
BusInv ==
  /\ io_beat = 0 => addr_io_bus = 0 /\ ~wr_io_bus
  /\ io_beat \in 1 .. Len(io_module!Beats) =>
       /\ addr_io_bus = io_module!Beats[io_beat].addr
       /\ data_io_bus = io_module!Beats[io_beat].data
       /\ wr_io_bus
  /\ io_beat >= Len(io_module!Beats) => addr_io_bus = 0
  /\ io_beat > Len(io_module!Beats) => (wr_io_bus => data_io_bus \in Number)

(* The controller starts after IO has sent everything, once.               *)
StartInv ==
  /\ ctrl_pc = "idle" => ctrl_state = "IDLE" /\ start_weight_adderess = 0
  /\ Started => io_beat > Len(io_module!Beats)
  /\ wr_to_io_ctrl_mem_bus => write_out_controller_bus
  /\ write_out_controller_bus => ctrl_pc = "idle"

PhaseInv == LineInv /\ RestInv /\ CloneInv /\ SizeInv /\ BusInv /\ StartInv

----------------------------------------------------------------------------
NoStart == {b \in Beat : b.data # NegInf}

(* Data beats are not start commands.                                      *)
LEMMA AtNoStart ==
  ASSUME NEW a \in 1 .. 3, NEW values \in Seq(Number)
  PROVE  io_module!At(a, values) \in Seq(NoStart)
<1>1. values \in [1 .. Len(values) -> Number] /\ Len(values) \in Nat
  OBVIOUS
<1>2. io_module!At(a, values) \in [1 .. Len(values) -> NoStart]
  BY <1>1 DEF io_module!At, NoStart, Beat, Number
<1> QED BY <1>1, <1>2, SeqDef

(***************************************************************************)
(* The start command is the last beat of write_data_to_system, and no      *)
(* other beat looks like it.                                               *)
(***************************************************************************)
LEMMA BeatsShape ==
  ASSUME files \in Inputs
  PROVE  /\ Len(io_module!Beats) \in Nat \ {0}
         /\ io_module!Beats[Len(io_module!Beats)].addr = 0
         /\ \A k \in 1 .. Len(io_module!Beats) - 1 : io_module!Beats[k] \in NoStart
<1> DEFINE cfg == files.config
           n == io_module!LayersCount(cfg)
           opening == io_module!At(0, <<io_module!PosInf, io_module!OfInt(n)>>)
           body == opening \o io_module!At(1, io_module!SizesAsFloats(cfg))
                     \o io_module!At(2, files.picture)
                     \o io_module!At(3, io_module!Weights(cfg))
           last == io_module!At(0, <<io_module!NegInf>>)
<1>1. opening \in Seq(NoStart)
  <2>1. opening = <<[addr |-> 0, data |-> PosInf], [addr |-> 0, data |-> OfInt(n)]>>
    BY DEF io_module!At, io_module!PosInf, io_module!OfInt, PosInf, OfInt
  <2>2. PosInf # NegInf /\ OfInt(n) # NegInf
    BY DEF PosInf, NegInf, OfInt
  <2>3. PosInf \in Float /\ OfInt(n) \in Float
    BY SentTypes, FloatTypes
  <2>4. /\ [addr |-> 0, data |-> PosInf] \in NoStart
        /\ [addr |-> 0, data |-> OfInt(n)] \in NoStart
    BY <2>2, <2>3 DEF NoStart, Beat
  <2> HIDE DEF opening
  <2> QED BY <2>1, <2>4
<1>2. /\ io_module!At(1, io_module!SizesAsFloats(cfg)) \in Seq(NoStart)
      /\ io_module!At(2, files.picture) \in Seq(NoStart)
      /\ io_module!At(3, io_module!Weights(cfg)) \in Seq(NoStart)
  <2>1. \A a \in 1 .. 3, values \in Seq(Number) : io_module!At(a, values) \in Seq(NoStart)
    BY AtNoStart
  <2>2. 1 \in 1 .. 3 /\ 2 \in 1 .. 3 /\ 3 \in 1 .. 3
    OBVIOUS
  <2> QED BY <2>1, <2>2, SentTypes
<1>3. last = <<[addr |-> 0, data |-> NegInf]>>
  BY DEF io_module!At, io_module!NegInf, NegInf
<1>4. io_module!Beats = body \o last
  BY DEF io_module!Beats
<1>5. body \in Seq(NoStart)
  <2>1. \A s1, s2, s3, s4 \in Seq(NoStart) : s1 \o s2 \o s3 \o s4 \in Seq(NoStart)
    OBVIOUS
  <2> HIDE DEF opening, cfg
  <2> QED BY <1>1, <1>2, <2>1
<1> HIDE DEF body, last
<1> QED BY <1>3, <1>4, <1>5

(* From the start on the address line of the IO bus is 0.                  *)
LEMMA AfterStart ==
  ASSUME TypeOK, PhaseInv, Started
  PROVE  io_beat > Len(io_module!Beats) /\ addr_io_bus = 0
<1>1. io_beat > Len(io_module!Beats) /\ io_beat \in Nat /\ Len(io_module!Beats) \in Nat
  BY BeatsShape DEF PhaseInv, StartInv, TypeOK, io_module!TypeOK
<1>2. io_beat >= Len(io_module!Beats)
  BY <1>1
<1> QED BY <1>1, <1>2 DEF PhaseInv, BusInv

----------------------------------------------------------------------------
(* Where the thread of CONTROLLER goes from each of its wait()s.  The line *)
(* that shows the result goes up with the return to rest, and stays up.    *)
Moves ==
  /\ ctrl_pc = "idle" =>
       \/ ctrl_pc' \in {"idle", "read"}
       \/ ctrl_pc' = "save" /\ controller!Sampled = "START_CONV"
  /\ ctrl_pc = "read"   => ctrl_pc' \in {"idle", "read"}
  /\ ctrl_pc = "save"   => ctrl_pc' = "next"
  /\ ctrl_pc = "next"   => ctrl_pc' = "gen"
  /\ ctrl_pc = "gen"    => ctrl_pc' = "settle"
  /\ ctrl_pc = "settle" => ctrl_pc' = "cycle"
  /\ ctrl_pc = "cycle"  => ctrl_pc' = "cycle" \/ (ctrl_pc' = "clear" /\ cycle_ended)
  /\ ctrl_pc = "clear"  => ctrl_pc' = "clone"
  /\ ctrl_pc \in {"clone", "cloned"} =>
       ctrl_pc' \in IF end_clone_controller_bus THEN {"save", "idle"} ELSE {"cloned"}
  /\ write_out_controller_bus => write_out_controller_bus'
  /\ write_out_controller_bus' => write_out_controller_bus \/ ctrl_pc' = "idle"
  /\ Started' => Started \/ (ctrl_pc = "idle" /\ controller!Sampled = "START_CONV")

(***************************************************************************)
(* A step of CONTROLLER moves so, keeps the invariant of its lines, keeps  *)
(* the weight base in a cycle and is in state IDLE when it gets to rest.   *)
(***************************************************************************)
LEMMA ControllerSteps ==
  ASSUME TypeOK, LineInv, controller!process
  PROVE  /\ Moves
         /\ LineInv'
         /\ ctrl_pc \in {"settle", "cycle"} => UNCHANGED start_weight_adderess
         /\ ctrl_pc' = "idle" => ctrl_state' = "IDLE" /\ start_weight_adderess' = 0
<1> DEFINE Goal ==
      /\ Moves
      /\ LineInv'
      /\ ctrl_pc \in {"settle", "cycle"} => UNCHANGED start_weight_adderess
      /\ ctrl_pc' = "idle" => ctrl_state' = "IDLE" /\ start_weight_adderess' = 0
<1> USE DEF LineInv, save_prev_layer_size, next_layer, start_generator, Started,
            clr_prev_layer_controller_bus, start_clone_controller_bus,
            write_out_controller_bus
<1>1. ASSUME NEW k, NEW b, NEW d, controller!NextLayerOrEnd(k, b, d)
      PROVE  \/ /\ ctrl_pc' = "save"
                /\ ctrl_high' = (ctrl_high \ {d}) \union {"save_prev_layer_size_o"}
             \/ /\ ctrl_pc' = "idle"
                /\ ctrl_state' = "IDLE" /\ start_weight_adderess' = 0
                /\ ctrl_high' = (ctrl_high \ {d}) \union {"write_out_controller_layer_o"}
  BY <1>1 DEF controller!NextLayerOrEnd, controller!Pulse, controller!Rest
<1>2. CASE controller!StayIdle
  BY <1>2 DEF controller!StayIdle, controller!Rest, Moves
<1>3. CASE controller!BeginRead
  BY <1>3 DEF controller!BeginRead, Moves
<1>4. CASE controller!ReadLayers
  BY <1>4 DEF controller!ReadLayers, controller!Rest, Moves
<1>5. CASE controller!StartConv
  <2>1. /\ ctrl_pc = "idle" /\ controller!Sampled = "START_CONV"
        /\ controller!NextLayerOrEnd(0, start_weight_adderess, "none")
    BY <1>5 DEF controller!StartConv
  <2> QED BY <1>1, <2>1 DEF Moves
<1>6. CASE controller!SelectLayer
  BY <1>6 DEF controller!SelectLayer, controller!Pulse, Moves
<1>7. CASE controller!StartGenerator
  BY <1>7 DEF controller!StartGenerator, controller!Pulse, Moves
<1>8. CASE controller!EndStart
  BY <1>8 DEF controller!EndStart, controller!Lower, Moves
<1>9. CASE controller!Settle
  BY <1>9 DEF controller!Settle, controller!loop, Moves
<1>10. CASE controller!AwaitCycle
  BY <1>10 DEF controller!AwaitCycle, controller!loop, Moves
<1>11. CASE controller!StartClone
  BY <1>11 DEF controller!StartClone, controller!Pulse, Moves
<1>12. CASE controller!AwaitClone
  <2>1. CASE ~end_clone_controller_bus
    BY <1>12, <2>1 DEF controller!AwaitClone, controller!Lower, Moves
  <2>2. CASE end_clone_controller_bus
    <3>1. PICK k, b : controller!NextLayerOrEnd(k, b, "start_clone_controller_layer_o")
      BY <1>12, <2>2 DEF controller!AwaitClone
    <3>2. ctrl_pc \in {"clone", "cloned"}
      BY <1>12 DEF controller!AwaitClone
    <3> QED BY <1>1, <2>2, <3>1, <3>2 DEF Moves
  <2> QED BY <2>1, <2>2
<1> QED BY <1>2, <1>3, <1>4, <1>5, <1>6, <1>7, <1>8, <1>9, <1>10, <1>11, <1>12
     DEF controller!process

(***************************************************************************)
(* Generator and units at rest stay so until the generator's start line    *)
(* goes up.                                                                *)
(***************************************************************************)
LEMMA QuietStays ==
  ASSUME TypeOK, DispatchInv, Edge, end_reducer!AllEnded, ~start_generator
  PROVE  end_reducer!AllEnded'
<1> USE DEF DispatchInv
<1>1. gen_end /\ \A p \in PC : contr_empty_bus[p]
  BY DEF end_reducer!AllEnded, end_reducer!PC, PC
<1>2. gen_pc = "idle" /\ gen_state = "IDLE" /\ ~gen_write
  BY <1>1 DEF GeneratorInv
<1>3. gen_end'
  BY <1>2 DEF Edge, generator!generate, generator!Idle, generator!Enter,
              generator!Choose, generator!Withdraw
<1>4. ASSUME NEW p \in PC
      PROVE  contr_empty_bus'[p]
  <2>1. pu_queue[p] = << >> /\ ~pu_is_working[p]
    BY <1>1 DEF UnitInv
  <2>2. processors!Pushed(p) = << >>
    BY <1>2, <2>1 DEF processors!Pushed, processors!Accepts
  <2> QED BY <2>1, <2>2 DEF Edge, processors!Edge, processors!add_to_queue,
                            processors!PC, PC
<1> QED BY <1>3, <1>4 DEF end_reducer!AllEnded, end_reducer!PC, PC

(* The units come to rest before the controller leaves the cycle.          *)
LEMMA StepRest ==
  ASSUME TypeOK, DispatchInv, PhaseInv, Edge
  PROVE  RestInv'
<1> SUFFICES ASSUME ctrl_pc' \notin {"settle", "cycle"}
             PROVE  end_reducer!AllEnded'
  BY DEF RestInv
<1>1. Moves
  BY ControllerSteps DEF PhaseInv, Edge
<1>2. ctrl_pc \notin {"gen", "settle"}
  BY <1>1 DEF Moves
<1>3. end_reducer!AllEnded
  BY <1>1, <1>2 DEF Moves, DispatchInv, PhaseInv, RestInv
<1>4. ~start_generator
  BY <1>2 DEF PhaseInv, LineInv
<1> QED BY <1>3, <1>4, QuietStays

(* The copy starts and ends while the controller awaits its end.           *)
LEMMA StepClone ==
  ASSUME TypeOK, PhaseInv, Edge
  PROVE  CloneInv'
<1>1. Moves
  BY ControllerSteps DEF PhaseInv, Edge
<1> USE DEF PhaseInv, LineInv, CloneInv, Moves
<1>2. clr_prev_layer_ctrl_mem_bus' => ctrl_pc' = "clone"
  BY <1>1 DEF Edge, previous_layer_controller!Edge, previous_layer_controller!clear
<1>3. CASE previous_layer_controller!AwaitStart
  BY <1>2, <1>3 DEF previous_layer_controller!AwaitStart
<1>4. CASE previous_layer_controller!BeginCopy
  BY <1>1, <1>2, <1>4 DEF previous_layer_controller!BeginCopy
<1>5. CASE previous_layer_controller!CopyWord
  BY <1>1, <1>2, <1>5 DEF previous_layer_controller!CopyWord
<1>6. CASE previous_layer_controller!EndCopy
  BY <1>1, <1>2, <1>6 DEF previous_layer_controller!EndCopy
<1> QED BY <1>3, <1>4, <1>5, <1>6
        DEF Edge, previous_layer_controller!Edge, previous_layer_controller!copy_memory

(* The sizes settle before they are used and are not touched in between.   *)
LEMMA StepSize ==
  ASSUME TypeOK, PhaseInv, Edge
  PROVE  SizeInv'
<1>1. Moves
  BY ControllerSteps DEF PhaseInv, Edge
<1>2. ASSUME ctrl_pc' \notin {"idle", "read", "gen"}
      PROVE  data_layer' = SizeAt(layers_index)'
  <2>1. ctrl_pc \notin {"read", "next"}
    BY <1>1, <1>2 DEF Moves
  <2>2. ~next_layer
    BY <2>1 DEF PhaseInv, LineInv
  <2>3. addr_io_bus = 0
    <3>1. CASE ctrl_pc = "idle"
      <4>1. controller!Sampled = "START_CONV"
        BY <1>1, <1>2, <3>1 DEF Moves
      <4> QED BY <3>1, <4>1 DEF PhaseInv, StartInv, controller!Sampled,
                   controller!state_start_conv, controller!state_read_data
    <3>2. CASE ctrl_pc # "idle"
      BY <2>1, <3>2, AfterStart DEF Started
    <3> QED BY <3>1, <3>2
  <2>4. UNCHANGED <<layers_index, layers_memory>>
    BY <2>2, <2>3 DEF Edge, layers_storage!Edge, layers_storage!next_element,
                      layers_storage!add_to_queue
  <2> QED BY <2>4 DEF Edge, layers_storage!Edge, layers_storage!issue_element,
                      layers_storage!Element, SizeAt
<1>3. ASSUME ctrl_pc' \in {"gen", "settle", "cycle"}
      PROVE  previous_data_layer' = prev_layer_size'
  <2>1. ~save_prev_layer_size
    BY <1>1, <1>3 DEF Moves, TypeOK, controller!TypeOK, PhaseInv, LineInv
  <2> QED BY <2>1 DEF Edge, previous_layer_size!Edge,
                      previous_layer_size!save_new_element,
                      previous_layer_size!pass_new_element
<1> QED BY <1>2, <1>3 DEF SizeInv

(* IO sends its beats one after the other and then leaves the bus.         *)
LEMMA StepBus ==
  ASSUME TypeOK, BusInv, Edge
  PROVE  /\ BusInv'
         /\ io_beat' \in Nat /\ io_beat' >= io_beat
         /\ io_beat >= Len(io_module!Beats) => io_beat' > Len(io_module!Beats)
<1> DEFINE beats == io_module!Beats
           n == Len(beats)
<1>1. /\ n \in Nat \ {0} /\ io_beat \in Nat
      /\ beats[n].addr = 0
  BY BeatsShape DEF TypeOK, io_module!TypeOK
<1>2. beats' = beats
  BY DEF Edge, io_module!Beats, io_module!At, io_module!SizesAsFloats,
         io_module!LayersCount, io_module!LayerSizes, io_module!Weights
<1> HIDE DEF beats
<1>3. BusInv' <=>
        /\ io_beat' = 0 => addr_io_bus' = 0 /\ ~wr_io_bus'
        /\ io_beat' \in 1 .. n =>
             /\ addr_io_bus' = beats[io_beat'].addr
             /\ data_io_bus' = beats[io_beat'].data
             /\ wr_io_bus'
        /\ io_beat' >= n => addr_io_bus' = 0
        /\ io_beat' > n => (wr_io_bus' => data_io_bus' \in Number)
  BY <1>2 DEF BusInv, beats
<1>4. /\ io_beat >= n => addr_io_bus = 0
      /\ io_beat > n => (wr_io_bus => data_io_bus \in Number)
  BY DEF BusInv, beats
<1>5. CASE io_module!Send
  BY <1>1, <1>3, <1>5 DEF io_module!Send, beats
<1>6. CASE io_module!Finish
  BY <1>1, <1>3, <1>4, <1>6 DEF io_module!Finish, beats
<1>7. CASE io_module!Ended
  <2>1. io_beat > n /\ UNCHANGED <<addr_io_bus, io_beat>>
    BY <1>7 DEF io_module!Ended, beats
  <2>2. data_io_bus' \in Number \/ HoldBus(FALSE)
    BY PreviousLayerTypes DEF Edge
  <2>3. HoldBus(FALSE) => UNCHANGED <<data_io_bus, wr_io_bus>>
    BY <1>1, <2>1 DEF HoldBus, io_module!DrivesData, io_module!DrivesWr, beats
  <2>4. io_beat' > n => (wr_io_bus' => data_io_bus' \in Number)
    BY <1>4, <2>1, <2>2, <2>3
  <2>5. BusInv'
    BY <1>1, <1>3, <1>4, <2>1, <2>4
  <2> QED BY <1>1, <2>1, <2>5 DEF beats
<1> QED BY <1>5, <1>6, <1>7 DEF Edge, io_module!Edge, io_module!write_data_to_system

(* While the result is shown nothing on the bus is a command.              *)
LEMMA ShownRests ==
  ASSUME TypeOK, PhaseInv, controller!process, write_out_controller_bus
  PROVE  controller!StayIdle
<1>1. ctrl_pc = "idle" /\ ctrl_state = "IDLE" /\ Started
  BY DEF PhaseInv, StartInv, Started
<1>2. io_beat > Len(io_module!Beats)
  BY <1>1, AfterStart
<1>3. wr_io_bus => data_io_bus # controller!PosInf /\ data_io_bus # controller!NegInf
  BY <1>2 DEF PhaseInv, BusInv, Number, PosInf, NegInf, controller!PosInf,
              controller!NegInf
<1>4. controller!Sampled = "IDLE"
  BY <1>1, <1>3 DEF controller!Sampled, controller!state_start_conv,
                    controller!state_read_data
<1> QED BY <1>1, <1>4 DEF controller!process, controller!BeginRead,
      controller!ReadLayers, controller!StartConv, controller!SelectLayer,
      controller!StartGenerator, controller!EndStart, controller!Settle,
      controller!AwaitCycle, controller!StartClone, controller!AwaitClone

(* Only the last beat of IO starts the controller.                         *)
LEMMA StepStart ==
  ASSUME TypeOK, PhaseInv, Edge
  PROVE  StartInv'
<1> DEFINE n == Len(io_module!Beats)
<1>1. /\ Moves
      /\ ctrl_pc' = "idle" => ctrl_state' = "IDLE" /\ start_weight_adderess' = 0
  BY ControllerSteps DEF PhaseInv, Edge
<1>2. /\ n \in Nat \ {0} /\ io_beat \in Nat /\ io_beat' \in Nat
      /\ io_beat' >= io_beat
      /\ io_beat >= n => io_beat' > n
  BY BeatsShape, StepBus DEF PhaseInv, TypeOK, io_module!TypeOK
<1>3. n' = n
  BY DEF Edge, io_module!Beats, io_module!At, io_module!SizesAsFloats,
         io_module!LayersCount, io_module!LayerSizes, io_module!Weights
<1>4. ASSUME ctrl_pc = "idle", controller!Sampled = "START_CONV"
      PROVE  io_beat = n
  <2>1. addr_io_bus = 0 /\ data_io_bus = NegInf /\ wr_io_bus
    BY <1>4 DEF controller!Sampled, controller!state_start_conv, PhaseInv, StartInv,
                controller!state_read_data, controller!NegInf, NegInf
  <2>2. io_beat # 0
    BY <2>1 DEF PhaseInv, BusInv
  <2>3. io_beat \notin 1 .. n - 1
    <3> SUFFICES ASSUME io_beat \in 1 .. n - 1 PROVE FALSE
      OBVIOUS
    <3>1. io_module!Beats[io_beat] \in NoStart
      BY BeatsShape DEF TypeOK
    <3>2. io_beat \in 1 .. n
      BY <1>2
    <3> QED BY <2>1, <3>1, <3>2 DEF PhaseInv, BusInv, NoStart
  <2>4. ~(io_beat > n)
    BY <2>1 DEF PhaseInv, BusInv, Number
  <2> QED BY <1>2, <2>2, <2>3, <2>4
<1>5. Started => io_beat > n
  BY DEF PhaseInv, StartInv
<1> HIDE DEF n
<1>6. Started' => io_beat' > n
  BY <1>1, <1>2, <1>4, <1>5 DEF Moves
<1>7. wr_to_io_ctrl_mem_bus' => write_out_controller_bus'
  BY <1>1 DEF Moves, Edge, previous_layer_controller!Edge,
              previous_layer_controller!write_out_to_IO
<1>8. ASSUME write_out_controller_bus'
      PROVE  ctrl_pc' = "idle"
  <2>1. CASE write_out_controller_bus
    BY <2>1, ShownRests DEF Edge, controller!StayIdle, controller!Rest
  <2>2. CASE ~write_out_controller_bus
    BY <1>1, <1>8, <2>2 DEF Moves
  <2> QED BY <2>1, <2>2
<1> QED BY <1>1, <1>3, <1>6, <1>7, <1>8 DEF StartInv, n

(* The phase invariant holds before the first edge.                        *)
LEMMA InitPhase == Init => PhaseInv
<1> SUFFICES ASSUME Init PROVE PhaseInv
  OBVIOUS
<1> USE DEF Init
<1>1. LineInv
  BY DEF LineInv, controller!Init, save_prev_layer_size, next_layer, start_generator,
         clr_prev_layer_controller_bus, start_clone_controller_bus
<1>2. RestInv
  BY DEF RestInv, end_reducer!AllEnded, end_reducer!PC, generator!Init,
         processors!Init, processors!All, processors!PC, PC
<1>3. CloneInv
  BY DEF CloneInv, previous_layer_controller!Init
<1>4. SizeInv
  BY DEF SizeInv, controller!Init
<1>5. BusInv
  BY DEF BusInv, io_module!Init
<1>6. StartInv
  BY DEF StartInv, Started, controller!Init, write_out_controller_bus,
         previous_layer_controller!Init
<1> QED BY <1>1, <1>2, <1>3, <1>4, <1>5, <1>6 DEF PhaseInv

(* Every step keeps the phase invariant.                                   *)
LEMMA StepPhase ==
  ASSUME TypeOK, DispatchInv, PhaseInv, [Next]_vars
  PROVE  PhaseInv'
<1>1. CASE Edge
  <2>1. LineInv'
    BY <1>1, ControllerSteps DEF PhaseInv, Edge
  <2> QED BY <1>1, <2>1, StepRest, StepClone, StepSize, StepBus, StepStart DEF PhaseInv
<1>2. CASE Abort \/ Over \/ UNCHANGED vars
  <2>1. UNCHANGED <<ioVars, ctrlVars, storeVars, plcVars, genVars, puVars>>
    BY <1>2 DEF Abort, Over, vars
  <2>2. LineInv' /\ RestInv' /\ CloneInv' /\ SizeInv'
    BY <2>1 DEF PhaseInv, LineInv, RestInv, CloneInv, SizeInv, SizeAt,
                end_reducer!AllEnded, save_prev_layer_size, next_layer,
                start_generator, clr_prev_layer_controller_bus,
                start_clone_controller_bus, ctrlVars, storeVars, plcVars, genVars,
                puVars
  <2>3. io_module!Beats' = io_module!Beats
    BY <2>1 DEF ioVars, io_module!Beats, io_module!At, io_module!SizesAsFloats,
                io_module!LayersCount, io_module!LayerSizes, io_module!Weights
  <2>4. BusInv' /\ StartInv'
    BY <2>1, <2>3 DEF PhaseInv, BusInv, StartInv, Started, write_out_controller_bus,
                      ioVars, ctrlVars, plcVars
  <2> QED BY <2>2, <2>4 DEF PhaseInv
<1> QED BY <1>1, <1>2 DEF Next

(***************************************************************************)
(* The phases are as described at every edge, for every network.           *)
(***************************************************************************)
THEOREM PhaseInvariant == Spec => []PhaseInv
<1> QED BY TypeCorrect, DispatchInvariant, InitPhase, StepPhase, PTL DEF Spec

----------------------------------------------------------------------------
(* A unit computes, and the generator generates, only in a cycle.          *)
LEMMA WorkOnlyInCycle ==
  ASSUME DispatchInv, RestInv,
         gen_state = "GENERATE" \/ ~gen_end \/ \E p \in PC : Busy(p)
  PROVE  ctrl_pc \in {"settle", "cycle"}
<1>1. ~end_reducer!AllEnded
  BY DEF DispatchInv, GeneratorInv, UnitInv, end_reducer!AllEnded, end_reducer!PC, PC
<1> QED BY <1>1 DEF RestInv

(* In a cycle, what the units compute from and the generator counts to is  *)
(* left alone.                                                             *)
LEMMA CycleKeepsInputs ==
  ASSUME TypeOK, DispatchInv, PhaseInv, Edge, ctrl_pc \in {"settle", "cycle"}
  PROVE  UNCHANGED <<prev_memory, weight_memory, previous_data_layer,
                     start_weight_adderess, data_layer>>
<1>1. addr_io_bus = 0
  BY AfterStart DEF Started
<1>2. ~wr_to_mem_from_mem_ctrl_mem_bus /\ ~clr_prev_layer_ctrl_mem_bus
  BY DEF PhaseInv, CloneInv
<1>3. prev_memory' = prev_memory
  BY <1>1, <1>2 DEF Edge, PreviousLayerEdge, previous_layer!Added,
     previous_layer!add_to_mem_and_clear, previous_layer!Push, previous_layer!Cleared
<1>4. weight_memory' = weight_memory
  BY <1>1 DEF Edge, weight_storage!Edge, weight_storage!add_to_memory
<1>5. previous_data_layer' = previous_data_layer
  <2>1. ~save_prev_layer_size /\ previous_data_layer = prev_layer_size
    BY DEF PhaseInv, LineInv, SizeInv
  <2> QED BY <2>1 DEF Edge, previous_layer_size!Edge,
       previous_layer_size!save_new_element, previous_layer_size!pass_new_element
<1>6. start_weight_adderess' = start_weight_adderess
  BY ControllerSteps DEF Edge, PhaseInv
<1>7. data_layer' = data_layer
  <2>1. ~next_layer /\ data_layer = SizeAt(layers_index)
    BY DEF PhaseInv, LineInv, SizeInv
  <2>2. UNCHANGED <<layers_index, layers_memory>>
    BY <1>1, <2>1 DEF Edge, layers_storage!Edge, layers_storage!next_element,
                            layers_storage!add_to_queue
  <2> QED BY <2>1, <2>2 DEF Edge, layers_storage!Edge,
                                  layers_storage!issue_element,
                                  layers_storage!Element, SizeAt
<1> QED BY <1>3, <1>4, <1>5, <1>6, <1>7

(***************************************************************************)
(* Nothing a working unit reads ever changes under it, nor the number of   *)
(* neurons under the generator, although the modules that hold them are    *)
(* never told that somebody works (InputsStable).                          *)
(***************************************************************************)
THEOREM InputsDoNotChange == Spec => InputsStable
<1>1. TypeOK /\ DispatchInv /\ PhaseInv /\ [Next]_vars => [KeepInputs]_vars
  <2> SUFFICES ASSUME TypeOK, DispatchInv, PhaseInv, [Next]_vars
               PROVE  KeepInputs \/ UNCHANGED vars
    OBVIOUS
  <2>1. CASE Edge
    BY <2>1, CycleKeepsInputs, WorkOnlyInCycle DEF KeepInputs, PhaseInv
  <2>2. CASE Abort \/ Over \/ UNCHANGED vars
    BY <2>2 DEF Abort, Over, vars, KeepInputs, storeVars, prevVars, ctrlVars
  <2> QED BY <2>1, <2>2 DEF Next
<1> QED BY <1>1, TypeCorrect, DispatchInvariant, PhaseInvariant, PTL
        DEF Spec, InputsStable

(***************************************************************************)
(* The pulses of generator and copy controller, each an edge long, always  *)
(* find the module they are meant for at the wait() that looks at them.    *)
(***************************************************************************)
THEOREM PulsesAreHeard == Spec => []PulsesHeard
<1>1. ASSUME TypeOK, DispatchInv, PhaseInv
      PROVE  PulsesHeard
  <2>1. start_generator => gen_pc = "idle" /\ gen_state = "IDLE"
    <3>1. start_generator => gen_end
      BY <1>1, WorkOnlyInCycle DEF PhaseInv, LineInv
    <3> QED BY <1>1, <3>1 DEF DispatchInv, GeneratorInv
  <2>2. start_clone_controller_bus => plc_pc = "idle"
    BY <1>1 DEF PhaseInv, LineInv, CloneInv, TypeOK, previous_layer_controller!TypeOK
  <2>3. end_clone_controller_bus => ctrl_pc \in {"clone", "cloned"}
    BY <1>1 DEF PhaseInv, CloneInv
  <2> QED BY <2>1, <2>2, <2>3 DEF PulsesHeard
<1> QED BY <1>1, TypeCorrect, DispatchInvariant, PhaseInvariant, PTL

(* IO has left the bus for good when PREVIOUS_LAYER drives it.             *)
THEOREM OneDriver == Spec => []BusOneDriver
<1>1. ASSUME TypeOK, PhaseInv
      PROVE  BusOneDriver
  <2> SUFFICES ASSUME wr_to_io_ctrl_mem_bus
               PROVE  ~io_module!DrivesWr
    BY DEF BusOneDriver
  <2>1. Started
    BY <1>1 DEF PhaseInv, StartInv, Started
  <2>2. io_beat > Len(io_module!Beats) /\ io_beat \in Nat /\ Len(io_module!Beats) \in Nat
    BY <1>1, <2>1, AfterStart, BeatsShape DEF TypeOK, io_module!TypeOK
  <2> QED BY <2>2 DEF io_module!DrivesWr
<1> QED BY <1>1, TypeCorrect, PhaseInvariant, PTL

(***************************************************************************)
(* No two methods that change the members of PREVIOUS_LAYER or NEXT_LAYER  *)
(* have something to do on the same edge, so what these hold after it does *)
(* not depend on the order SystemC leaves open.                            *)
(***************************************************************************)
THEOREM ChangesAreExclusive == Spec => []ChangesExclusive
<1>1. ASSUME TypeOK, DispatchInv, PhaseInv
      PROVE  ChangesExclusive
  <2> DEFINE lines == <<wr_io_bus /\ addr_io_bus = 2, wr_to_mem_from_mem_ctrl_mem_bus,
                        wr_to_io_ctrl_mem_bus, clr_prev_layer_ctrl_mem_bus>>
             up == {k \in 1 .. 4 : lines[k]}
  <2>1. Started => addr_io_bus = 0
    BY <1>1, AfterStart
  <2>2. \A j, k \in 1 .. 4 : lines[j] /\ lines[k] => j = k
    <3>1. wr_to_mem_from_mem_ctrl_mem_bus => Started /\ ctrl_pc = "cloned"
      BY <1>1 DEF PhaseInv, CloneInv, Started
    <3>2. clr_prev_layer_ctrl_mem_bus => Started /\ ctrl_pc = "clone"
      BY <1>1 DEF PhaseInv, CloneInv, Started
    <3>3. wr_to_io_ctrl_mem_bus => Started /\ ctrl_pc \in {"idle", "read"}
      BY <1>1 DEF PhaseInv, StartInv, Started
    <3>4. /\ lines[1] => wr_io_bus /\ addr_io_bus = 2
          /\ lines[2] => wr_to_mem_from_mem_ctrl_mem_bus
          /\ lines[3] => wr_to_io_ctrl_mem_bus
          /\ lines[4] => clr_prev_layer_ctrl_mem_bus
      OBVIOUS
    <3> HIDE DEF lines
    <3>5. /\ ~(lines[1] /\ lines[2]) /\ ~(lines[1] /\ lines[3]) /\ ~(lines[1] /\ lines[4])
          /\ ~(lines[2] /\ lines[3]) /\ ~(lines[2] /\ lines[4]) /\ ~(lines[3] /\ lines[4])
      BY <2>1, <3>1, <3>2, <3>3, <3>4
    <3> QED BY <3>5
  <2>3. Cardinality(up) <= 1
    <3>1. CASE up = {}
      BY <3>1, FS_EmptySet
    <3>2. CASE up # {}
      <4>1. PICK k \in up : up = {k}
        BY <2>2, <3>2
      <4>2. Cardinality({k}) = 1
        BY FS_Singleton
      <4> QED BY <4>1, <4>2
    <3> QED BY <3>1, <3>2
  <2>4. next_memory_transmit => \A p \in PC : ~resmem_w_bus[p]
    <3> SUFFICES ASSUME next_memory_transmit, NEW p \in PC, resmem_w_bus[p]
                 PROVE  FALSE
      OBVIOUS
    <3>1. Busy(p)
      BY <1>1 DEF DispatchInv, UnitInv, Busy
    <3>2. ctrl_pc \in {"settle", "cycle"}
      BY <1>1, <3>1, WorkOnlyInCycle DEF PhaseInv
    <3> QED BY <1>1, <3>2 DEF PhaseInv, CloneInv
  <2> HIDE DEF up
  <2>5. up = {k \in 1 .. 4 : lines[k]}
    BY DEF up
  <2> QED BY <2>3, <2>4, <2>5 DEF ChangesExclusive
<1> QED BY <1>1, TypeCorrect, DispatchInvariant, PhaseInvariant, PTL

(***************************************************************************)
(* The words at the ports of a unit when it adds them up were issued on an *)
(* edge of the same cycle, on which no store changed: the addresses were   *)
(* on its ports before that edge and after it.                             *)
(***************************************************************************)
WordsInv ==
  \A p \in PC :
    /\ pu_pc[p] = "mac2" =>
         data_prev_layer_bus[p] = previous_layer!Word(prev_memory, addr_prev_layer_bus[p])
    /\ pu_pc[p] \in {"mac2", "bias2"} =>
         data_weight_bus[p] = weight_storage!Word(weight_memory, addr_weight_bus[p])

LEMMA StepWords ==
  ASSUME TypeOK, DispatchInv, PhaseInv, WordsInv, [Next]_vars
  PROVE  WordsInv'
<1>1. CASE Edge
  <2> SUFFICES ASSUME NEW p \in PC, pu_pc'[p] \in {"mac2", "bias2"}
               PROVE  /\ data_prev_layer_bus'[p] =
                           previous_layer!Word(prev_memory', addr_prev_layer_bus'[p])
                      /\ data_weight_bus'[p] =
                           weight_storage!Word(weight_memory', addr_weight_bus'[p])
    BY DEF WordsInv, previous_layer!Word, weight_storage!Word
  <2>1. pu_pc[p] \in {"mac1", "bias1"}
    BY <1>1 DEF Edge, processors!Edge, processors!process, processors!NextPc,
                processors!PC, PC
  <2>2. ~processors!AtHead(p)
    BY <2>1 DEF processors!AtHead, processors!Takes
  <2>3. /\ addr_prev_layer_bus'[p] = addr_prev_layer_bus[p]
        /\ addr_weight_bus'[p] = addr_weight_bus[p]
    BY <1>1, <2>2 DEF Edge, processors!Edge, processors!process, processors!PC, PC
  <2>4. ctrl_pc \in {"settle", "cycle"}
    BY <2>1, WorkOnlyInCycle DEF PhaseInv, Busy
  <2>5. UNCHANGED <<prev_memory, weight_memory>>
    BY <1>1, <2>4, CycleKeepsInputs
  <2>6. ~wr_to_mem_from_mem_ctrl_mem_bus /\ ~clr_prev_layer_ctrl_mem_bus
        /\ addr_io_bus = 0
    BY <2>4, AfterStart DEF PhaseInv, CloneInv, Started
  <2>7. \A m \in previous_layer!Views : m = prev_memory
    BY <2>5, <2>6 DEF previous_layer!Views, previous_layer!Added,
                      previous_layer!Cleared, previous_layer!Push
  <2>8. PICK m, k : previous_layer!Edge(m, k)
    BY <1>1 DEF Edge, PreviousLayerEdge
  <2>9. data_prev_layer_bus'[p] = previous_layer!Word(prev_memory, addr_prev_layer_bus[p])
    BY <2>7, <2>8 DEF previous_layer!Edge, previous_layer!issue_element_PC,
                      previous_layer!PC, PC
  <2>10. data_weight_bus'[p] = weight_storage!Word(weight_memory, addr_weight_bus[p])
    BY <1>1, <2>5 DEF Edge, weight_storage!Edge, weight_storage!issue_element,
                      weight_storage!PC, PC
  <2> QED BY <2>3, <2>5, <2>9, <2>10
<1>2. CASE Abort \/ Over \/ UNCHANGED vars
  BY <1>2 DEF Abort, Over, vars, WordsInv, puVars, prevVars, storeVars,
              previous_layer!Word, weight_storage!Word
<1> QED BY <1>1, <1>2 DEF Next

(***************************************************************************)
(* Whoever takes a word from a line that a store refreshes on every edge   *)
(* finds there what the store holds, in whichever order the methods of the *)
(* store run.                                                              *)
(***************************************************************************)
THEOREM ReadsAreSettled == Spec => []ReadsSettled
<1>1. Init => WordsInv
  BY DEF Init, WordsInv, processors!Init, processors!All, processors!PC, PC
<1>2. ASSUME TypeOK, DispatchInv, PhaseInv, WordsInv
      PROVE  ReadsSettled
  <2>1. ASSUME TakesLayerSize
        PROVE  data_layer = layers_storage!Element(layers_memory, layers_index)
    <3>1. gen_pc = "choose" => ctrl_pc \in {"settle", "cycle"}
      BY <1>2, WorkOnlyInCycle DEF DispatchInv, GeneratorInv, PhaseInv
    <3>2. plc_pc = "copy" \/ end_clone_controller_bus => ctrl_pc = "cloned"
      BY <1>2 DEF PhaseInv, CloneInv
    <3>3. ctrl_pc \notin {"idle", "read", "gen"}
      BY <2>1, <3>1, <3>2 DEF TakesLayerSize
    <3> QED BY <1>2, <3>3 DEF PhaseInv, SizeInv, SizeAt, layers_storage!Element
  <2>2. ASSUME NEW p \in PC, processors!AtHead(p)
        PROVE  previous_data_layer = prev_layer_size
    <3>1. Busy(p) \/ pu_queue[p] # << >> \/ gen_write
      BY <2>2 DEF processors!AtHead, processors!Takes, processors!Pushed,
                  processors!Accepts, Busy
    <3>2. ~end_reducer!AllEnded
      BY <1>2, <3>1 DEF DispatchInv, GeneratorInv, UnitInv, end_reducer!AllEnded,
                        end_reducer!PC, PC
    <3>3. ctrl_pc \in {"settle", "cycle"}
      BY <1>2, <3>2 DEF PhaseInv, RestInv
    <3> QED BY <1>2, <3>3 DEF PhaseInv, SizeInv
  <2> QED BY <1>2, <2>1, <2>2 DEF ReadsSettled, WordsInv
<1> QED BY <1>1, <1>2, StepWords, TypeCorrect, DispatchInvariant, PhaseInvariant, PTL
        DEF Spec

(***************************************************************************)
(* While the results are on the bus the controller obeys none of them and  *)
(* no store takes one, though the address line is that of the commands.    *)
(***************************************************************************)
THEOREM ResultsAreIgnored == Spec => ResultsNotObeyed
<1>1. ASSUME TypeOK, PhaseInv, [Next]_vars
      PROVE  IgnoreResults
  <2> SUFFICES ASSUME write_out_controller_bus
               PROVE  UNCHANGED <<ctrlVars, layers_memory, weight_memory, prev_memory>>
    BY DEF IgnoreResults
  <2>1. CASE Edge
    <3>1. addr_io_bus = 0 /\ ctrl_pc = "idle"
      BY <1>1, AfterStart DEF PhaseInv, StartInv, Started
    <3>2. UNCHANGED ctrlVars
      <4>1. controller!StayIdle
        BY <1>1, <2>1, ShownRests DEF Edge
      <4>2. ctrl_state = "IDLE" /\ start_weight_adderess = 0
        BY <1>1, <3>1 DEF PhaseInv, StartInv
      <4> QED BY <3>1, <4>1, <4>2 DEF ctrlVars, controller!StayIdle, controller!Rest
    <3>3. UNCHANGED <<layers_memory, weight_memory>>
      BY <2>1, <3>1 DEF Edge, layers_storage!Edge, layers_storage!add_to_queue,
                        weight_storage!Edge, weight_storage!add_to_memory
    <3>4. UNCHANGED prev_memory
      <4>1. ~wr_to_mem_from_mem_ctrl_mem_bus /\ ~clr_prev_layer_ctrl_mem_bus
        BY <1>1, <3>1 DEF PhaseInv, CloneInv
      <4> QED BY <2>1, <3>1, <4>1 DEF Edge, PreviousLayerEdge,
            previous_layer!add_to_mem_and_clear, previous_layer!Added,
            previous_layer!Cleared, previous_layer!Push
    <3> QED BY <3>2, <3>3, <3>4
  <2>2. CASE Abort \/ Over \/ UNCHANGED vars
    BY <2>2 DEF Abort, Over, vars, ctrlVars, storeVars, prevVars
  <2> QED BY <1>1, <2>1, <2>2 DEF Next
<1> QED BY <1>1, TypeCorrect, PhaseInvariant, PTL DEF Spec, ResultsNotObeyed

----------------------------------------------------------------------------
(* Balance                                                                 *)

(* At rest no number is anywhere, so none is outside the layer selected.   *)
LEMMA AtRest ==
  ASSUME DispatchInv, end_reducer!AllEnded
  PROVE  /\ ~gen_write /\ gen_state = "IDLE" /\ gen_pc = "idle"
         /\ \A p \in PC : pu_queue[p] = << >> /\ ~Busy(p) /\ ~resmem_w_bus[p]
BY DEF DispatchInv, GeneratorInv, UnitInv, Busy, end_reducer!AllEnded,
       end_reducer!PC, PC

(* A generator at rest that is not started writes nothing.                 *)
LEMMA RestWrites ==
  ASSUME DispatchInv, Edge, end_reducer!AllEnded
  PROVE  ~gen_write'
<1>1. gen_state = "IDLE" /\ gen_pc = "idle"
  BY AtRest
<1> QED BY <1>1 DEF Edge, generator!generate, generator!Idle, generator!Enter,
                    generator!Choose, generator!Withdraw

(* Edges from the one that takes a number to the one that has the result.  *)
Turn == 2 * (IF previous_data_layer > 0 THEN previous_data_layer ELSE 0) + 2

(* Edges until unit p shows its result; below 0 if it has nothing to do.   *)
Left(p) ==
  CASE pu_pc[p] = "mac1"  -> 2 * (previous_data_layer - pu_i[p]) + 2
    [] pu_pc[p] = "mac2"  -> 2 * (previous_data_layer - pu_i[p]) + 1
    [] pu_pc[p] = "bias1" -> 2
    [] pu_pc[p] = "bias2" -> 1
    [] pu_pc[p] = "store" -> 0
    [] OTHER              -> -1

(* Whether unit p took a number on the last edge, or has one on the bus.   *)
Taken(p)  == IF Left(p) = Turn THEN 1 ELSE 0
Coming(p) == IF gen_write /\ gen_address = p THEN 1 ELSE 0

(* The report of a unit is behind its queue by what it just took.          *)
UnitBalance(p) ==
  /\ pu_pc[p] \in {"mac1", "mac2"} => pu_i[p] < previous_data_layer
  /\ pu_queue[p] # << >> => Busy(p)
  /\ gen_size[p] = Len(pu_queue[p]) + Taken(p)

(* When p has two more than q, p takes its next no later than q.           *)
PairBalance(p, q) ==
  LET l == Len(pu_queue[p]) + Coming(p)
      m == Len(pu_queue[q]) + 2
  IN  l <= m /\ (l = m => Left(p) <= Left(q))

(***************************************************************************)
(* All units take the same time for a neuron, so one with two numbers more *)
(* than another, which is at most so much ahead, falls back first.         *)
(***************************************************************************)
BalanceInv ==
  /\ \A p \in PC : UnitBalance(p)
  /\ \A p, q \in PC : PairBalance(p, q)

LEMMA LeftRange ==
  ASSUME TypeOK, NEW p \in PC, UnitBalance(p)
  PROVE  /\ Left(p) \in Int /\ Turn \in Int
         /\ -1 <= Left(p) /\ Left(p) <= Turn /\ 2 <= Turn
         /\ (Busy(p) <=> Left(p) >= 0)
         /\ (pu_pc[p] = "store" <=> Left(p) = 0)
         /\ (pu_pc[p] = "idle" <=> Left(p) = -1)
         /\ Len(pu_queue[p]) \in Nat
         /\ (pu_queue[p] = << >> <=> Len(pu_queue[p]) = 0)
<1> DEFINE n == previous_data_layer
           k == pu_i[p]
           c == pu_pc[p]
<1>1. /\ n \in Int /\ k \in Nat /\ pu_queue[p] \in Seq(Nat)
      /\ c \in {"idle", "mac1", "mac2", "bias1", "bias2", "store"}
      /\ c \in {"mac1", "mac2"} => k < n
  BY DEF TypeOK, processors!TypeOK, processors!PC, PC, previous_layer_size!TypeOK,
         UnitBalance
<1>2. /\ c = "mac1" => Left(p) = 2 * (n - k) + 2
      /\ c = "mac2" => Left(p) = 2 * (n - k) + 1
      /\ c = "bias1" => Left(p) = 2
      /\ c = "bias2" => Left(p) = 1
      /\ c = "store" => Left(p) = 0
      /\ c = "idle" => Left(p) = -1
  BY DEF Left
<1>3. Turn = IF n > 0 THEN 2 * n + 2 ELSE 2
  BY <1>1 DEF Turn
<1>4. Busy(p) <=> c # "idle"
  BY DEF Busy
<1>5. Len(pu_queue[p]) \in Nat /\ (pu_queue[p] = << >> <=> Len(pu_queue[p]) = 0)
  BY <1>1
<1> HIDE DEF n, k, c
<1>6. /\ Left(p) \in Int /\ Turn \in Int
      /\ -1 <= Left(p) /\ Left(p) <= Turn /\ 2 <= Turn
      /\ (c = "idle" <=> Left(p) = -1) /\ (c = "store" <=> Left(p) = 0)
  BY <1>1, <1>2, <1>3
<1>7. Busy(p) <=> Left(p) >= 0
  BY <1>4, <1>6
<1> QED BY <1>5, <1>6, <1>7 DEF c

(* One edge of a unit.                                                     *)
LEMMA UnitTurns ==
  ASSUME TypeOK, DispatchInv, Edge, NEW p \in PC, UnitBalance(p),
         previous_data_layer' = previous_data_layer
  PROVE  LET t == IF processors!Takes(p) THEN 1 ELSE 0
         IN  /\ UnitBalance(p)' /\ Turn' = Turn
             /\ Left(p)' = IF t = 1 THEN Turn ELSE IF Busy(p) THEN Left(p) - 1 ELSE -1
             /\ Len(pu_queue'[p]) = Len(pu_queue[p]) + Coming(p) - t
             /\ t = 1 => Left(p) <= 0
             /\ Left(p) = 0 /\ pu_queue[p] # << >> => t = 1
<1> USE DEF processors!PC, PC
<1> DEFINE n == previous_data_layer
           k == pu_i[p]
           c == pu_pc[p]
           q == processors!Pushed(p)
           T == processors!Takes(p)
<1>1. /\ n \in Int /\ k \in Nat /\ pu_queue[p] \in Seq(Nat) /\ gen_data \in Nat
      /\ c \in {"idle", "mac1", "mac2", "bias1", "bias2", "store"}
      /\ c \in {"mac1", "mac2"} => k < n
  BY DEF TypeOK, processors!TypeOK, previous_layer_size!TypeOK, generator!TypeOK, UnitBalance
<1>2. /\ pu_pc'[p] = processors!NextPc(p)
      /\ pu_i'[p] = processors!Input(p)
  BY DEF Edge, processors!Edge, processors!process
<1>3. T <=> c \in {"idle", "store"} /\ q # << >>
  BY DEF processors!Takes
<1>4. /\ q \in Seq(Nat) /\ gen_size'[p] = Len(q)
      /\ pu_queue'[p] = IF T THEN Tail(q) ELSE q
  BY QueueAfter DEF Edge
<1>5. Len(q) = Len(pu_queue[p]) + Coming(p)
  <2>1. CASE gen_write /\ gen_address = p
    <3>1. q = Append(pu_queue[p], gen_data)
      BY <2>1 DEF DispatchInv, GeneratorInv, processors!Pushed, processors!Accepts
    <3> QED BY <1>1, <2>1, <3>1 DEF Coming
  <2>2. CASE ~(gen_write /\ gen_address = p)
    <3>1. q = pu_queue[p]
      BY <2>2 DEF processors!Pushed, processors!Accepts
    <3>2. Coming(p) = 0 /\ Len(pu_queue[p]) \in Nat
      BY <1>1, <2>2 DEF Coming
    <3> HIDE DEF q
    <3> QED BY <3>1, <3>2
  <2> QED BY <2>1, <2>2
<1>6. Turn' = Turn
  BY DEF Turn
<1>7. /\ Coming(p) \in {0, 1} /\ Len(pu_queue[p]) \in Nat
      /\ (pu_queue[p] = << >> <=> Len(pu_queue[p]) = 0)
      /\ (q = << >> <=> Len(q) = 0)
      /\ T => Len(Tail(q)) = Len(q) - 1
  <2>1. q = << >> <=> Len(q) = 0
    BY <1>4
  <2>2. T => Len(Tail(q)) = Len(q) - 1
    BY <1>3, <1>4
  <2> QED BY <1>1, <2>1, <2>2 DEF Coming
<1>8. Len(pu_queue'[p]) = Len(pu_queue[p]) + Coming(p) - IF T THEN 1 ELSE 0
  <2> HIDE DEF q, T
  <2> QED BY <1>4, <1>5, <1>7
<1>9. /\ pu_pc'[p] = IF T \/ c = "mac2"
                     THEN IF processors!Input(p) < n THEN "mac1" ELSE "bias1"
                     ELSE IF c = "mac1" THEN "mac2" ELSE IF c = "bias1" THEN "bias2"
                     ELSE IF c = "bias2" THEN "store" ELSE "idle"
      /\ pu_i'[p] = IF T THEN 0 ELSE IF c = "mac2" THEN k + 1 ELSE k
      /\ processors!Input(p) = pu_i'[p]
  <2>1. pu_i'[p] = IF T THEN 0 ELSE IF c = "mac2" THEN k + 1 ELSE k
    BY <1>2 DEF processors!Input
  <2>2. pu_pc'[p] = IF T \/ c = "mac2"
                     THEN IF processors!Input(p) < n THEN "mac1" ELSE "bias1"
                     ELSE IF c = "mac1" THEN "mac2" ELSE IF c = "bias1" THEN "bias2"
                     ELSE IF c = "bias2" THEN "store" ELSE "idle"
    <3>1. CASE T \/ c = "mac2"
      BY <1>1, <1>2, <1>3, <3>1 DEF processors!NextPc, processors!AtHead, processors!HasInput
    <3>2. CASE ~(T \/ c = "mac2")
      BY <1>1, <1>2, <3>2 DEF processors!NextPc, processors!AtHead
    <3> QED BY <3>1, <3>2
  <2> QED BY <1>2, <2>1, <2>2
<1>10. PICK d : d = pu_pc'[p]
  OBVIOUS
<1>11. PICK j : j = pu_i'[p]
  OBVIOUS
<1>12. Left(p)' = CASE d = "mac1"  -> 2 * (n - j) + 2
                    [] d = "mac2"  -> 2 * (n - j) + 1
                    [] d = "bias1" -> 2
                    [] d = "bias2" -> 1
                    [] d = "store" -> 0
                    [] OTHER       -> -1
  BY <1>10, <1>11 DEF Left
<1>13. Left(p) = CASE c = "mac1"  -> 2 * (n - k) + 2
                   [] c = "mac2"  -> 2 * (n - k) + 1
                   [] c = "bias1" -> 2
                   [] c = "bias2" -> 1
                   [] c = "store" -> 0
                   [] OTHER       -> -1
  BY DEF Left
<1>14. Turn = IF n > 0 THEN 2 * n + 2 ELSE 2
  BY <1>1 DEF Turn
<1>15. Busy(p) <=> c # "idle"
  BY DEF Busy
<1>16. /\ Left(p)' = IF T THEN Turn ELSE IF Busy(p) THEN Left(p) - 1 ELSE -1
       /\ d \in {"mac1", "mac2"} => j < n
       /\ T => Left(p) <= 0
       /\ (d = "idle" => ~T /\ c \in {"idle", "store"})
       /\ (Left(p) = 0 => c = "store")
  <2> HIDE DEF n, k, c, T, q
  <2>1. CASE T
    BY <1>1, <1>3, <1>9, <1>10, <1>11, <1>12, <1>13, <1>14, <2>1
  <2>2. CASE ~T /\ c = "mac1"
    BY <1>1, <1>9, <1>10, <1>11, <1>12, <1>13, <1>15, <2>2
  <2>3. CASE ~T /\ c = "mac2"
    <3>1. /\ j = k + 1 /\ k < n /\ Left(p) = 2 * (n - k) + 1
          /\ d = IF j < n THEN "mac1" ELSE "bias1"
      BY <1>1, <1>9, <1>10, <1>11, <1>13, <2>3
    <3>2. Left(p)' = IF j < n THEN 2 * (n - j) + 2 ELSE 2
      BY <1>12, <3>1
    <3>3. Left(p)' = Left(p) - 1
      BY <1>1, <3>1, <3>2
    <3>4. Left(p) > 0
      BY <1>1, <3>1
    <3> QED BY <1>1, <1>15, <2>3, <3>1, <3>3, <3>4
  <2>4. CASE ~T /\ c \in {"bias1", "bias2", "store", "idle"}
    BY <1>1, <1>9, <1>10, <1>11, <1>12, <1>13, <1>15, <2>4
  <2> QED BY <1>1, <2>1, <2>2, <2>3, <2>4
<1>17. T <=> Left(p)' = Turn
  <2>1. Left(p) \in Int /\ Left(p) <= Turn /\ Turn \in Int /\ 2 <= Turn
    BY LeftRange
  <2> HIDE DEF T
  <2> QED BY <1>16, <2>1
<1>18. pu_queue'[p] # << >> => d # "idle"
  <2> HIDE DEF q, c
  <2> QED BY <1>3, <1>4, <1>16
<1>19. Left(p) = 0 /\ pu_queue[p] # << >> => T
  <2> HIDE DEF q, c
  <2>1. pu_queue[p] # << >> => q # << >>
    BY <1>5, <1>7
  <2> QED BY <1>3, <1>16, <2>1
<1>20. UnitBalance(p)'
  <2>1. Taken(p)' = IF T THEN 1 ELSE 0
    BY <1>6, <1>17 DEF Taken
  <2>2. gen_size'[p] = Len(pu_queue'[p]) + Taken(p)'
    <3> HIDE DEF q, T
    <3> QED BY <1>4, <1>5, <1>7, <1>8, <2>1
  <2>3. Busy(p)' <=> d # "idle"
    BY <1>10 DEF Busy
  <2>4. d \in {"mac1", "mac2"} => pu_i'[p] < previous_data_layer'
    BY <1>11, <1>16
  <2> QED BY <1>10, <1>18, <2>2, <2>3, <2>4 DEF UnitBalance
<1> QED BY <1>6, <1>8, <1>16, <1>19, <1>20

(* The generator adds to a shortest queue, as it was reported.             *)
LEMMA ChosenShortest ==
  ASSUME TypeOK, DispatchInv, Edge, NEW p \in PC, gen_write', gen_address' = p
  PROVE  ~gen_write /\ \A q \in PC : gen_size[p] <= gen_size[q]
<1>1. gen_write => gen_pc = "written"
  BY DEF DispatchInv, GeneratorInv
<1>2. PICK r \in PC : generator!Choose(r)
  BY <1>1 DEF Edge, generator!generate, generator!Idle, generator!Enter,
              generator!Withdraw, generator!PC, PC
<1>3. gen_pc = "choose"
  BY <1>2 DEF generator!Choose
<1>4. ~gen_write
  BY <1>1, <1>3
<1>5. gen_address' = r
  BY <1>2, <1>4 DEF generator!Choose
<1> QED BY <1>2, <1>4, <1>5 DEF generator!Choose, generator!IsMinIndex, generator!PC, PC

(* An edge keeps two queues balanced.                                      *)
LEMMA StepPair ==
  ASSUME TypeOK, DispatchInv, BalanceInv, Edge, NEW p \in PC, NEW q \in PC,
         previous_data_layer' = previous_data_layer
  PROVE  PairBalance(p, q)'
<1> DEFINE Lp == Len(pu_queue[p])
           Lq == Len(pu_queue[q])
           tp == IF processors!Takes(p) THEN 1 ELSE 0
           tq == IF processors!Takes(q) THEN 1 ELSE 0
           new == Coming(p)'
           a == Left(p)
           b == Left(q)
           A == Left(p)'
           B == Left(q)'
<1>1. /\ UnitBalance(p) /\ UnitBalance(q) /\ PairBalance(p, q)
  BY DEF BalanceInv
<1>2. /\ Lp \in Nat /\ Lq \in Nat /\ a \in Int /\ b \in Int /\ Turn \in Int
      /\ -1 <= a /\ -1 <= b /\ a <= Turn /\ b <= Turn /\ 2 <= Turn
      /\ (Busy(p) <=> a >= 0) /\ (Busy(q) <=> b >= 0)
      /\ Lp > 0 => a >= 0
      /\ Lq > 0 => b >= 0
  BY <1>1, LeftRange DEF UnitBalance
<1>3. /\ A = IF tp = 1 THEN Turn ELSE IF a >= 0 THEN a - 1 ELSE -1
      /\ Len(pu_queue'[p]) = Lp + Coming(p) - tp
      /\ tp = 1 => a <= 0
      /\ a = 0 /\ Lp > 0 => tp = 1
  BY <1>1, <1>2, UnitTurns
<1>4. /\ B = IF tq = 1 THEN Turn ELSE IF b >= 0 THEN b - 1 ELSE -1
      /\ Len(pu_queue'[q]) = Lq + Coming(q) - tq
      /\ tq = 1 => b <= 0
  BY <1>1, <1>2, UnitTurns
<1>5. tp \in {0, 1} /\ tq \in {0, 1} /\ Coming(p) \in {0, 1} /\ Coming(q) \in {0, 1}
  BY DEF Coming
<1>6. /\ Lp + Coming(p) <= Lq + 2
      /\ Lp + Coming(p) = Lq + 2 => a <= b
  BY <1>1 DEF PairBalance
<1>7. new \in {0, 1}
      /\ (new = 1 => Coming(p) = 0 /\ Coming(q) = 0
                     /\ Lp + (IF a = Turn THEN 1 ELSE 0) <= Lq + (IF b = Turn THEN 1 ELSE 0))
  <2>1. new = IF gen_write' /\ gen_address' = p THEN 1 ELSE 0
    BY DEF Coming
  <2>2. CASE gen_write' /\ gen_address' = p
    <3>1. ~gen_write /\ gen_size[p] <= gen_size[q]
      BY <2>2, ChosenShortest
    <3>2. Coming(p) = 0 /\ Coming(q) = 0
      BY <3>1 DEF Coming
    <3>3. /\ gen_size[p] = Lp + (IF a = Turn THEN 1 ELSE 0)
          /\ gen_size[q] = Lq + (IF b = Turn THEN 1 ELSE 0)
      BY <1>1 DEF UnitBalance, Taken
    <3> HIDE DEF Lp, Lq, a, b
    <3> QED BY <2>1, <2>2, <3>1, <3>2, <3>3
  <2>3. CASE ~(gen_write' /\ gen_address' = p)
    <3> HIDE DEF Lp, Lq, a, b
    <3> QED BY <2>1, <2>3
  <2> QED BY <2>2, <2>3
<1>8. PairBalance(p, q)' <=>
        /\ Len(pu_queue'[p]) + new <= Len(pu_queue'[q]) + 2
        /\ Len(pu_queue'[p]) + new = Len(pu_queue'[q]) + 2 => A <= B
  BY DEF PairBalance
<1> HIDE DEF Lp, Lq, tp, tq, new, a, b, A, B
<1>9. CASE new = 1
  BY <1>2, <1>3, <1>4, <1>5, <1>6, <1>7, <1>8, <1>9
<1>10. CASE new = 0
  BY <1>2, <1>3, <1>4, <1>5, <1>6, <1>8, <1>10
<1> QED BY <1>7, <1>9, <1>10

(* At rest there is nothing to balance.                                    *)
LEMMA RestBalance ==
  ASSUME TypeOK, DispatchInv, Edge, end_reducer!AllEnded
  PROVE  BalanceInv'
<1> USE DEF processors!PC, PC
<1>1. /\ ~gen_write /\ ~gen_write'
      /\ \A p \in PC : pu_queue[p] = << >> /\ pu_pc[p] = "idle"
  BY AtRest, RestWrites DEF Busy
<1>2. ASSUME NEW p \in PC
      PROVE  pu_queue'[p] = << >> /\ pu_pc'[p] = "idle" /\ gen_size'[p] = 0
  <2>1. processors!Pushed(p) = << >> /\ ~processors!Takes(p)
    BY <1>1 DEF processors!Pushed, processors!Accepts, processors!Takes
  <2>2. pu_queue'[p] = << >> /\ gen_size'[p] = 0
    BY <2>1, QueueAfter DEF Edge
  <2>3. pu_pc'[p] = "idle"
    BY <1>1, <2>1 DEF Edge, processors!Edge, processors!process, processors!NextPc,
                      processors!AtHead
  <2> QED BY <2>2, <2>3
<1>3. Turn' \in Int /\ Turn' >= 2
  <2>1. previous_data_layer' \in Int
    BY StepTypes DEF Next, TypeOK, previous_layer_size!TypeOK
  <2>2. Turn' = 2 * (IF previous_data_layer' > 0 THEN previous_data_layer' ELSE 0) + 2
    BY DEF Turn
  <2>3. \A n \in Int : /\ 2 * (IF n > 0 THEN n ELSE 0) + 2 \in Int
                       /\ 2 * (IF n > 0 THEN n ELSE 0) + 2 >= 2
    OBVIOUS
  <2> QED BY <2>1, <2>2, <2>3
<1>4. ASSUME NEW p \in PC
      PROVE  Left(p)' = -1 /\ Coming(p)' = 0 /\ Taken(p)' = 0
  <2>1. Left(p)' = -1 /\ Coming(p)' = 0
    BY <1>1, <1>2 DEF Left, Coming
  <2> QED BY <1>3, <2>1 DEF Taken
<1>5. ASSUME NEW p \in PC PROVE UnitBalance(p)'
  BY <1>2, <1>4 DEF UnitBalance
<1>6. ASSUME NEW p \in PC, NEW q \in PC PROVE PairBalance(p, q)'
  BY <1>2, <1>4 DEF PairBalance
<1> QED BY <1>5, <1>6 DEF BalanceInv

LEMMA StepBalance ==
  ASSUME TypeOK, DispatchInv, PhaseInv, BalanceInv, [Next]_vars
  PROVE  BalanceInv'
<1>1. CASE Edge
  <2>1. CASE ctrl_pc \in {"settle", "cycle"}
    <3>1. previous_data_layer' = previous_data_layer
      BY <1>1, <2>1, CycleKeepsInputs
    <3>2. ASSUME NEW p \in PC PROVE UnitBalance(p)'
      BY <1>1, <3>1, UnitTurns DEF BalanceInv
    <3>3. ASSUME NEW p \in PC, NEW q \in PC PROVE PairBalance(p, q)'
      BY <1>1, <3>1, StepPair
    <3> QED BY <3>2, <3>3 DEF BalanceInv
  <2>2. CASE ctrl_pc \notin {"settle", "cycle"}
    BY <1>1, <2>2, RestBalance DEF PhaseInv, RestInv
  <2> QED BY <2>1, <2>2
<1>2. CASE Abort \/ Over \/ UNCHANGED vars
  <2>1. UNCHANGED <<genVars, puVars, storeVars>>
    BY <1>2 DEF Abort, Over, vars
  <2>2. Turn' = Turn /\ \A p : Left(p)' = Left(p) /\ Coming(p)' = Coming(p)
    BY <2>1 DEF Turn, Left, Coming, genVars, puVars, storeVars
  <2>3. \A p : UnitBalance(p)' = UnitBalance(p)
    BY <2>1, <2>2 DEF UnitBalance, Taken, Busy, genVars, puVars, storeVars
  <2>4. \A p, q : PairBalance(p, q)' = PairBalance(p, q)
    BY <2>1, <2>2 DEF PairBalance, puVars
  <2> QED BY <2>3, <2>4 DEF BalanceInv
<1> QED BY <1>1, <1>2 DEF Next

LEMMA InitBalance == Init => BalanceInv
<1> SUFFICES ASSUME Init PROVE BalanceInv
  OBVIOUS
<1> USE DEF processors!PC, PC
<1>1. \A p \in PC : pu_queue[p] = << >> /\ pu_pc[p] = "idle" /\ gen_size[p] = 0
  BY DEF Init, processors!Init, processors!All
<1>2. ~gen_write
  BY DEF Init, generator!Init
<1>3. Turn \in Int /\ Turn >= 2
  BY DEF Init, previous_layer_size!Init, Turn
<1>4. ASSUME NEW p \in PC
      PROVE  Left(p) = -1 /\ Coming(p) = 0 /\ Taken(p) = 0
  BY <1>1, <1>2, <1>3 DEF Left, Coming, Taken
<1>5. ASSUME NEW p \in PC PROVE UnitBalance(p)
  BY <1>1, <1>4 DEF UnitBalance
<1>6. ASSUME NEW p \in PC, NEW q \in PC PROVE PairBalance(p, q)
  BY <1>1, <1>4 DEF PairBalance
<1> QED BY <1>5, <1>6 DEF BalanceInv

THEOREM BalanceInvariant == Spec => []BalanceInv
BY InitBalance, StepBalance, TypeCorrect, DispatchInvariant, PhaseInvariant, PTL DEF Spec

(***************************************************************************)
(* Queue lengths never differ by more than two, although the generator     *)
(* compares reports that are behind the queues: for every number of units, *)
(* every capacity and every size of the layers.                            *)
(***************************************************************************)
THEOREM QueuesBalanced == Spec => []Balanced
<1>1. TypeOK /\ BalanceInv => Balanced
  <2> SUFFICES ASSUME TypeOK, BalanceInv, NEW p \in PC, NEW q \in PC
               PROVE  Len(pu_queue[p]) <= Len(pu_queue[q]) + 2
    BY DEF Balanced
  <2>1. Len(pu_queue[p]) \in Nat /\ Len(pu_queue[q]) \in Nat
    BY LeftRange DEF BalanceInv
  <2>2. Len(pu_queue[p]) + Coming(p) <= Len(pu_queue[q]) + 2 /\ Coming(p) \in {0, 1}
    BY DEF BalanceInv, PairBalance, Coming
  <2> QED BY <2>1, <2>2
<1> QED BY <1>1, TypeCorrect, BalanceInvariant, PTL
=============================================================================
