---------------------------- MODULE NetworkProofs ----------------------------
(***************************************************************************)
(* The accelerator computes the network: every neuron handed out is in     *)
(* exactly one place until NEXT_LAYER holds the value that FeedForward     *)
(* gives it, for every number of units, queue capacity and network that    *)
(* fits the memory; and the statistics of the units count each once.       *)
(***************************************************************************)
EXTENDS MemoryProofs, RecursionProofs

----------------------------------------------------------------------------
(* The definitions of FeedForward                                          *)

LEMMA SameTerms ==
  /\ \A n : feed_forward!OfInt(n) = OfInt(n)
  /\ \A u, v, w : feed_forward!Mac(u, v, w) = Mac(u, v, w)
  /\ \A u, v : feed_forward!AddBias(u, v) = AddBias(u, v)
  /\ \A u : feed_forward!sigmoid(u) = sigmoid(u)
  /\ \A cfg : /\ feed_forward!LayersCount(cfg) = LayersCount(cfg)
              /\ feed_forward!LayerSizes(cfg) = LayerSizes(cfg)
              /\ feed_forward!Weights(cfg) = Weights(cfg)
<1>1. \A cfg : feed_forward!LayersCount(cfg) = LayersCount(cfg)
  BY DEF feed_forward!LayersCount, LayersCount, feed_forward!ToInt, ToInt
<1>2. \A cfg : feed_forward!LayerSizes(cfg) = LayerSizes(cfg)
  <2> TAKE cfg
  <2>1. \A v : feed_forward!ToInt(v) = ToInt(v)
    BY DEF feed_forward!ToInt, ToInt
  <2>2. feed_forward!LayersCount(cfg) = LayersCount(cfg)
    BY <1>1
  <2> QED BY <2>1, <2>2 DEF feed_forward!LayerSizes, LayerSizes
<1>3. \A cfg : feed_forward!Weights(cfg) = Weights(cfg)
  BY <1>1 DEF feed_forward!Weights, Weights
<1>4. \A n : feed_forward!OfInt(n) = OfInt(n)
  BY DEF feed_forward!OfInt, OfInt
<1>5. /\ \A u, v, w : feed_forward!Mac(u, v, w) = Mac(u, v, w)
      /\ \A u, v : feed_forward!AddBias(u, v) = AddBias(u, v)
      /\ \A u : feed_forward!sigmoid(u) = sigmoid(u)
  BY DEF feed_forward!Mac, Mac, feed_forward!AddBias, AddBias, feed_forward!sigmoid, sigmoid
<1> QED BY <1>1, <1>2, <1>3, <1>4, <1>5

(* Sizes are integers, and the positions of weights add up.                *)
LEMMA Bases ==
  ASSUME files \in Inputs
  PROVE  /\ \A l \in Nat \ {0} : feed_forward!Size(l) \in Int
         /\ \A l \in Nat : feed_forward!Base[l] \in Int
         /\ \A l \in Nat : l <= 2 => feed_forward!Base[l] = 0
         /\ \A l \in Nat : l >= 2 =>
              feed_forward!Base[l + 1] =
                feed_forward!Base[l]
                  + (feed_forward!Size(l - 1) + 1) * feed_forward!Size(l)
<1> DEFINE S(l) == feed_forward!Size(l)
           D(b) == [l \in Nat |-> IF l <= 2 THEN 0
                                  ELSE b[l - 1] + (S(l - 2) + 1) * S(l - 1)]
           step == [l \in Nat |-> [v \in Int |-> IF l + 1 <= 2 THEN 0
                                     ELSE v + (S(l - 1) + 1) * S(l)]]
<1>1. \A l \in Nat \ {0} : S(l) \in Int
  <2>1. Layers \in Nat /\ Sizes \in Seq(Int) /\ Len(Sizes) = Layers
    BY FileTypes
  <2>2. \A l : S(l) = IF l <= Layers THEN Sizes[l] ELSE 0
    BY SameTerms DEF feed_forward!Size, Sizes, Layers
  <2> HIDE DEF S
  <2> QED BY <2>1, <2>2
<1>2. feed_forward!Base = CHOOSE b : b = D(b)
  BY DEF feed_forward!Base
<1> HIDE DEF S
<1>3. IsStep(step, Int)
  <2>1. \A l \in Nat, v \in Int :
          (IF l + 1 <= 2 THEN 0 ELSE v + (S(l - 1) + 1) * S(l)) \in Int
    BY <1>1
  <2> QED BY <2>1 DEF IsStep
<1>4. \A l \in Nat, v \in Int :
        step[l][v] = IF l + 1 <= 2 THEN 0 ELSE v + (S(l - 1) + 1) * S(l)
  OBVIOUS
<1> HIDE DEF step
<1>5. PICK f : Defined(f, Int, 0, step)
  <2>1. 0 \in Int
    OBVIOUS
  <2> QED BY <1>3, <2>1, Recursion
<1> USE DEF Defined
<1>6. f = D(f)
  <2>1. ASSUME NEW l \in Nat
        PROVE  f[l] = D(f)[l]
    <3>1. CASE l = 0
      BY <1>5, <3>1
    <3>2. CASE l # 0
      <4>1. l - 1 \in Nat /\ (l - 1) + 1 = l /\ (l - 1) - 1 = l - 2
        BY <3>2
      <4> QED BY <1>4, <1>5, <3>2, <4>1
    <3> QED BY <3>1, <3>2
  <2> QED BY <1>5, <2>1
<1>7. feed_forward!Base = D(feed_forward!Base)
  BY <1>2, <1>6
<1>8. PICK B : B = feed_forward!Base
                /\ \A l \in Nat :
                     B[l] = IF l <= 2 THEN 0 ELSE B[l - 1] + (S(l - 2) + 1) * S(l - 1)
  BY <1>7, SMT
<1>9. \A l \in Nat : B[l] \in Int
  <2> DEFINE T == {l \in Nat : B[l] \in Int}
  <2>1. 0 \in T
    BY <1>8, SMT
  <2>2. ASSUME NEW l \in T
        PROVE  l + 1 \in T
    <3>1. B[l + 1] = IF l + 1 <= 2 THEN 0 ELSE B[l] + (S(l - 1) + 1) * S(l)
      BY <1>8, SMT
    <3>2. l >= 2 => S(l - 1) \in Int /\ S(l) \in Int
      BY <1>1, SMT
    <3> QED BY <2>2, <3>1, <3>2, SMT
  <2>3. T = Nat
    <3>1. T \subseteq Nat
      BY SMT
    <3> HIDE DEF T
    <3> QED BY <2>1, <2>2, <3>1, Induction, SMT
  <2> QED BY <2>3, SMT
<1>10. ASSUME NEW l \in Nat, l >= 2
       PROVE  B[l + 1] = B[l] + (S(l - 1) + 1) * S(l)
  <2>1. ~(l + 1 <= 2) /\ (l + 1) - 1 = l /\ (l + 1) - 2 = l - 1
    BY <1>10, SMT
  <2> QED BY <1>8, <2>1, SMT
<1> QED BY <1>1, <1>8, <1>9, <1>10, SMT DEF S

(* What a neuron is added up from, and its sums.                           *)
LEMMA SumsUnfold ==
  ASSUME files \in Inputs, acts \in Seq(Number), NEW first \in Int
  PROVE  /\ \A k \in Int : /\ feed_forward!Activation(k) \in Float
                          /\ feed_forward!WeightAt(k) \in Float
         /\ feed_forward!Sums(first)[0] = OfInt(0)
         /\ \A k \in Nat :
              /\ feed_forward!Sums(first)[k] \in Float
              /\ feed_forward!Sums(first)[k + 1] =
                   Mac(feed_forward!Sums(first)[k], feed_forward!Activation(k),
                       feed_forward!WeightAt(first + k))
<1> DEFINE A(k) == feed_forward!Activation(k)
           W(k) == feed_forward!WeightAt(k)
           D(s) == [k \in Nat |-> IF k = 0 THEN feed_forward!OfInt(0)
                                  ELSE feed_forward!Mac(s[k - 1], A(k - 1), W(first + k - 1))]
           step == [k \in Nat |-> [v \in Float |-> Mac(v, A(k), W(first + k))]]
<1>1. \A k \in Int : A(k) \in Float
  <2>1. OfInt(-1) \in Float
    BY FloatTypes
  <2>2. \A k \in Int : k \in 0 .. Len(acts) - 1 => acts[k + 1] \in Number
    OBVIOUS
  <2>3. feed_forward!OfInt(-1) = OfInt(-1)
    BY SameTerms
  <2> QED BY <2>1, <2>2, <2>3, Numbers DEF feed_forward!Activation
<1>2. \A k \in Int : W(k) \in Float
  <2> DEFINE ws == Weights(files.config)
  <2>1. OfInt(0) \in Float
    BY FloatTypes
  <2>2. ws \in Seq(Number)
    BY FileTypes
  <2>3. feed_forward!OfInt(0) = OfInt(0) /\ feed_forward!Weights(files.config) = ws
    BY SameTerms
  <2> HIDE DEF ws
  <2>4. \A k \in Int : k \in 0 .. Len(ws) - 1 => ws[k + 1] \in Number
    BY <2>2
  <2> QED BY <2>1, <2>3, <2>4, Numbers DEF feed_forward!WeightAt
<1>3. feed_forward!Sums(first) = CHOOSE s : s = D(s)
  BY DEF feed_forward!Sums
<1> HIDE DEF A, W
<1>4. \A k \in Nat, v \in Float : Mac(v, A(k), W(first + k)) \in Float
  <2> TAKE k \in Nat, v \in Float
  <2>1. first + k \in Int /\ k \in Int
    OBVIOUS
  <2>2. A(k) \in Float /\ W(first + k) \in Float
    BY <1>1, <1>2, <2>1
  <2> QED BY <2>2, FloatTypes
<1>5. IsStep(step, Float)
  BY <1>4 DEF IsStep
<1>6. \A k \in Nat, v \in Float : step[k][v] = Mac(v, A(k), W(first + k))
  OBVIOUS
<1> HIDE DEF step
<1>7. PICK f : Defined(f, Float, OfInt(0), step)
  <2>1. OfInt(0) \in Float
    BY FloatTypes
  <2> QED BY <1>5, <2>1, Recursion
<1>8. f = D(f)
  <2>1. \A k \in Nat : f[k] \in Float /\ f[k + 1] = Mac(f[k], A(k), W(first + k))
    BY <1>6, <1>7 DEF Defined
  <2>2. ASSUME NEW k \in Nat
        PROVE  f[k] = D(f)[k]
    <3>1. CASE k = 0
      BY <1>7, <3>1, SameTerms DEF Defined
    <3>2. CASE k # 0
      <4>1. k - 1 \in Nat /\ (k - 1) + 1 = k /\ first + (k - 1) = first + k - 1
        BY <3>2
      <4>2. f[k] = Mac(f[k - 1], A(k - 1), W(first + k - 1))
        BY <2>1, <4>1
      <4>3. feed_forward!Mac(f[k - 1], A(k - 1), W(first + k - 1)) =
              Mac(f[k - 1], A(k - 1), W(first + k - 1))
        BY SameTerms
      <4> QED BY <3>2, <4>2, <4>3
    <3> QED BY <3>1, <3>2
  <2>3. f \in [Nat -> Float]
    BY <1>7 DEF Defined
  <2> QED BY <2>2, <2>3
<1>9. PICK s : s = feed_forward!Sums(first) /\ s = D(s)
  BY <1>3, <1>8
<1>10. s[0] = OfInt(0)
  <2>1. s[0] = feed_forward!OfInt(0)
    BY <1>9
  <2> QED BY <2>1, SameTerms
<1>11. ASSUME NEW k \in Nat
       PROVE  s[k + 1] = Mac(s[k], A(k), W(first + k))
  <2>1. k + 1 # 0 /\ k + 1 \in Nat /\ (k + 1) - 1 = k /\ first + (k + 1) - 1 = first + k
    OBVIOUS
  <2>2. s[k + 1] = feed_forward!Mac(s[k], A(k), W(first + k))
    BY <1>9, <2>1
  <2> QED BY <2>2, SameTerms
<1>12. \A k \in Nat : s[k] \in Float
  <2> DEFINE T == {k \in Nat : s[k] \in Float}
  <2>1. 0 \in T
    BY <1>10, FloatTypes
  <2>2. ASSUME NEW k \in T
        PROVE  k + 1 \in T
    <3>1. k \in Nat /\ s[k] \in Float
      OBVIOUS
    <3>2. s[k + 1] \in Float
      BY <1>4, <1>11, <3>1
    <3> QED BY <3>1, <3>2
  <2>3. T = Nat
    <3>1. T \subseteq Nat
      OBVIOUS
    <3> HIDE DEF T
    <3> QED BY <2>1, <2>2, <3>1, Induction
  <2> QED BY <2>3
<1> QED BY <1>1, <1>2, <1>9, <1>10, <1>11, <1>12 DEF A, W

----------------------------------------------------------------------------
(***************************************************************************)
(* Networks the memory has room for, of layers that are not below zero.    *)
(***************************************************************************)
Fitting ==
  /\ \A l \in 1 .. Layers : Sizes[l] >= 0
  /\ \A l \in 2 .. Layers : Sizes[l] <= MEM_SIZE

(***************************************************************************)
(* Where CONTROLLER is in the network: the layer it reads from is the one  *)
(* after ctrl_i, LAYERS_STORAGE's cursor follows it, and the weights of    *)
(* the layer to compute start where those before it end.                   *)
(***************************************************************************)
SelectInv ==
  /\ ~Started => ctrl_i = 0 /\ layers_index = 0
  /\ write_out_controller_bus => ctrl_i + 1 >= Layers
  /\ ctrl_pc \notin {"idle", "read"} =>
       /\ ctrl_i + 2 <= Layers
       /\ layers_index = ctrl_i + IF ctrl_pc \in {"save", "next"} THEN 0 ELSE 1
       /\ start_weight_adderess = feed_forward!Base[ctrl_i + 2]
  /\ ctrl_pc = "save" => data_layer = feed_forward!Size(ctrl_i + 1)
  /\ ctrl_pc \notin {"idle", "read", "save"} =>
       /\ ctrl_prev_layer = feed_forward!Size(ctrl_i + 1)
       /\ prev_layer_size = feed_forward!Size(ctrl_i + 1)

(* The words at the addresses a unit shows.                                *)
InputShown(p)  == data_prev_layer_bus[p] = feed_forward!Activation(addr_prev_layer_bus[p])
WeightShown(p) == data_weight_bus[p] = feed_forward!WeightAt(addr_weight_bus[p])

First(n) == start_weight_adderess + (previous_data_layer + 1) * n

(***************************************************************************)
(* What a unit has computed of its neuron at each of its wait()s.          *)
(***************************************************************************)
Partial(p) ==
  LET n == pu_number_of_nn[p]
      k == pu_i[p]
  IN  /\ pu_pc[p] \in {"mac1", "mac2"} =>
           /\ k < previous_data_layer
           /\ addr_prev_layer_bus[p] = k
      /\ pu_pc[p] \in {"bias1", "bias2", "store"} => k = previous_data_layer
      /\ Busy(p) => addr_weight_bus[p] = First(n) + k
      /\ pu_pc[p] \in {"mac1", "mac2", "bias1", "bias2"} =>
           pu_sum_reg[p] = feed_forward!Sums(First(n))[k]
      /\ pu_pc[p] = "mac2" => InputShown(p) /\ WeightShown(p)
      /\ pu_pc[p] = "bias2" => WeightShown(p)
      /\ pu_pc[p] = "store" =>
           /\ resmem_addr_bus[p] = n
           /\ resmem_data_bus[p] = feed_forward!Neuron(n)

PartialInv == ctrl_pc \in {"settle", "cycle"} => \A p \in PC : Partial(p)

(* The numbers that are with unit p or on their way to it.                 *)
Hand(p) == IF Busy(p) THEN <<pu_number_of_nn[p]>> ELSE << >>
Held(p) == Hand(p) \o processors!Pushed(p)

IsHeld(n) == \E p \in PC : \E k \in DOMAIN Held(p) : Held(p)[k] = n

Distinct ==
  \A p, q \in PC : \A j \in DOMAIN Held(p), k \in DOMAIN Held(q) :
    Held(p)[j] = Held(q)[k] => p = q /\ j = k

Stored == \A n \in HandedOut : ~IsHeld(n) => next_memory[n] = feed_forward!Neuron(n)

(* The generator has handed out the numbers of the layer before it ends.   *)
CountInv ==
  /\ gen_pc = "idle" /\ gen_state = "IDLE" => gen_end
  /\ gen_pc = "written" /\ gen_state = "IDLE" => gen_counter >= data_layer
  /\ gen_counter <= 1 \/ gen_counter <= data_layer
  /\ gen_state = "GENERATE" =>
       \A p \in PC : \A k \in DOMAIN Held(p) : Held(p)[k] < gen_counter

(***************************************************************************)
(* The numbers underway are distinct and were handed out, and of those     *)
(* handed out and not underway NEXT_LAYER has the values.                  *)
(***************************************************************************)
AccountInv ==
  ctrl_pc \in {"settle", "cycle"} => CountInv /\ Distinct /\ Stored

----------------------------------------------------------------------------
(* The layers                                                              *)

LoadedInv ==
  Started =>
    /\ ctrl_layers = Layers
    /\ layers_memory = Sizes
    /\ weight_memory = Weights(files.config)
    /\ ctrl_i = 0 /\ ~Copying => prev_memory = Picture

LEMMA Loaded == TypeOK /\ PhaseInv /\ LoadInv => LoadedInv
BY AllLoaded DEF LoadedInv

(* What is said of the files does not change.                              *)
LEMMA SameFiles ==
  ASSUME files' = files
  PROVE  /\ Layers' = Layers /\ Sizes' = Sizes
         /\ Weights(files.config)' = Weights(files.config)
         /\ \A l : feed_forward!Size(l)' = feed_forward!Size(l)
         /\ feed_forward!Base' = feed_forward!Base
<1>1. \A l : feed_forward!Size(l)' = feed_forward!Size(l)
  BY DEF feed_forward!Size, feed_forward!LayersCount, feed_forward!LayerSizes
<1>2. feed_forward!Base' = feed_forward!Base
  BY <1>1 DEF feed_forward!Base
<1>3. Layers' = Layers /\ Sizes' = Sizes
      /\ Weights(files.config)' = Weights(files.config)
  BY DEF Layers, Sizes, Weights
<1> QED BY <1>1, <1>2, <1>3

(* LAYERS_STORAGE's sizes are those of the files.                          *)
LEMMA SizesStored ==
  ASSUME TypeOK, layers_memory = Sizes, NEW k \in Nat
  PROVE  SizeAt(k) = feed_forward!Size(k + 1)
<1>1. Layers \in Nat /\ Sizes \in Seq(Int) /\ Len(Sizes) = Layers
  BY FileTypes DEF TypeOK
<1>2. feed_forward!Size(k + 1) = IF k + 1 <= Layers THEN Sizes[k + 1] ELSE 0
  BY SameTerms DEF feed_forward!Size, Sizes, Layers
<1> QED BY <1>1, <1>2 DEF SizeAt

(* The first layer is selected when the start command is obeyed.           *)
LEMMA SelectFirst ==
  ASSUME TypeOK, PhaseInv, LoadedInv', SelectInv, Edge, controller!StartConv
  PROVE  SelectInv'
<1>1. /\ files' = files /\ ctrl_pc = "idle" /\ controller!Sampled = "START_CONV"
      /\ controller!NextLayerOrEnd(0, start_weight_adderess, "none")
      /\ UNCHANGED <<ctrl_layers, ctrl_prev_layer>>
  BY DEF Edge, controller!StartConv
<1>2. ctrl_state = "IDLE" /\ start_weight_adderess = 0 /\ ~next_layer
      /\ ~save_prev_layer_size
  BY <1>1 DEF PhaseInv, StartInv, LineInv
<1>3. ~Started
  <2> SUFFICES ASSUME write_out_controller_bus PROVE FALSE
    BY <1>1 DEF Started
  <2>1. controller!StayIdle
    BY ShownRests DEF Edge
  <2> QED BY <1>1, <2>1 DEF controller!StayIdle
<1>4. addr_io_bus = 0
  BY <1>1, <1>2 DEF controller!Sampled, controller!state_start_conv,
                    controller!state_read_data
<1>5. /\ layers_index = 0 /\ layers_index' = 0 /\ layers_memory' = layers_memory
      /\ data_layer' = SizeAt(0)
  BY <1>2, <1>3, <1>4 DEF SelectInv, Edge, layers_storage!Edge, SizeAt,
       layers_storage!next_element, layers_storage!add_to_queue,
       layers_storage!issue_element, layers_storage!Element
<1>6. Layers' = Layers /\ Sizes' = Sizes
      /\ \A l : feed_forward!Size(l)' = feed_forward!Size(l)
      /\ feed_forward!Base' = feed_forward!Base
  BY <1>1, SameFiles
<1>7. Layers \in Nat /\ feed_forward!Base[2] = 0
  BY Bases, FileTypes DEF TypeOK
<1>8. CASE ctrl_pc' = "save"
  <2>1. 0 < ctrl_layers - 1 /\ ctrl_i' = 0 /\ start_weight_adderess' = 0
        /\ ctrl_high' = (ctrl_high \ {"none"}) \union {"save_prev_layer_size_o"}
    BY <1>1, <1>2, <1>8 DEF controller!NextLayerOrEnd, controller!Rest, controller!Pulse
  <2>2. Started' /\ ~write_out_controller_bus'
    BY <1>1, <1>3, <1>8, <2>1 DEF Started, write_out_controller_bus
  <2>3. ctrl_layers = Layers /\ layers_memory = Sizes
    BY <1>1, <1>5, <1>6, <2>2 DEF LoadedInv
  <2>4. data_layer' = feed_forward!Size(1)
    <3>1. SizeAt(0) = feed_forward!Size(0 + 1)
      BY <2>3, SizesStored
    <3> QED BY <1>5, <3>1
  <2> QED BY <1>5, <1>6, <1>7, <1>8, <2>1, <2>2, <2>3, <2>4 DEF SelectInv
<1>9. CASE ctrl_pc' = "idle"
  <2>1. 0 >= ctrl_layers - 1 /\ ctrl_i' = 0
        /\ ctrl_high' = (ctrl_high \ {"none"}) \union {"write_out_controller_layer_o"}
    BY <1>1, <1>9 DEF controller!NextLayerOrEnd, controller!Rest, controller!Pulse
  <2>2. Started'
    BY <2>1 DEF Started, write_out_controller_bus
  <2>3. ctrl_layers = Layers
    BY <1>1, <1>6, <2>2 DEF LoadedInv
  <2> QED BY <1>6, <1>7, <1>9, <2>1, <2>2, <2>3 DEF SelectInv
<1> QED BY <1>1, <1>8, <1>9 DEF controller!NextLayerOrEnd, controller!Rest

(* The next layer is selected, if there is one, when a copy has ended.     *)
LEMMA SelectNext ==
  ASSUME TypeOK, PhaseInv, LoadedInv, SelectInv, Edge,
         controller!AwaitClone, end_clone_controller_bus
  PROVE  SelectInv'
<1> DEFINE i == ctrl_i
           S(l) == feed_forward!Size(l)
           B == feed_forward!Base
<1>1. /\ files' = files /\ ctrl_pc \in {"clone", "cloned"} /\ i \in Nat
      /\ controller!NextLayerOrEnd(i + 1,
           (ctrl_prev_layer + 1) * data_layer + start_weight_adderess,
           "start_clone_controller_layer_o")
      /\ UNCHANGED <<ctrl_layers, ctrl_prev_layer>>
  BY DEF Edge, controller!AwaitClone, TypeOK, controller!TypeOK
<1>2. ~next_layer /\ Started /\ addr_io_bus = 0
  BY <1>1, AfterStart DEF PhaseInv, LineInv, Started
<1>3. /\ layers_index = i + 1 /\ layers_index' = i + 1
      /\ layers_memory = Sizes /\ ctrl_layers = Layers
  BY <1>1, <1>2 DEF SelectInv, LoadedInv, Edge, layers_storage!Edge,
                    layers_storage!next_element
<1>4. data_layer = S(i + 2) /\ data_layer' = S(i + 2)
  <2>1. data_layer' = data_layer /\ data_layer = SizeAt(i + 1)
    BY <1>1, <1>3, SizeKept DEF PhaseInv, SizeInv
  <2>2. SizeAt(i + 1) = S((i + 1) + 1)
    BY <1>1, <1>3, SizesStored
  <2>3. (i + 1) + 1 = i + 2
    BY <1>1
  <2> QED BY <2>1, <2>2, <2>3
<1>5. B[(i + 1) + 2] = (ctrl_prev_layer + 1) * data_layer + start_weight_adderess
  <2>1. ctrl_prev_layer = S(i + 1) /\ start_weight_adderess = B[i + 2]
    BY <1>1 DEF SelectInv
  <2>2. i + 2 \in Nat /\ i + 2 >= 2 /\ (i + 2) + 1 = (i + 1) + 2 /\ (i + 2) - 1 = i + 1
    BY <1>1
  <2>3. B[(i + 2) + 1] = B[i + 2] + (S((i + 2) - 1) + 1) * S(i + 2)
    BY <2>2, Bases DEF TypeOK
  <2>4. B[i + 2] \in Int /\ S(i + 1) \in Int /\ S(i + 2) \in Int
    <3>1. i + 1 \in Nat \ {0} /\ i + 2 \in Nat \ {0}
      BY <1>1
    <3> QED BY <2>2, <3>1, Bases DEF TypeOK
  <2> HIDE DEF S, B, i
  <2> QED BY <1>4, <2>1, <2>2, <2>3, <2>4
<1>6. Layers' = Layers /\ Layers \in Nat
      /\ \A l : S(l)' = S(l)
      /\ B' = B
  BY <1>1, SameFiles, FileTypes DEF TypeOK
<1> HIDE DEF S, B
<1>7. CASE ctrl_pc' = "save"
  <2>1. /\ i + 1 < ctrl_layers - 1 /\ ctrl_i' = i + 1
        /\ start_weight_adderess' = B[(i + 1) + 2]
        /\ ctrl_high' = (ctrl_high \ {"start_clone_controller_layer_o"})
                           \union {"save_prev_layer_size_o"}
    BY <1>1, <1>5, <1>7 DEF controller!NextLayerOrEnd, controller!Rest, controller!Pulse
  <2>2. Started' /\ ~write_out_controller_bus'
    <3>1. ~write_out_controller_bus
      BY <1>1 DEF PhaseInv, StartInv
    <3> QED BY <1>7, <2>1, <3>1 DEF Started, write_out_controller_bus
  <2>3. ctrl_i' + 2 <= Layers' /\ ctrl_i' + 1 = i + 2
    BY <1>1, <1>3, <1>6, <2>1
  <2>4. start_weight_adderess' = B'[ctrl_i' + 2] /\ data_layer' = S(ctrl_i + 1)'
    BY <1>4, <1>6, <2>1, <2>3
  <2> QED BY <1>3, <1>7, <2>1, <2>2, <2>3, <2>4 DEF SelectInv, S, B
<1>8. CASE ctrl_pc' = "idle"
  <2>1. i + 1 >= ctrl_layers - 1 /\ ctrl_i' = i + 1
        /\ ctrl_high' = (ctrl_high \ {"start_clone_controller_layer_o"})
                           \union {"write_out_controller_layer_o"}
    BY <1>1, <1>8 DEF controller!NextLayerOrEnd, controller!Rest, controller!Pulse
  <2>2. Started'
    BY <2>1 DEF Started, write_out_controller_bus
  <2>3. ctrl_i' + 1 >= Layers'
    BY <1>1, <1>3, <1>6, <2>1
  <2> QED BY <1>8, <2>2, <2>3 DEF SelectInv
<1> QED BY <1>1, <1>7, <1>8 DEF controller!NextLayerOrEnd, controller!Rest

(* In between the controller keeps the layer.                              *)
LEMMA SelectKept ==
  ASSUME TypeOK, PhaseInv, SelectInv, Edge,
         ~controller!StartConv,
         ~(controller!AwaitClone /\ end_clone_controller_bus)
  PROVE  SelectInv'
<1>1. /\ ctrl_i' = ctrl_i
      /\ ctrl_pc \notin {"idle", "read"} => start_weight_adderess' = start_weight_adderess
      /\ write_out_controller_bus' = write_out_controller_bus
      /\ ctrl_pc \in {"idle", "read"} <=> ctrl_pc' \in {"idle", "read"}
      /\ ctrl_pc' # "save"
      /\ ctrl_pc' = "next" <=> ctrl_pc = "save"
      /\ ctrl_prev_layer' = IF ctrl_pc = "save" THEN data_layer ELSE ctrl_prev_layer
  BY DEF Edge, controller!process, controller!StayIdle, controller!BeginRead,
         controller!ReadLayers, controller!SelectLayer, controller!StartGenerator,
         controller!EndStart, controller!Settle, controller!AwaitCycle,
         controller!StartClone, controller!AwaitClone, controller!Rest,
         controller!loop, controller!Pulse, controller!Lower, write_out_controller_bus
<1>2. /\ layers_index \in Nat /\ ctrl_i \in Nat
      /\ layers_index' = IF ctrl_pc = "next" THEN layers_index + 1 ELSE layers_index
      /\ prev_layer_size' = IF ctrl_pc = "save" THEN data_layer ELSE prev_layer_size
  BY DEF TypeOK, layers_storage!TypeOK, controller!TypeOK, Edge, layers_storage!Edge,
         layers_storage!next_element, previous_layer_size!Edge,
         previous_layer_size!save_new_element, PhaseInv, LineInv
<1>3. Layers' = Layers
      /\ \A l : feed_forward!Size(l)' = feed_forward!Size(l)
      /\ feed_forward!Base' = feed_forward!Base
  BY SameFiles DEF Edge
<1>4. Started' = Started
  BY <1>1 DEF Started
<1>5. CASE ctrl_pc \in {"idle", "read"}
  BY <1>1, <1>2, <1>3, <1>4, <1>5 DEF SelectInv
<1>6. CASE ctrl_pc \notin {"idle", "read"}
  <2>1. ctrl_pc' \notin {"idle", "read", "save"} /\ Started
    BY <1>1, <1>6 DEF Started
  <2>2. layers_index' = ctrl_i' + IF ctrl_pc' \in {"save", "next"} THEN 0 ELSE 1
    <3>1. layers_index = ctrl_i + IF ctrl_pc \in {"save", "next"} THEN 0 ELSE 1
      BY <1>6 DEF SelectInv
    <3> QED BY <1>1, <1>2, <1>6, <2>1, <3>1
  <2>3. /\ ctrl_prev_layer' = feed_forward!Size(ctrl_i + 1)
        /\ prev_layer_size' = feed_forward!Size(ctrl_i + 1)
    BY <1>1, <1>2, <1>6 DEF SelectInv
  <2>4. ctrl_i + 2 <= Layers /\ start_weight_adderess = feed_forward!Base[ctrl_i + 2]
    BY <1>6 DEF SelectInv
  <2>5. ~write_out_controller_bus
    BY <1>6 DEF PhaseInv, StartInv
  <2> QED BY <1>1, <1>3, <1>4, <1>6, <2>1, <2>2, <2>3, <2>4, <2>5 DEF SelectInv
<1> QED BY <1>5, <1>6

(* Every step keeps the selection.                                         *)
LEMMA StepSelect ==
  ASSUME TypeOK, PhaseInv, LoadedInv, LoadedInv', SelectInv, [Next]_vars
  PROVE  SelectInv'
<1>1. CASE Edge
  BY <1>1, SelectFirst, SelectNext, SelectKept
<1>2. CASE Abort \/ Over \/ UNCHANGED vars
  <2>1. UNCHANGED <<ioVars, ctrlVars, storeVars>>
    BY <1>2 DEF Abort, Over, vars
  <2>2. Layers' = Layers
        /\ \A l : feed_forward!Size(l)' = feed_forward!Size(l)
        /\ feed_forward!Base' = feed_forward!Base
    BY <2>1, SameFiles DEF ioVars
  <2> QED BY <2>1, <2>2 DEF SelectInv, Started, write_out_controller_bus, ctrlVars, storeVars
<1> QED BY <1>1, <1>2 DEF Next

----------------------------------------------------------------------------
(* The neurons                                                             *)

(* FeedForward and the accelerator agree in a cycle on the layer.          *)
LEMMA CycleLayer ==
  ASSUME TypeOK, PhaseInv, LoadedInv, SelectInv,
         ctrl_pc \in {"settle", "cycle"}
  PROVE  /\ layer = ctrl_i + 1 /\ layer \in Nat \ {0} /\ acts = prev_memory
         /\ layers_memory = Sizes /\ weight_memory = Weights(files.config)
         /\ layer + 1 <= Layers
         /\ previous_data_layer = feed_forward!Size(layer)
         /\ data_layer = feed_forward!Size(layer + 1)
         /\ start_weight_adderess = feed_forward!Base[layer + 1]
<1>1. Started /\ ~Copying /\ ctrl_i \in Nat
  BY DEF Started, Copying, TypeOK, controller!TypeOK
<1>2. layer = ctrl_i + 1 /\ acts = prev_memory
  BY <1>1 DEF layer, acts
<1>3. /\ layers_memory = Sizes /\ weight_memory = Weights(files.config)
      /\ ctrl_i + 2 <= Layers /\ layers_index = ctrl_i + 1
      /\ start_weight_adderess = feed_forward!Base[ctrl_i + 2]
      /\ previous_data_layer = feed_forward!Size(ctrl_i + 1)
      /\ data_layer = SizeAt(ctrl_i + 1)
  BY <1>1 DEF LoadedInv, SelectInv, PhaseInv, SizeInv
<1>4. SizeAt(ctrl_i + 1) = feed_forward!Size((ctrl_i + 1) + 1)
  BY <1>1, <1>3, SizesStored
<1>5. (ctrl_i + 1) + 1 = ctrl_i + 2
  BY <1>1
<1> QED BY <1>1, <1>2, <1>3, <1>4, <1>5

(* So they do on the neurons, and on the words a unit is given.            *)
LEMMA CycleValues ==
  ASSUME TypeOK, PhaseInv, LoadedInv, SelectInv,
         ctrl_pc \in {"settle", "cycle"}
  PROVE  /\ \A n : feed_forward!Neuron(n) =
               sigmoid(AddBias(feed_forward!Sums(First(n))[previous_data_layer],
                               feed_forward!WeightAt(First(n) + previous_data_layer)))
         /\ \A k : feed_forward!Activation(k) = previous_layer!Word(prev_memory, k)
         /\ \A k : feed_forward!WeightAt(k) = weight_storage!Word(weight_memory, k)
<1>1. /\ acts = prev_memory /\ weight_memory = Weights(files.config)
      /\ previous_data_layer = feed_forward!Size(layer)
      /\ start_weight_adderess = feed_forward!Base[layer + 1]
  BY CycleLayer
<1>2. \A n : First(n) = feed_forward!Base[layer + 1] + (feed_forward!Size(layer) + 1) * n
  BY <1>1 DEF First
<1>3. \A n : feed_forward!Neuron(n) =
        feed_forward!sigmoid(
          feed_forward!AddBias(feed_forward!Sums(First(n))[previous_data_layer],
                               feed_forward!WeightAt(First(n) + previous_data_layer)))
  BY <1>1, <1>2 DEF feed_forward!Neuron
<1>4. \A k : feed_forward!Activation(k) = previous_layer!Word(prev_memory, k)
  BY <1>1 DEF feed_forward!Activation, previous_layer!Word, feed_forward!OfInt,
              previous_layer!OfInt
<1>5. \A k : feed_forward!WeightAt(k) = weight_storage!Word(weight_memory, k)
  <2>1. feed_forward!Weights(files.config) = weight_memory
    BY <1>1, SameTerms
  <2> QED BY <2>1 DEF feed_forward!WeightAt, weight_storage!Word, feed_forward!OfInt,
                      weight_storage!OfInt
<1>6. \A u, v : feed_forward!sigmoid(feed_forward!AddBias(u, v)) = sigmoid(AddBias(u, v))
  BY SameTerms
<1> QED BY <1>3, <1>4, <1>5, <1>6

(* The neurons depend on the files, the layer and its activations.         *)
LEMMA SameNeurons ==
  ASSUME files' = files, acts' = acts, layer' = layer
  PROVE  /\ \A k : feed_forward!Activation(k)' = feed_forward!Activation(k)
         /\ \A k : feed_forward!WeightAt(k)' = feed_forward!WeightAt(k)
         /\ \A f : feed_forward!Sums(f)' = feed_forward!Sums(f)
         /\ \A n : feed_forward!Neuron(n)' = feed_forward!Neuron(n)
<1>1. \A k : feed_forward!Activation(k)' = feed_forward!Activation(k)
  BY DEF feed_forward!Activation
<1>2. \A k : feed_forward!WeightAt(k)' = feed_forward!WeightAt(k)
  BY DEF feed_forward!WeightAt, feed_forward!Weights
<1>3. \A f : feed_forward!Sums(f)' = feed_forward!Sums(f)
  BY <1>1, <1>2 DEF feed_forward!Sums
<1>4. /\ \A l : feed_forward!Size(l)' = feed_forward!Size(l)
      /\ feed_forward!Base' = feed_forward!Base
  BY SameFiles
<1>5. \A n : feed_forward!Neuron(n)' = feed_forward!Neuron(n)
  BY <1>2, <1>3, <1>4 DEF feed_forward!Neuron
<1> QED BY <1>1, <1>2, <1>3, <1>5

(* In a cycle nothing they depend on changes.                              *)
LEMMA CycleSame ==
  ASSUME TypeOK, DispatchInv, PhaseInv, Edge,
         ctrl_pc \in {"settle", "cycle"}, ctrl_pc' \in {"settle", "cycle"}
  PROVE  /\ files' = files /\ acts' = acts /\ layer' = layer
         /\ \A n : First(n)' = First(n)
         /\ previous_data_layer' = previous_data_layer
<1>1. UNCHANGED <<prev_memory, previous_data_layer, start_weight_adderess>>
  BY CycleKeepsInputs
<1>2. files' = files /\ ctrl_i' = ctrl_i
  BY DEF Edge, controller!process, controller!StayIdle, controller!BeginRead,
         controller!ReadLayers, controller!StartConv, controller!SelectLayer,
         controller!StartGenerator, controller!EndStart, controller!Settle,
         controller!AwaitCycle, controller!StartClone, controller!AwaitClone,
         controller!loop
<1>3. acts' = acts /\ layer' = layer
  BY <1>1, <1>2 DEF acts, layer, Started, Copying
<1> QED BY <1>1, <1>2, <1>3 DEF First

(* What the stores give a unit on an edge of a cycle.                      *)
LEMMA WordsGiven ==
  ASSUME TypeOK, PhaseInv, LoadedInv, SelectInv, Edge,
         ctrl_pc \in {"settle", "cycle"}, NEW p \in PC
  PROVE  /\ data_prev_layer_bus'[p] = feed_forward!Activation(addr_prev_layer_bus[p])
         /\ data_weight_bus'[p] = feed_forward!WeightAt(addr_weight_bus[p])
<1>1. addr_io_bus = 0 /\ ~wr_to_mem_from_mem_ctrl_mem_bus /\ ~clr_prev_layer_ctrl_mem_bus
  BY AfterStart DEF Started, PhaseInv, CloneInv
<1>2. \A m \in previous_layer!Views : m = prev_memory
  BY <1>1 DEF Edge, PreviousLayerEdge, previous_layer!Views, previous_layer!Added,
     previous_layer!Cleared, previous_layer!Push, previous_layer!add_to_mem_and_clear
<1>3. PICK m, k : previous_layer!Edge(m, k)
  BY DEF Edge, PreviousLayerEdge
<1>4. data_prev_layer_bus'[p] = previous_layer!Word(prev_memory, addr_prev_layer_bus[p])
  BY <1>2, <1>3 DEF previous_layer!Edge, previous_layer!issue_element_PC,
                    previous_layer!PC, PC
<1>5. data_weight_bus'[p] = weight_storage!Word(weight_memory, addr_weight_bus[p])
  BY <1>1 DEF Edge, weight_storage!Edge, weight_storage!add_to_memory,
              weight_storage!issue_element, weight_storage!PC, PC
<1> QED BY <1>4, <1>5, CycleValues

(* The sizes of a network that fits.                                       *)
LEMMA FittingSizes ==
  ASSUME TypeOK, Fitting, NEW l \in Nat \ {0}
  PROVE  /\ feed_forward!Size(l) \in Nat
         /\ l >= 2 => feed_forward!Size(l) <= MEM_SIZE
<1>1. Layers \in Nat /\ Sizes \in Seq(Int) /\ Len(Sizes) = Layers
  BY FileTypes DEF TypeOK
<1>2. feed_forward!Size(l) = IF l <= Layers THEN Sizes[l] ELSE 0
  BY SameTerms DEF feed_forward!Size, Sizes, Layers
<1>3. MEM_SIZE \in Nat
  BY ConfigAssumption
<1>4. l <= Layers => l \in 1 .. Layers /\ Sizes[l] \in Int
  BY <1>1
<1>5. l <= Layers /\ l >= 2 => l \in 2 .. Layers
  BY <1>1
<1> QED BY <1>1, <1>2, <1>3, <1>4, <1>5 DEF Fitting

(* A unit moves from one partial sum of its neuron to the next.            *)
LEMMA StepPartial ==
  ASSUME TypeOK, DispatchInv, PhaseInv, LoadedInv, SelectInv, Fitting, Edge,
         ctrl_pc \in {"settle", "cycle"}, ctrl_pc' \in {"settle", "cycle"},
         NEW p \in PC, Partial(p)
  PROVE  Partial(p)'
<1> USE DEF processors!PC, PC
<1> DEFINE S == previous_data_layer
           n == pu_number_of_nn[p]
           k == pu_i[p]
           A(j) == feed_forward!Activation(j)
           W(j) == feed_forward!WeightAt(j)
           sums(f) == feed_forward!Sums(f)
<1>1. processors!add_to_queue /\ processors!process
  BY DEF Edge, processors!Edge
<1>2. S \in Nat
  <2>1. S = feed_forward!Size(layer) /\ layer \in Nat \ {0}
    BY CycleLayer
  <2> QED BY <2>1, FittingSizes
<1>3. /\ n \in Nat /\ k \in Nat /\ start_weight_adderess \in Int
      /\ pu_pc[p] \in {"idle", "mac1", "mac2", "bias1", "bias2", "store"}
      /\ acts \in Seq(Number) /\ files \in Inputs
  <2>1. acts = prev_memory
    BY CycleLayer
  <2> QED BY <2>1, Numbers DEF TypeOK, processors!TypeOK, controller!TypeOK,
                               previous_layer!TypeOK
<1>4. \A m \in Nat : First(m) \in Int
  <2>1. \A s, q, m \in Int : s + (q + 1) * m \in Int
    OBVIOUS
  <2> QED BY <1>2, <1>3, <2>1 DEF First
<1>5. \A f \in Int : /\ sums(f)[0] = OfInt(0)
                     /\ \A j \in Nat : sums(f)[j + 1] = Mac(sums(f)[j], A(j), W(f + j))
  <2> SUFFICES ASSUME NEW f \in Int
               PROVE  /\ sums(f)[0] = OfInt(0)
                      /\ \A j \in Nat : sums(f)[j + 1] = Mac(sums(f)[j], A(j), W(f + j))
    OBVIOUS
  <2> QED BY <1>3, SumsUnfold
<1>6. /\ \A j : A(j)' = A(j) /\ W(j)' = W(j)
      /\ \A f : sums(f)' = sums(f)
      /\ \A m : feed_forward!Neuron(m)' = feed_forward!Neuron(m)
      /\ \A m : First(m)' = First(m)
      /\ S' = S
  BY CycleSame, SameNeurons
<1>7. /\ data_prev_layer_bus'[p] = A(addr_prev_layer_bus[p])
      /\ data_weight_bus'[p] = W(addr_weight_bus[p])
  BY WordsGiven
<1>8. \A m, j : processors!WeightAddress(m, j) = First(m) + j
  BY DEF processors!WeightAddress, First
<1>9. \A u, v, w : processors!Mac(u, v, w) = Mac(u, v, w)
      /\ processors!AddBias(u, v) = AddBias(u, v)
      /\ processors!sigmoid(u) = sigmoid(u)
      /\ processors!OfInt(0) = OfInt(0)
  BY DEF processors!Mac, Mac, processors!AddBias, AddBias, processors!sigmoid, sigmoid,
         processors!OfInt, OfInt
<1>10. /\ pu_pc'[p] = processors!NextPc(p)
       /\ pu_number_of_nn'[p] = processors!Neuron(p)
       /\ pu_i'[p] = processors!Input(p)
       /\ pu_sum_reg'[p] = processors!Sum(p)
       /\ addr_weight_bus'[p] =
             IF ~processors!AtHead(p) THEN addr_weight_bus[p]
             ELSE First(pu_number_of_nn'[p])
                    + (IF processors!HasInput(p) THEN pu_i'[p] ELSE S)
       /\ addr_prev_layer_bus'[p] =
             IF processors!AtHead(p) /\ processors!HasInput(p) THEN pu_i'[p]
             ELSE addr_prev_layer_bus[p]
       /\ resmem_addr_bus'[p] = IF pu_pc[p] = "bias2" THEN n ELSE resmem_addr_bus[p]
       /\ resmem_data_bus'[p] = IF pu_pc[p] = "bias2" THEN sigmoid(processors!Sum(p))
                                ELSE resmem_data_bus[p]
       /\ processors!HasInput(p) <=> pu_i'[p] < S
  BY <1>1, <1>8, <1>9 DEF processors!process, processors!HasInput
<1>11. pu_pc[p] = "bias2" => processors!Sum(p) = AddBias(pu_sum_reg[p], data_weight_bus[p])
  BY <1>9 DEF processors!Sum, processors!Takes
<1> HIDE DEF S, n, k, A, W, sums
(* What Partial says after the edge, in the values before it.              *)
<1> DEFINE m == pu_number_of_nn'[p]
           j == pu_i'[p]
<1>12. SUFFICES
        /\ pu_pc'[p] \in {"mac1", "mac2"} => j < S /\ addr_prev_layer_bus'[p] = j
        /\ pu_pc'[p] \in {"bias1", "bias2", "store"} => j = S
        /\ pu_pc'[p] # "idle" => addr_weight_bus'[p] = First(m) + j
        /\ pu_pc'[p] \in {"mac1", "mac2", "bias1", "bias2"} =>
             pu_sum_reg'[p] = sums(First(m))[j]
        /\ pu_pc'[p] = "mac2" =>
             /\ data_prev_layer_bus'[p] = A(addr_prev_layer_bus'[p])
             /\ data_weight_bus'[p] = W(addr_weight_bus'[p])
        /\ pu_pc'[p] = "bias2" => data_weight_bus'[p] = W(addr_weight_bus'[p])
        /\ pu_pc'[p] = "store" =>
             /\ resmem_addr_bus'[p] = m
             /\ resmem_data_bus'[p] = feed_forward!Neuron(m)
  BY <1>6 DEF Partial, Busy, InputShown, WeightShown, S, A, W, sums
<1>13. CASE processors!Takes(p)
  <2>1. /\ j = 0 /\ m \in Nat /\ pu_sum_reg'[p] = OfInt(0)
        /\ pu_pc'[p] = IF j < S THEN "mac1" ELSE "bias1"
        /\ processors!AtHead(p)
    <3>1. m = Head(processors!Pushed(p)) /\ processors!Pushed(p) # << >>
      BY <1>10, <1>13 DEF processors!Neuron, processors!Takes
    <3>2. processors!Pushed(p) \in Seq(Nat)
      BY QueueAfter DEF Edge
    <3> HIDE DEF m
    <3>3. m \in Nat
      BY <3>1, <3>2
    <3>4. processors!AtHead(p) /\ processors!Input(p) = 0
      BY <1>13 DEF processors!AtHead, processors!Input
    <3>5. processors!Sum(p) = OfInt(0)
      BY <1>9, <1>13 DEF processors!Sum, processors!Takes
    <3>6. processors!NextPc(p) = IF processors!HasInput(p) THEN "mac1" ELSE "bias1"
      BY <1>13, <3>4 DEF processors!NextPc, processors!Takes
    <3> QED BY <1>10, <3>3, <3>4, <3>5, <3>6
  <2>2. First(m) \in Int
    BY <1>4, <2>1
  <2> HIDE DEF m, j
  <2>3. pu_sum_reg'[p] = sums(First(m))[j]
    BY <1>5, <2>1, <2>2
  <2>4. CASE 0 < S
    BY <1>10, <2>1, <2>3, <2>4 DEF m, j
  <2>5. CASE ~(0 < S)
    <3>1. S = 0
      BY <1>2, <2>5
    <3> QED BY <1>10, <2>1, <2>3, <3>1 DEF m, j
  <2> QED BY <2>4, <2>5
<1>14. CASE ~processors!Takes(p) /\ pu_pc[p] = "mac2"
  <2>1. /\ j = k + 1 /\ m = n /\ processors!AtHead(p)
        /\ pu_sum_reg'[p] = Mac(pu_sum_reg[p], data_prev_layer_bus[p], data_weight_bus[p])
        /\ pu_pc'[p] = IF j < S THEN "mac1" ELSE "bias1"
    BY <1>9, <1>10, <1>14 DEF processors!Input, processors!Sum, processors!Neuron,
                        processors!NextPc, processors!AtHead, k, n
  <2>2. /\ k < S /\ pu_sum_reg[p] = sums(First(n))[k]
        /\ data_prev_layer_bus[p] = A(k) /\ data_weight_bus[p] = W(First(n) + k)
    BY <1>14 DEF Partial, Busy, InputShown, WeightShown, S, A, W, sums, k, n
  <2>3. k \in Nat /\ n \in Nat /\ First(n) \in Int
    BY <1>3, <1>4 DEF k, n
  <2> HIDE DEF m, j
  <2>4. pu_sum_reg'[p] = sums(First(m))[j]
    BY <1>5, <2>1, <2>2, <2>3
  <2>5. j < S \/ j = S
    BY <1>2, <2>1, <2>2, <2>3
  <2>6. CASE j < S
    BY <1>10, <2>1, <2>4, <2>6 DEF m, j
  <2>7. CASE j = S
    <3>1. ~(j < S)
      BY <1>2, <2>7
    <3> QED BY <1>10, <2>1, <2>4, <2>7, <3>1 DEF m, j
  <2> QED BY <2>5, <2>6, <2>7
<1>15. CASE ~processors!Takes(p) /\ pu_pc[p] # "mac2"
  <2>1. /\ j = k /\ m = n /\ ~processors!AtHead(p)
        /\ addr_weight_bus'[p] = addr_weight_bus[p]
        /\ addr_prev_layer_bus'[p] = addr_prev_layer_bus[p]
    BY <1>10, <1>15 DEF processors!Input, processors!Neuron, processors!AtHead, k, n
  <2>2. CASE pu_pc[p] \in {"idle", "store"}
    <3>1. pu_pc'[p] = "idle"
      BY <1>10, <2>1, <2>2 DEF processors!NextPc
    <3> QED BY <3>1
  <2>3. CASE pu_pc[p] \in {"mac1", "bias1"}
    <3>1. /\ pu_pc[p] = "mac1" => pu_pc'[p] = "mac2"
          /\ pu_pc[p] = "bias1" => pu_pc'[p] = "bias2"
          /\ pu_sum_reg'[p] = pu_sum_reg[p]
      BY <1>10, <1>15, <2>1, <2>3 DEF processors!NextPc, processors!Sum
    <3>2. /\ pu_pc[p] = "mac1" => k < S /\ addr_prev_layer_bus[p] = k
          /\ pu_pc[p] = "bias1" => k = S
          /\ addr_weight_bus[p] = First(n) + k
          /\ pu_sum_reg[p] = sums(First(n))[k]
      BY <2>3 DEF Partial, Busy, S, k, n, sums
    <3> QED BY <1>7, <2>1, <2>3, <3>1, <3>2
  <2>4. CASE pu_pc[p] = "bias2"
    <3>1. pu_pc'[p] = "store"
      BY <1>10, <2>1, <2>4 DEF processors!NextPc
    <3>2. /\ k = S /\ addr_weight_bus[p] = First(n) + k
          /\ pu_sum_reg[p] = sums(First(n))[k] /\ data_weight_bus[p] = W(First(n) + k)
      BY <2>4 DEF Partial, Busy, WeightShown, S, W, sums, k, n
    <3>3. resmem_data_bus'[p] = sigmoid(AddBias(sums(First(n))[S], W(First(n) + S)))
      BY <1>10, <1>11, <2>4, <3>2
    <3>4. feed_forward!Neuron(n) = sigmoid(AddBias(sums(First(n))[S], W(First(n) + S)))
      BY CycleValues DEF S, W, sums
    <3> QED BY <1>10, <2>1, <2>4, <3>1, <3>2, <3>3, <3>4
  <2> QED BY <1>3, <1>15, <2>2, <2>3, <2>4
<1> QED BY <1>13, <1>14, <1>15

(* Partial sums are right in every cycle.                                  *)
LEMMA StepPartials ==
  ASSUME TypeOK, DispatchInv, PhaseInv, LoadedInv, SelectInv, Fitting,
         PartialInv, [Next]_vars
  PROVE  PartialInv'
<1>1. CASE Edge
  <2> SUFFICES ASSUME ctrl_pc' \in {"settle", "cycle"}, NEW p \in PC
               PROVE  Partial(p)'
    BY DEF PartialInv
  <2>1. CASE ctrl_pc \in {"settle", "cycle"}
    BY <1>1, <2>1, StepPartial DEF PartialInv
  <2>2. CASE ctrl_pc = "gen"
    <3>1. ~gen_write /\ pu_queue[p] = << >> /\ ~Busy(p)
      BY <2>2, AtRest DEF PhaseInv, RestInv
    <3>2. processors!Pushed(p) = << >>
      BY <3>1 DEF processors!Pushed, processors!Accepts
    <3>3. pu_pc'[p] = "idle"
      BY <1>1, <3>1, <3>2 DEF Edge, processors!Edge, processors!process, processors!NextPc,
           processors!AtHead, processors!Takes, Busy, processors!PC, PC
    <3> QED BY <3>3 DEF Partial, Busy
  <2>3. Moves
    BY <1>1, ControllerSteps DEF PhaseInv, Edge
  <2> QED BY <2>1, <2>2, <2>3 DEF Moves, TypeOK, controller!TypeOK
<1>2. CASE Abort \/ Over \/ UNCHANGED vars
  <2>1. UNCHANGED <<ioVars, ctrlVars, storeVars, prevVars, puVars, nextVars>>
    BY <1>2 DEF Abort, Over, vars
  <2>2. files' = files /\ acts' = acts /\ layer' = layer
    BY <2>1 DEF acts, layer, Started, Copying, write_out_controller_bus, ioVars,
                ctrlVars, storeVars, prevVars, nextVars
  <2>3. /\ \A k : feed_forward!Activation(k)' = feed_forward!Activation(k)
        /\ \A k : feed_forward!WeightAt(k)' = feed_forward!WeightAt(k)
        /\ \A f : feed_forward!Sums(f)' = feed_forward!Sums(f)
        /\ \A n : feed_forward!Neuron(n)' = feed_forward!Neuron(n)
    BY <2>2, SameNeurons
  <2>4. \A n : First(n)' = First(n)
    BY <2>1 DEF First, ctrlVars, storeVars
  <2>5. \A p \in PC : Partial(p)' = Partial(p)
    BY <2>1, <2>3, <2>4 DEF Partial, Busy, InputShown, WeightShown, storeVars, prevVars,
                            puVars
  <2> QED BY <2>1, <2>5 DEF PartialInv, ctrlVars
<1> QED BY <1>1, <1>2 DEF Next

----------------------------------------------------------------------------
(* The numbers underway                                                    *)

(* A result shown is that of the first number the unit holds.              *)
LEMMA HeldFirst ==
  ASSUME TypeOK, NEW p \in PC
  PROVE  /\ Held(p) \in Seq(Nat)
         /\ Busy(p) => Held(p) # << >> /\ Held(p)[1] = pu_number_of_nn[p]
<1>1. processors!Pushed(p) \in Seq(Nat)
  BY DEF TypeOK, processors!TypeOK, generator!TypeOK, processors!Pushed, processors!PC, PC
<1>2. pu_number_of_nn[p] \in Nat
  BY DEF TypeOK, processors!TypeOK, processors!PC, PC
<1>3. CASE Busy(p)
  BY <1>1, <1>2, <1>3 DEF Held, Hand
<1>4. CASE ~Busy(p)
  BY <1>1, <1>4 DEF Held, Hand
<1> QED BY <1>3, <1>4

Kept(p) == IF pu_pc[p] = "store" THEN Tail(Held(p)) ELSE Held(p)

(* A unit that has shown its result goes on with the next number, if any.  *)
LEMMA HeldKept ==
  ASSUME TypeOK, Edge, NEW p \in PC
  PROVE  Hand(p)' \o pu_queue'[p] = Kept(p)
<1> USE DEF processors!PC, PC
<1> DEFINE q == processors!Pushed(p)
           n == pu_number_of_nn[p]
<1>1. /\ q \in Seq(Nat)
      /\ pu_queue'[p] = IF processors!Takes(p) THEN Tail(q) ELSE q
  BY QueueAfter DEF Edge
<1>2. n \in Nat
  BY DEF TypeOK, processors!TypeOK
<1>3. /\ pu_number_of_nn'[p] = IF processors!Takes(p) THEN Head(q) ELSE n
      /\ pu_pc'[p] = processors!NextPc(p)
      /\ pu_pc[p] \in {"idle", "mac1", "mac2", "bias1", "bias2", "store"}
  BY DEF Edge, processors!Edge, processors!process, processors!Neuron, TypeOK,
         processors!TypeOK
<1>4. processors!Takes(p) <=> pu_pc[p] \in {"idle", "store"} /\ q # << >>
  BY DEF processors!Takes
<1>5. Busy(p)' <=> processors!Takes(p) \/ (Busy(p) /\ pu_pc[p] # "store")
  BY <1>3, <1>4 DEF Busy, processors!NextPc, processors!AtHead
<1>6. Kept(p) = IF Busy(p) /\ pu_pc[p] # "store" THEN <<n>> \o q ELSE q
  <2> HIDE DEF n, q
  <2>1. CASE pu_pc[p] = "store"
    <3>1. Held(p) = <<n>> \o q
      BY <2>1 DEF Held, Hand, Busy, n, q
    <3>2. Tail(<<n>> \o q) = q
      BY <1>1, <1>2
    <3> QED BY <2>1, <3>1, <3>2 DEF Kept
  <2>2. CASE pu_pc[p] # "store"
    <3>1. << >> \o q = q
      BY <1>1
    <3> QED BY <2>2, <3>1 DEF Kept, Held, Hand, n, q
  <2> QED BY <2>1, <2>2
<1> HIDE DEF q, n
<1>7. CASE processors!Takes(p)
  <2>1. <<Head(q)>> \o Tail(q) = q
    BY <1>1, <1>4, <1>7
  <2>2. Hand(p)' = <<Head(q)>>
    BY <1>3, <1>5, <1>7 DEF Hand
  <2> QED BY <1>1, <1>4, <1>6, <1>7, <2>1, <2>2 DEF Busy
<1>8. CASE ~processors!Takes(p)
  <2>1. Hand(p)' = IF Busy(p) /\ pu_pc[p] # "store" THEN <<n>> ELSE << >>
    BY <1>3, <1>5, <1>8 DEF Hand
  <2>2. << >> \o q = q
    BY <1>1
  <2> QED BY <1>1, <1>6, <1>8, <2>1, <2>2
<1> QED BY <1>7, <1>8

(* The generator's next number goes to the end of what a unit holds.       *)
LEMMA HeldAfter ==
  ASSUME TypeOK, DispatchInv, DispatchInv', CopyInv, Edge, NEW p \in PC
  PROVE  Held(p)' = IF gen_write' /\ gen_address' = p THEN Append(Kept(p), gen_counter)
                                                       ELSE Kept(p)
<1>1. Hand(p)' \o pu_queue'[p] = Kept(p)
  BY HeldKept
<1>2. gen_write' => gen_data' = gen_counter
  <2>1. gen_write => gen_pc = "written"
    BY DEF DispatchInv, GeneratorInv
  <2> QED BY <2>1 DEF Edge, generator!generate, generator!Idle, generator!Enter,
                      generator!Choose, generator!Withdraw
<1>3. processors!Pushed(p)' = IF gen_write' /\ gen_address' = p
                                THEN Append(pu_queue'[p], gen_counter) ELSE pu_queue'[p]
  <2>1. gen_write' => Len(pu_queue'[gen_address']) < QUEUE_SIZE
    BY DEF DispatchInv, GeneratorInv
  <2> QED BY <1>2, <2>1 DEF processors!Pushed, processors!Accepts
<1>4. pu_queue'[p] \in Seq(Nat) /\ gen_counter \in Nat
  BY QueueAfter DEF Edge, TypeOK, generator!TypeOK
<1>5. Hand(p)' \in Seq(Nat)
  <2>1. pu_number_of_nn'[p] \in Nat
    <3>1. processors!Pushed(p) \in Seq(Nat)
      BY QueueAfter DEF Edge
    <3>2. pu_number_of_nn'[p] = IF processors!Takes(p) THEN Head(processors!Pushed(p))
                                ELSE pu_number_of_nn[p]
      BY DEF Edge, processors!Edge, processors!process, processors!Neuron, processors!PC,
             PC
    <3>3. pu_number_of_nn[p] \in Nat
      BY DEF TypeOK, processors!TypeOK, processors!PC, PC
    <3>4. processors!Takes(p) => processors!Pushed(p) # << >>
      BY DEF processors!Takes
    <3> QED BY <3>1, <3>2, <3>3, <3>4
  <2>2. Hand(p)' = IF Busy(p)' THEN <<pu_number_of_nn'[p]>> ELSE << >>
    BY DEF Hand
  <2> QED BY <2>1, <2>2
<1>6. Held(p)' = Hand(p)' \o processors!Pushed(p)'
  BY DEF Held
<1>7. \A s, t \in Seq(Nat), c \in Nat : s \o Append(t, c) = Append(s \o t, c)
  OBVIOUS
<1>8. CASE gen_write' /\ gen_address' = p
  <2>1. Hand(p)' \o Append(pu_queue'[p], gen_counter) =
          Append(Hand(p)' \o pu_queue'[p], gen_counter)
    BY <1>4, <1>5, <1>7
  <2> QED BY <1>1, <1>3, <1>6, <1>8, <2>1
<1>9. CASE ~(gen_write' /\ gen_address' = p)
  BY <1>1, <1>3, <1>6, <1>9
<1> QED BY <1>8, <1>9

(* How far the numbers of a unit move up on an edge.                       *)
Shift(p) == IF pu_pc[p] = "store" THEN 1 ELSE 0

IsNew(p, j) ==
  gen_write' /\ gen_address' = p /\ j = Len(Kept(p)) + 1 /\ Held(p)'[j] = gen_counter

(* Where each number came from on an edge, and where each goes.            *)
LEMMA HeldMoves ==
  ASSUME TypeOK, DispatchInv, DispatchInv', CopyInv, Edge, NEW p \in PC
  PROVE  /\ \A j \in DOMAIN Held(p)' :
              \/ j + Shift(p) \in DOMAIN Held(p) /\ Held(p)'[j] = Held(p)[j + Shift(p)]
              \/ IsNew(p, j)
         /\ \A k \in DOMAIN Held(p) :
              \/ k - Shift(p) \in DOMAIN Held(p)' /\ Held(p)'[k - Shift(p)] = Held(p)[k]
              \/ pu_pc[p] = "store" /\ k = 1 /\ Held(p)[k] = pu_number_of_nn[p]
         /\ gen_write' /\ gen_address' = p =>
              \E j \in DOMAIN Held(p)' : Held(p)'[j] = gen_counter
<1> DEFINE h == Held(p)
           t == Kept(p)
           d == Shift(p)
           new == gen_write' /\ gen_address' = p
<1>1. /\ h \in Seq(Nat)
      /\ pu_pc[p] = "store" => h # << >> /\ h[1] = pu_number_of_nn[p]
  BY HeldFirst DEF Busy
<1>2. d \in {0, 1} /\ (d = 1 <=> pu_pc[p] = "store")
  BY DEF Shift
<1>3. t = IF d = 1 THEN Tail(h) ELSE h
  BY <1>2 DEF Kept
<1>4. Held(p)' = IF new THEN Append(t, gen_counter) ELSE t
  BY HeldAfter
<1>5. gen_counter \in Nat
  BY DEF TypeOK, generator!TypeOK
<1>6. PICK g : g = Held(p)'
  OBVIOUS
<1>7. IsNew(p, Len(t) + 1) <=> new /\ g[Len(t) + 1] = gen_counter
  BY <1>6 DEF IsNew
<1> HIDE DEF h, d, new, t
<1>8. /\ t \in Seq(Nat) /\ Len(t) = Len(h) - d /\ Len(h) \in Nat /\ Len(t) \in Nat
      /\ \A j \in 1 .. Len(t) : j + d \in 1 .. Len(h) /\ t[j] = h[j + d]
      /\ \A k \in 1 .. Len(h) : k > d => k - d \in 1 .. Len(t) /\ t[k - d] = h[k]
  <2>1. CASE d = 0
    BY <1>1, <1>3, <2>1
  <2>2. CASE d = 1
    <3>1. h # << >>
      BY <1>1, <1>2, <2>2
    <3>2. /\ t = Tail(h) /\ t \in Seq(Nat) /\ Len(t) = Len(h) - 1
          /\ \A j \in 1 .. Len(t) : t[j] = h[j + 1]
      BY <1>1, <1>3, <2>2, <3>1
    <3>3. Len(h) \in Nat /\ Len(t) \in Nat
      BY <1>1, <3>2
    <3> QED BY <2>2, <3>2, <3>3
  <2> QED BY <1>2, <2>1, <2>2
<1>9. /\ g = IF new THEN Append(t, gen_counter) ELSE t
      /\ DOMAIN g = 1 .. Len(g) /\ DOMAIN h = 1 .. Len(h)
      /\ Len(g) = Len(t) + IF new THEN 1 ELSE 0
      /\ \A j \in 1 .. Len(t) : g[j] = t[j]
      /\ new => g[Len(t) + 1] = gen_counter
  BY <1>1, <1>4, <1>5, <1>6, <1>8
<1>10. ASSUME NEW j \in DOMAIN g
       PROVE  (j + d \in DOMAIN h /\ g[j] = h[j + d]) \/ IsNew(p, j)
  <2>1. j \in 1 .. Len(t) \/ (new /\ j = Len(t) + 1)
    BY <1>8, <1>9
  <2> QED BY <1>7, <1>8, <1>9, <2>1
<1>11. ASSUME NEW k \in DOMAIN h
       PROVE  \/ k - d \in DOMAIN g /\ g[k - d] = h[k]
              \/ pu_pc[p] = "store" /\ k = 1 /\ h[k] = pu_number_of_nn[p]
  <2>1. k \in 1 .. Len(h) /\ Len(h) \in Nat
    BY <1>8, <1>9
  <2>2. CASE k > d
    <3>1. k - d \in 1 .. Len(t) /\ t[k - d] = h[k]
      BY <1>8, <2>1, <2>2
    <3>2. k - d \in 1 .. Len(g)
      BY <1>8, <1>9, <3>1
    <3> QED BY <1>9, <3>1, <3>2
  <2>3. CASE ~(k > d)
    <3>1. k = 1 /\ d = 1
      BY <1>2, <2>1, <2>3
    <3> QED BY <1>1, <1>2, <3>1
  <2> QED BY <2>2, <2>3
<1>12. new => \E j \in DOMAIN g : g[j] = gen_counter
  <2> SUFFICES ASSUME new PROVE Len(t) + 1 \in DOMAIN g
    BY <1>9
  <2> QED BY <1>8, <1>9
<1> QED BY <1>6, <1>10, <1>11, <1>12 DEF h, d, new

(* A number is new on the bus only if the generator counts it.             *)
LEMMA NewCounted ==
  ASSUME TypeOK, DispatchInv, NumbersInv, Edge, gen_write'
  PROVE  gen_state = "GENERATE" /\ gen_counter' = gen_counter + 1 /\ gen_address' \in PC
<1>1. gen_write => gen_pc = "written"
  BY DEF DispatchInv, GeneratorInv
<1>2. PICK p \in PC : generator!Choose(p)
  BY <1>1 DEF Edge, generator!generate, generator!Idle, generator!Enter,
              generator!Withdraw, generator!PC, PC
<1> QED BY <1>1, <1>2 DEF generator!Choose, NumbersInv

(* Numbers stay distinct: the one handed out next is larger than all.      *)
LEMMA StepDistinct ==
  ASSUME TypeOK, DispatchInv, DispatchInv', CopyInv, CountInv, Distinct, Edge
  PROVE  Distinct'
<1> SUFFICES ASSUME NEW p \in PC, NEW q \in PC,
                    NEW j \in DOMAIN Held(p)', NEW k \in DOMAIN Held(q)',
                    Held(p)'[j] = Held(q)'[k]
             PROVE  p = q /\ j = k
  BY DEF Distinct
<1>1. ASSUME NEW r \in PC, NEW m \in DOMAIN Held(r)'
      PROVE  \/ m + Shift(r) \in DOMAIN Held(r) /\ Held(r)'[m] = Held(r)[m + Shift(r)]
             \/ IsNew(r, m)
  BY <1>1, HeldMoves
<1>2. ASSUME NEW r \in PC, NEW l \in DOMAIN Held(r), gen_write'
      PROVE  Held(r)[l] # gen_counter
  <2>1. gen_state = "GENERATE"
    BY <1>2, NewCounted DEF CopyInv
  <2>2. Held(r)[l] < gen_counter
    BY <2>1 DEF CountInv
  <2>3. Held(r)[l] \in Nat /\ gen_counter \in Nat
    BY HeldFirst DEF TypeOK, generator!TypeOK
  <2> QED BY <2>2, <2>3
<1>3. CASE IsNew(p, j) /\ IsNew(q, k)
  BY <1>3 DEF IsNew
<1>4. CASE ~IsNew(p, j) /\ ~IsNew(q, k)
  <2>1. p = q /\ j + Shift(p) = k + Shift(q)
    BY <1>1, <1>4 DEF Distinct
  <2>2. j \in Nat /\ k \in Nat
    <3>1. \A r \in PC : Held(r)' \in Seq(Nat)
      <4> SUFFICES ASSUME NEW r \in PC PROVE Held(r)' \in Seq(Nat)
        OBVIOUS
      <4>1. Held(r) \in Seq(Nat) /\ (pu_pc[r] = "store" => Held(r) # << >>)
        BY HeldFirst DEF Busy
      <4>2. Kept(r) \in Seq(Nat)
        BY <4>1 DEF Kept
      <4>3. gen_counter \in Nat
        BY DEF TypeOK, generator!TypeOK
      <4> QED BY <4>2, <4>3, HeldAfter
    <3> QED BY <3>1
  <2>3. j = k
    <3>1. Shift(p) = Shift(q) /\ Shift(p) \in Nat
      BY <2>1 DEF Shift
    <3> QED BY <2>1, <2>2, <3>1
  <2> QED BY <2>1, <2>3
<1>5. CASE IsNew(p, j) /\ ~IsNew(q, k)
  BY <1>1, <1>2, <1>5 DEF IsNew
<1>6. CASE ~IsNew(p, j) /\ IsNew(q, k)
  BY <1>1, <1>2, <1>6 DEF IsNew
<1> QED BY <1>3, <1>4, <1>5, <1>6

(* The generator counts to the size of the layer.                          *)
LEMMA StepCount ==
  ASSUME TypeOK, DispatchInv, DispatchInv', PhaseInv, CopyInv, CountInv, Edge,
         ctrl_pc \in {"settle", "cycle"}
  PROVE  CountInv'
<1>1. ~start_generator /\ data_layer' = data_layer
  BY CycleKeepsInputs DEF PhaseInv, LineInv
<1>2. gen_counter \in Nat /\ data_layer \in Int
  BY DEF TypeOK, generator!TypeOK, layers_storage!TypeOK
<1>3. gen_pc \in {"idle", "choose", "written"} /\ gen_state \in {"IDLE", "GENERATE"}
  BY DEF TypeOK, generator!TypeOK
<1>4. /\ gen_pc = "choose" => gen_state = "GENERATE"
      /\ gen_state = "GENERATE" => gen_counter = 0 \/ gen_counter < data_layer
  BY DEF CopyInv, NumbersInv, InLayer
<1>5. /\ gen_pc' = "idle" /\ gen_state' = "IDLE" => gen_end'
      /\ gen_pc' = "written" /\ gen_state' = "IDLE" => gen_counter' >= data_layer'
      /\ gen_counter' <= 1 \/ gen_counter' <= data_layer'
      /\ gen_state' = "GENERATE" =>
           gen_state = "GENERATE" /\ gen_counter' \in {gen_counter, gen_counter + 1}
  <2>1. CASE generator!Idle
    <3>1. gen_end' /\ gen_counter' = 0 /\ gen_state' = "IDLE" /\ gen_pc' = "idle"
      BY <1>1, <2>1 DEF generator!Idle
    <3> QED BY <3>1
  <2>2. CASE generator!Enter \/ generator!Withdraw
    BY <1>1, <2>2 DEF generator!Enter, generator!Withdraw, CountInv
  <2>3. ASSUME NEW p \in PC, generator!Choose(p)
        PROVE  /\ gen_pc' = "written" /\ gen_state = "GENERATE"
               /\ gen_state' = "IDLE" => gen_counter' >= data_layer
               /\ gen_counter' <= 1 \/ gen_counter' <= data_layer
               /\ gen_counter' \in {gen_counter, gen_counter + 1}
    <3>1. gen_pc = "choose" /\ gen_pc' = "written" /\ gen_state = "GENERATE"
      BY <1>4, <2>3 DEF generator!Choose
    <3>2. \/ gen_counter' = gen_counter /\ gen_state' = gen_state
          \/ /\ gen_counter' = gen_counter + 1
             /\ gen_state' = IF gen_counter + 1 >= data_layer THEN "IDLE" ELSE "GENERATE"
      BY <2>3 DEF generator!Choose
    <3> QED BY <1>2, <1>4, <3>1, <3>2
  <2> QED BY <1>1, <2>1, <2>2, <2>3 DEF Edge, generator!generate, generator!PC, PC
<1>6. ASSUME gen_state' = "GENERATE", NEW p \in PC, NEW j \in DOMAIN Held(p)'
      PROVE  Held(p)'[j] < gen_counter'
  <2>1. CASE IsNew(p, j)
    <3>1. Held(p)'[j] = gen_counter /\ gen_write'
      BY <2>1 DEF IsNew
    <3>2. gen_counter' = gen_counter + 1
      BY <3>1, NewCounted DEF CopyInv
    <3> QED BY <1>2, <3>1, <3>2
  <2>2. CASE ~IsNew(p, j)
    <3>1. PICK k \in DOMAIN Held(p) : Held(p)'[j] = Held(p)[k]
      BY <1>6, <2>2, HeldMoves
    <3>2. Held(p)[k] < gen_counter /\ Held(p)[k] \in Nat
      BY <1>5, <1>6, HeldFirst DEF CountInv
    <3> QED BY <1>2, <1>5, <1>6, <3>1, <3>2
  <2> QED BY <2>1, <2>2
<1> QED BY <1>5, <1>6 DEF CountInv

(* A number that leaves its unit leaves its value in NEXT_LAYER, and no    *)
(* other unit writes there.                                                *)
LEMMA StepStored ==
  ASSUME TypeOK, DispatchInv, DispatchInv', PhaseInv, CopyInv, LoadedInv, SelectInv,
         Fitting, PartialInv, CountInv, Distinct, Stored, Edge,
         ctrl_pc \in {"settle", "cycle"}, ctrl_pc' \in {"settle", "cycle"}
  PROVE  Stored'
<1> SUFFICES ASSUME NEW n \in HandedOut', ~IsHeld(n)'
             PROVE  next_memory'[n] = feed_forward!Neuron(n)'
  BY DEF Stored
<1> USE DEF next_layer_mem!PC, PC
<1>1. feed_forward!Neuron(n)' = feed_forward!Neuron(n)
  BY CycleSame, SameNeurons
<1>2. /\ gen_counter \in Nat /\ data_layer \in Int /\ data_layer' = data_layer
      /\ MEM_SIZE \in Nat \ {0} /\ data_layer <= MEM_SIZE
  <2>1. data_layer <= MEM_SIZE
    <3>1. data_layer = feed_forward!Size(layer + 1) /\ layer \in Nat \ {0}
      BY CycleLayer DEF CopyInv
    <3>2. layer + 1 \in Nat \ {0} /\ layer + 1 >= 2
      BY <3>1
    <3> QED BY <3>1, <3>2, FittingSizes
  <2> QED BY <2>1, CycleKeepsInputs, ConfigAssumption
          DEF TypeOK, generator!TypeOK, layers_storage!TypeOK
<1>3. n \in HandedOut
  <2>1. CASE gen_write'
    <3>1. gen_state = "GENERATE" /\ gen_counter' = gen_counter + 1 /\ gen_address' \in PC
      BY <2>1, NewCounted DEF CopyInv
    <3>2. n # gen_counter
      <4>1. \E j \in DOMAIN Held(gen_address)' : Held(gen_address)'[j] = gen_counter
        BY <2>1, <3>1, HeldMoves
      <4> QED BY <3>1, <4>1 DEF IsHeld
    <3>3. ~gen_end /\ ~gen_end'
      BY <2>1, <3>1 DEF DispatchInv, GeneratorInv
    <3>4. n \in 0 .. gen_counter' - 1
      BY <3>3 DEF HandedOut
    <3>5. n \in 0 .. gen_counter - 1
      BY <1>2, <3>1, <3>2, <3>4
    <3> QED BY <3>3, <3>5 DEF HandedOut
  <2>2. CASE ~gen_write'
    <3>1. CASE generator!Idle
      <4>1. gen_end' /\ gen_pc \in {"idle", "written"} /\ gen_state = "IDLE"
        BY <3>1 DEF generator!Idle, PhaseInv, LineInv
      <4>2. gen_end \/ gen_counter >= data_layer
        BY <4>1 DEF CountInv
      <4>3. n \in 0 .. data_layer - 1
        BY <1>2, <4>1 DEF HandedOut
      <4> QED BY <1>2, <4>2, <4>3 DEF HandedOut
    <3>2. CASE ~generator!Idle
      <4>1. gen_end' = gen_end /\ gen_counter' = gen_counter
        BY <2>2, <3>2 DEF Edge, generator!generate, generator!Enter, generator!Choose,
                          generator!Withdraw
      <4> QED BY <1>2, <4>1 DEF HandedOut
    <3> QED BY <3>1, <3>2
  <2> QED BY <2>1, <2>2
<1>4. n \in DOMAIN next_memory
  <2>1. n \in Nat /\ (n < gen_counter \/ n < data_layer)
    BY <1>2, <1>3 DEF HandedOut
  <2>2. n < MEM_SIZE
    BY <1>2, <2>1 DEF CountInv
  <2> QED BY <1>2, <2>1, <2>2 DEF TypeOK, next_layer_mem!TypeOK
<1>5. \A q \in next_layer_mem!Writers(n) :
        /\ q \in PC /\ pu_pc[q] = "store"
        /\ 1 \in DOMAIN Held(q) /\ Held(q)[1] = n
        /\ resmem_data_bus[q] = feed_forward!Neuron(n)
  <2> SUFFICES ASSUME NEW q \in next_layer_mem!Writers(n)
               PROVE  /\ q \in PC /\ pu_pc[q] = "store"
                      /\ 1 \in DOMAIN Held(q) /\ Held(q)[1] = n
                      /\ resmem_data_bus[q] = feed_forward!Neuron(n)
    OBVIOUS
  <2>1. q \in PC /\ resmem_w_bus[q] /\ resmem_addr_bus[q] = n
    BY DEF next_layer_mem!Writers
  <2>2. pu_pc[q] = "store"
    BY <2>1 DEF DispatchInv, UnitInv
  <2>3. resmem_addr_bus[q] = pu_number_of_nn[q]
        /\ resmem_data_bus[q] = feed_forward!Neuron(pu_number_of_nn[q])
    BY <2>1, <2>2 DEF PartialInv, Partial
  <2>4. /\ Held(q) \in Seq(Nat) /\ Held(q) # << >>
        /\ Held(q)[1] = pu_number_of_nn[q]
    BY <2>1, <2>2, HeldFirst DEF Busy
  <2>5. 1 \in DOMAIN Held(q)
    BY <2>4
  <2> QED BY <2>1, <2>2, <2>3, <2>4, <2>5
<1>6. next_memory'[n] =
        IF next_layer_mem!Writers(n) = {} THEN next_memory[n]
        ELSE resmem_data_bus[CHOOSE p \in next_layer_mem!Writers(n) :
                               \A q \in next_layer_mem!Writers(n) : q <= p]
  BY <1>4 DEF Edge, next_layer_mem!Edge, next_layer_mem!add_to_memory,
              next_layer_mem!Written
<1>7. CASE ~IsHeld(n)
  <2>1. next_layer_mem!Writers(n) = {}
    BY <1>5, <1>7 DEF IsHeld
  <2>2. next_memory[n] = feed_forward!Neuron(n)
    BY <1>3, <1>7 DEF Stored
  <2> QED BY <1>1, <1>6, <2>1, <2>2
<1>8. CASE IsHeld(n)
  <2>0. PICK p \in PC : \E k \in DOMAIN Held(p) : Held(p)[k] = n
    BY <1>8 DEF IsHeld
  <2>1. PICK k \in DOMAIN Held(p) : Held(p)[k] = n
    BY <2>0
  <2>2. pu_pc[p] = "store" /\ k = 1 /\ pu_number_of_nn[p] = n
    <3>1. \/ k - Shift(p) \in DOMAIN Held(p)' /\ Held(p)'[k - Shift(p)] = n
          \/ pu_pc[p] = "store" /\ k = 1 /\ n = pu_number_of_nn[p]
      BY <2>1, HeldMoves
    <3> QED BY <3>1 DEF IsHeld
  <2>3. p \in next_layer_mem!Writers(n)
    <3>1. resmem_w_bus[p]
      BY <2>2 DEF CopyInv, CursorInv
    <3>2. resmem_addr_bus[p] = n
      BY <2>2 DEF PartialInv, Partial
    <3> QED BY <3>1, <3>2 DEF next_layer_mem!Writers
  <2>4. next_layer_mem!Writers(n) = {p}
    <3>1. \A q \in next_layer_mem!Writers(n) : q = p
      BY <1>5, <2>1 DEF Distinct
    <3> QED BY <2>3, <3>1
  <2>5. (CHOOSE r \in {p} : \A q \in {p} : q <= r) = p
    BY DEF PC
  <2> QED BY <1>1, <1>5, <1>6, <2>3, <2>4, <2>5
<1> QED BY <1>7, <1>8

(* Nothing is underway when a cycle starts.                                *)
LEMMA StartAccount ==
  ASSUME TypeOK, DispatchInv, DispatchInv', PhaseInv, CopyInv, Edge, ctrl_pc = "gen"
  PROVE  CountInv' /\ Distinct' /\ Stored'
<1>1. start_generator /\ end_reducer!AllEnded
  BY DEF PhaseInv, LineInv, RestInv
<1>2. /\ ~gen_write /\ gen_state = "IDLE" /\ gen_pc = "idle"
      /\ \A p \in PC : pu_queue[p] = << >> /\ ~Busy(p)
  BY <1>1, AtRest
<1>3. gen_state' = "GENERATE" /\ gen_counter' = 0 /\ ~gen_end' /\ ~gen_write'
      /\ gen_pc' = "idle"
  BY <1>1, <1>2 DEF Edge, generator!generate, generator!Idle, generator!Enter,
                    generator!Choose, generator!Withdraw
<1>4. \A p \in PC : Held(p)' = << >>
  <2> SUFFICES ASSUME NEW p \in PC PROVE Held(p)' = << >>
    OBVIOUS
  <2>1. Held(p) = << >>
    BY <1>2 DEF Held, Hand, processors!Pushed, processors!Accepts
  <2>2. pu_pc[p] = "idle"
    BY <1>2 DEF Busy
  <2> QED BY <1>3, <2>1, <2>2, HeldAfter DEF Kept
<1>5. \A p \in PC : DOMAIN Held(p)' = {}
  BY <1>4
<1>6. HandedOut' = {}
  BY <1>3 DEF HandedOut
<1> QED BY <1>3, <1>5, <1>6 DEF CountInv, Distinct, Stored

(* Every step keeps the account.                                           *)
LEMMA StepAccount ==
  ASSUME TypeOK, DispatchInv, DispatchInv', PhaseInv, CopyInv, LoadedInv, SelectInv,
         Fitting, PartialInv, AccountInv, [Next]_vars
  PROVE  AccountInv'
<1>1. CASE Edge
  <2> SUFFICES ASSUME ctrl_pc' \in {"settle", "cycle"}
               PROVE  CountInv' /\ Distinct' /\ Stored'
    BY DEF AccountInv
  <2>1. CASE ctrl_pc \in {"settle", "cycle"}
    BY <1>1, <2>1, StepCount, StepDistinct, StepStored DEF AccountInv
  <2>2. CASE ctrl_pc = "gen"
    BY <1>1, <2>2, StartAccount
  <2>3. Moves
    BY <1>1, ControllerSteps DEF PhaseInv, Edge
  <2> QED BY <2>1, <2>2, <2>3 DEF Moves, TypeOK, controller!TypeOK
<1>2. CASE Abort \/ Over \/ UNCHANGED vars
  <2>1. UNCHANGED <<ioVars, ctrlVars, storeVars, prevVars, genVars, puVars, nextVars>>
    BY <1>2 DEF Abort, Over, vars
  <2>2. files' = files /\ acts' = acts /\ layer' = layer
    BY <2>1 DEF acts, layer, Started, Copying, write_out_controller_bus, ioVars,
                ctrlVars, storeVars, prevVars, nextVars
  <2>3. \A n : feed_forward!Neuron(n)' = feed_forward!Neuron(n)
    BY <2>2, SameNeurons
  <2>4. \A p : Held(p)' = Held(p)
    BY <2>1 DEF Held, Hand, Busy, processors!Pushed, processors!Accepts, genVars, puVars
  <2>5. /\ HandedOut' = HandedOut /\ \A n : IsHeld(n)' = IsHeld(n)
        /\ CountInv' = CountInv /\ Distinct' = Distinct
    BY <2>1, <2>4 DEF HandedOut, IsHeld, CountInv, Distinct, genVars, storeVars
  <2> QED BY <2>1, <2>3, <2>5 DEF AccountInv, Stored, ctrlVars, nextVars
<1> QED BY <1>1, <1>2 DEF Next

(* Before the first edge nothing is selected or handed out.                *)
LEMMA InitNetwork == Init => SelectInv /\ PartialInv /\ AccountInv
<1> SUFFICES ASSUME Init PROVE SelectInv /\ PartialInv /\ AccountInv
  OBVIOUS
<1>1. ctrl_pc = "idle" /\ ctrl_high = {} /\ ctrl_i = 0 /\ layers_index = 0
  BY DEF Init, controller!Init, layers_storage!Init
<1>2. ~Started /\ ~write_out_controller_bus
  BY <1>1 DEF Started, write_out_controller_bus
<1> QED BY <1>1, <1>2 DEF SelectInv, PartialInv, AccountInv

(* Once the controller is in its loop, the stores of sizes and weights hold *)
(* what the files give, and PREVIOUS_LAYER the picture until the first copy.*)
THEOREM LoadedInvariant == Spec => []LoadedInv
BY Loaded, TypeCorrect, PhaseInvariant, LoadInvariant, PTL

(* The layer selected is the next of the network, the address of its       *)
(* weights is where those of the layers before it end.                     *)
THEOREM SelectInvariant == Spec => []SelectInv
<1>1. Init => SelectInv
  BY InitNetwork
<1> QED BY <1>1, StepSelect, TypeCorrect, PhaseInvariant, LoadedInvariant, PTL
        DEF Spec

NetworkInv == Fitting => PartialInv /\ AccountInv

(***************************************************************************)
(* In networks that fit the memory, every unit has added up what           *)
(* FeedForward gives for the terms of its neuron it has seen so far, and   *)
(* the numbers underway are accounted for.                                 *)
(***************************************************************************)
THEOREM NetworkInvariant == Spec => []NetworkInv
<1>1. Init => NetworkInv
  BY InitNetwork DEF NetworkInv
<1>2. ASSUME TypeOK, DispatchInv, DispatchInv', PhaseInv, CopyInv, LoadedInv,
             SelectInv, NetworkInv, [Next]_vars
      PROVE  NetworkInv'
  <2> SUFFICES ASSUME Fitting' PROVE PartialInv' /\ AccountInv'
    BY DEF NetworkInv
  <2>1. files' = files
    BY <1>2 DEF Next, Edge, Abort, Over, ioVars, vars
  <2>2. Fitting
    BY <2>1 DEF Fitting, Layers, Sizes
  <2>3. PartialInv /\ AccountInv
    BY <1>2, <2>2 DEF NetworkInv
  <2>4. PartialInv'
    BY <1>2, <2>2, <2>3, StepPartials
  <2> QED BY <1>2, <2>2, <2>3, <2>4, StepAccount
<1> QED BY <1>1, <1>2, TypeCorrect, DispatchInvariant, PhaseInvariant,
           CopyInvariant, LoadedInvariant, SelectInvariant, PTL DEF Spec

----------------------------------------------------------------------------
(* The place of the j-th number unit p holds.                              *)
Before(p) == IF Busy(p) THEN 1 ELSE 0

PlaceAt(p, j) ==
  <<p, IF j - Before(p) <= Len(pu_queue[p]) THEN j - Before(p) ELSE QUEUE_SIZE + 1>>

(* What a unit holds: the number in hand, then those in its queue.         *)
LEMMA HeldShape ==
  ASSUME TypeOK, DispatchInv, NEW p \in PC
  PROVE  /\ Before(p) \in {0, 1} /\ (Busy(p) <=> Before(p) = 1)
         /\ Len(pu_queue[p]) \in Nat /\ Len(processors!Pushed(p)) \in Nat
         /\ DOMAIN Held(p) = 1 .. Before(p) + Len(processors!Pushed(p))
         /\ Busy(p) => Held(p)[1] = pu_number_of_nn[p]
         /\ \A k \in 1 .. Len(pu_queue[p]) : Held(p)[Before(p) + k] = pu_queue[p][k]
         /\ gen_write /\ gen_address = p =>
              /\ Len(processors!Pushed(p)) = Len(pu_queue[p]) + 1
              /\ Held(p)[Before(p) + Len(pu_queue[p]) + 1] = gen_data
         /\ ~(gen_write /\ gen_address = p) =>
              Len(processors!Pushed(p)) = Len(pu_queue[p])
<1>1. /\ pu_queue[p] \in Seq(Nat) /\ gen_data \in Nat /\ pu_number_of_nn[p] \in Nat
  BY DEF TypeOK, processors!TypeOK, generator!TypeOK, processors!PC, PC
<1>2. processors!Accepts(p) <=> gen_write /\ gen_address = p
  BY DEF processors!Accepts, DispatchInv, GeneratorInv
<1> DEFINE q == pu_queue[p]
           P == processors!Pushed(p)
           H == Hand(p)
<1>3. q \in Seq(Nat) /\ Len(q) \in Nat
  BY <1>1
<1>4. /\ P \in Seq(Nat) /\ Len(P) \in Nat /\ Len(P) >= Len(q)
      /\ \A k \in 1 .. Len(q) : P[k] = q[k]
      /\ gen_write /\ gen_address = p =>
           Len(P) = Len(q) + 1 /\ P[Len(q) + 1] = gen_data
      /\ ~(gen_write /\ gen_address = p) => Len(P) = Len(q)
  <2>1. CASE gen_write /\ gen_address = p
    <3>1. P = Append(q, gen_data)
      BY <1>2, <2>1 DEF processors!Pushed
    <3> HIDE DEF q, P
    <3>2. /\ Append(q, gen_data) \in Seq(Nat)
          /\ Len(Append(q, gen_data)) = Len(q) + 1
          /\ \A k \in 1 .. Len(q) : Append(q, gen_data)[k] = q[k]
          /\ Append(q, gen_data)[Len(q) + 1] = gen_data
      BY <1>1, <1>3, AppendProperties
    <3> QED BY <1>3, <2>1, <3>1, <3>2
  <2>2. CASE ~(gen_write /\ gen_address = p)
    <3>1. P = q
      BY <1>2, <2>2 DEF processors!Pushed
    <3> HIDE DEF q, P
    <3> QED BY <1>3, <2>2, <3>1
  <2> QED BY <2>1, <2>2
<1>5. /\ H \in Seq(Nat) /\ Len(H) = Before(p) /\ Before(p) \in {0, 1}
      /\ (Busy(p) <=> Before(p) = 1)
      /\ Busy(p) => H[1] = pu_number_of_nn[p]
  BY <1>1 DEF Hand, Before
<1>6. Held(p) = H \o P
  BY DEF Held
<1> HIDE DEF q, P, H
<1>7. /\ DOMAIN (H \o P) = 1 .. Len(H) + Len(P)
      /\ \A k \in 1 .. Len(H) : (H \o P)[k] = H[k]
      /\ \A k \in 1 .. Len(P) : (H \o P)[Len(H) + k] = P[k]
  <2>1. H \in Seq(Nat) /\ P \in Seq(Nat) /\ Len(H) \in Nat /\ Len(P) \in Nat
    BY <1>4, <1>5
  <2> QED BY <2>1
<1>8. /\ DOMAIN Held(p) = 1 .. Before(p) + Len(P)
      /\ Busy(p) => Held(p)[1] = pu_number_of_nn[p]
      /\ \A k \in 1 .. Len(q) : Held(p)[Before(p) + k] = q[k]
      /\ gen_write /\ gen_address = p => Held(p)[Before(p) + Len(q) + 1] = gen_data
  <2>1. Len(q) \in Nat /\ \A k \in 1 .. Len(q) : k \in 1 .. Len(P)
    BY <1>3, <1>4
  <2>2. gen_write /\ gen_address = p => Len(q) + 1 \in 1 .. Len(P)
    BY <1>3, <1>4
  <2>3. DOMAIN Held(p) = 1 .. Before(p) + Len(P)
    BY <1>5, <1>6, <1>7
  <2>4. Busy(p) => Held(p)[1] = pu_number_of_nn[p]
    BY <1>5, <1>6, <1>7
  <2>5. ASSUME NEW k \in 1 .. Len(q) PROVE Held(p)[Before(p) + k] = q[k]
    <3>1. Held(p)[Len(H) + k] = P[k]
      BY <1>6, <1>7, <2>1
    <3> QED BY <1>4, <1>5, <3>1
  <2>6. gen_write /\ gen_address = p => Held(p)[Before(p) + (Len(q) + 1)] = gen_data
    <3>1. gen_write /\ gen_address = p => Held(p)[Len(H) + (Len(q) + 1)] = P[Len(q) + 1]
      BY <1>6, <1>7, <2>2
    <3> QED BY <1>4, <1>5, <3>1
  <2>7. Before(p) + (Len(q) + 1) = Before(p) + Len(q) + 1
    BY <1>3, <1>5
  <2> QED BY <2>3, <2>4, <2>5, <2>6, <2>7
<1> QED BY <1>3, <1>4, <1>5, <1>8 DEF q, P

(* Each number held is in its place, and no place holds another.           *)
LEMMA PlacesHeld ==
  ASSUME TypeOK, DispatchInv
  PROVE  /\ \A p \in PC : \A j \in DOMAIN Held(p) :
              PlaceAt(p, j) \in Places /\ NumberAt(PlaceAt(p, j)) = Held(p)[j]
         /\ \A place \in Places : \E p \in PC : \E j \in DOMAIN Held(p) :
              place = PlaceAt(p, j)
<1>1. /\ \A p \in PC : pu_queue[p] \in Seq(Nat)
      /\ QUEUE_SIZE \in Nat /\ gen_address \in PC
      /\ gen_write => Len(pu_queue[gen_address]) < QUEUE_SIZE
  BY ConfigAssumption DEF TypeOK, processors!TypeOK, generator!TypeOK, processors!PC,
     generator!PC, PC, DispatchInv, GeneratorInv
<1>2. ASSUME NEW p \in PC, NEW j \in DOMAIN Held(p)
      PROVE  PlaceAt(p, j) \in Places /\ NumberAt(PlaceAt(p, j)) = Held(p)[j]
  <2>1. /\ j \in 1 .. Before(p) + Len(processors!Pushed(p))
        /\ Before(p) \in {0, 1} /\ (Busy(p) <=> Before(p) = 1)
        /\ Len(pu_queue[p]) \in Nat
        /\ Len(processors!Pushed(p)) =
             IF gen_write /\ gen_address = p THEN Len(pu_queue[p]) + 1
                                             ELSE Len(pu_queue[p])
    BY <1>2, HeldShape
  <2>2. CASE j - Before(p) = 0
    <3>1. Busy(p) /\ j = 1 /\ PlaceAt(p, j) = <<p, 0>>
      BY <2>1, <2>2 DEF Before, PlaceAt
    <3>2. PlaceAt(p, j) \in BeingDone /\ PlaceAt(p, j) \notin OnBus
      BY <1>1, <3>1 DEF BeingDone, OnBus
    <3>3. PlaceAt(p, j) \notin Queued
      BY <1>1, <3>1 DEF Queued
    <3> QED BY <3>1, <3>2, <3>3, HeldShape DEF Places, NumberAt
  <2>3. CASE j - Before(p) \in 1 .. Len(pu_queue[p])
    <3> DEFINE k == j - Before(p)
    <3>1. PlaceAt(p, j) = <<p, k>> /\ j = Before(p) + k /\ k \in 1 .. Len(pu_queue[p])
      BY <2>1, <2>3 DEF PlaceAt
    <3> HIDE DEF k
    <3>2. PlaceAt(p, j) \notin OnBus /\ PlaceAt(p, j) \notin BeingDone
      BY <1>1, <3>1 DEF OnBus, BeingDone
    <3>3. PlaceAt(p, j) \in Queued
      BY <1>1, <3>1 DEF Queued
    <3>4. NumberAt(PlaceAt(p, j)) = pu_queue[p][k]
      BY <3>1, <3>2, <3>3 DEF NumberAt
    <3> QED BY <3>1, <3>3, <3>4, HeldShape DEF Places
  <2>4. CASE j - Before(p) > Len(pu_queue[p])
    <3>1. /\ gen_write /\ gen_address = p /\ j = Before(p) + Len(pu_queue[p]) + 1
          /\ PlaceAt(p, j) = <<p, QUEUE_SIZE + 1>>
      BY <2>1, <2>4 DEF PlaceAt
    <3>2. PlaceAt(p, j) \in OnBus
      BY <3>1 DEF OnBus
    <3>3. PlaceAt(p, j) \notin BeingDone /\ PlaceAt(p, j) \notin Queued
      BY <1>1, <3>1 DEF BeingDone, Queued
    <3>4. NumberAt(PlaceAt(p, j)) = gen_data
      BY <3>2, <3>3 DEF NumberAt
    <3> QED BY <3>1, <3>2, <3>4, HeldShape DEF Places
  <2> QED BY <2>1, <2>2, <2>3, <2>4
<1>3. ASSUME NEW place \in Places
      PROVE  \E p \in PC : \E j \in DOMAIN Held(p) : place = PlaceAt(p, j)
  <2>1. CASE place \in OnBus
    <3>1. gen_write /\ place = <<gen_address, QUEUE_SIZE + 1>>
      BY <2>1 DEF OnBus
    <3> DEFINE j == Before(gen_address) + Len(pu_queue[gen_address]) + 1
    <3>2. j \in DOMAIN Held(gen_address) /\ place = PlaceAt(gen_address, j)
      <4>1. Len(pu_queue[gen_address]) \in Nat
        BY <1>1
      <4>2. /\ DOMAIN Held(gen_address) =
                 1 .. Before(gen_address) + Len(processors!Pushed(gen_address))
            /\ Before(gen_address) \in {0, 1}
            /\ Len(processors!Pushed(gen_address)) = Len(pu_queue[gen_address]) + 1
        BY <1>1, <3>1, HeldShape
      <4> QED BY <3>1, <4>1, <4>2 DEF PlaceAt
    <3> QED BY <1>1, <3>2
  <2>2. CASE place \in BeingDone
    <3>1. PICK p \in PC : Busy(p) /\ place = <<p, 0>>
      BY <2>2 DEF BeingDone
    <3>2. 1 \in DOMAIN Held(p) /\ place = PlaceAt(p, 1)
      <4>1. /\ Len(pu_queue[p]) \in Nat /\ Before(p) = 1
            /\ Len(processors!Pushed(p)) \in Nat
            /\ DOMAIN Held(p) = 1 .. Before(p) + Len(processors!Pushed(p))
        BY <3>1, HeldShape
      <4> QED BY <3>1, <4>1 DEF PlaceAt
    <3> QED BY <3>2
  <2>3. CASE place \in Queued
    <3>1. PICK p \in PC : \E k \in DOMAIN pu_queue[p] : place = <<p, k>>
      BY <2>3 DEF Queued
    <3>2. PICK k \in 1 .. Len(pu_queue[p]) : place = <<p, k>>
      BY <1>1, <3>1
    <3>3. Before(p) + k \in DOMAIN Held(p) /\ place = PlaceAt(p, Before(p) + k)
      <4>1. /\ Len(pu_queue[p]) \in Nat /\ Len(processors!Pushed(p)) \in Nat
            /\ Before(p) \in {0, 1}
            /\ DOMAIN Held(p) = 1 .. Before(p) + Len(processors!Pushed(p))
            /\ Len(pu_queue[p]) <= Len(processors!Pushed(p))
        <5>1. CASE gen_write /\ gen_address = p
          BY <5>1, HeldShape
        <5>2. CASE ~(gen_write /\ gen_address = p)
          BY <5>2, HeldShape
        <5> QED BY <5>1, <5>2
      <4> QED BY <3>2, <4>1 DEF PlaceAt
    <3> QED BY <3>3
  <2> QED BY <2>1, <2>2, <2>3 DEF Places
<1> QED BY <1>2, <1>3

(***************************************************************************)
(* While a layer is computed, every number handed out is in exactly one    *)
(* place, or NEXT_LAYER has the value FeedForward gives the neuron: for    *)
(* every number of units, capacity of the queues and network that fits.    *)
(***************************************************************************)
THEOREM NeuronsAccounted == Spec => [](Fitting => EveryNeuronAccounted)
<1>1. TypeOK /\ DispatchInv /\ NetworkInv => (Fitting => EveryNeuronAccounted)
  <2> SUFFICES ASSUME TypeOK, DispatchInv, NetworkInv, Fitting,
                      ctrl_pc \in {"settle", "cycle"}, NEW n \in HandedOut
               PROVE  \/ Cardinality(PlacesOf(n)) = 1
                      \/ PlacesOf(n) = {} /\ next_memory[n] = feed_forward!Neuron(n)
    BY DEF EveryNeuronAccounted
  <2>1. Distinct /\ Stored
    BY DEF NetworkInv, AccountInv
  <2>2. ASSUME NEW place \in PlacesOf(n)
        PROVE  \E p \in PC : \E j \in DOMAIN Held(p) :
                 place = PlaceAt(p, j) /\ Held(p)[j] = n
    BY <2>2, PlacesHeld DEF PlacesOf
  <2>3. CASE IsHeld(n)
    <3>1. PICK p \in PC : \E j \in DOMAIN Held(p) : Held(p)[j] = n
      BY <2>3 DEF IsHeld
    <3>2. PICK j \in DOMAIN Held(p) : Held(p)[j] = n
      BY <3>1
    <3>3. PlaceAt(p, j) \in PlacesOf(n)
      BY <3>2, PlacesHeld DEF PlacesOf
    <3>4. \A place \in PlacesOf(n) : place = PlaceAt(p, j)
      BY <2>1, <2>2, <3>2 DEF Distinct
    <3>5. PlacesOf(n) = {PlaceAt(p, j)}
      BY <3>3, <3>4
    <3> QED BY <3>5, FS_Singleton
  <2>4. CASE ~IsHeld(n)
    <3>1. PlacesOf(n) = {}
      BY <2>2, <2>4 DEF IsHeld
    <3> QED BY <2>1, <2>4, <3>1 DEF Stored
  <2> QED BY <2>3, <2>4
<1> QED BY <1>1, TypeCorrect, DispatchInvariant, NetworkInvariant, PTL

----------------------------------------------------------------------------
(* Weights of later layers are further up.                                 *)
LEMMA BasesGrow ==
  ASSUME TypeOK, Fitting, NEW l \in Nat, l >= 2
  PROVE  \A d \in Nat : feed_forward!Base[l + d] \in Nat
                          /\ feed_forward!Base[l] <= feed_forward!Base[l + d]
<1> DEFINE B == feed_forward!Base
           S(k) == feed_forward!Size(k)
<1>1. /\ \A k \in Nat : B[k] \in Int
      /\ B[2] = 0
      /\ \A k \in Nat : k >= 2 => B[k + 1] = B[k] + (S(k - 1) + 1) * S(k)
  BY Bases DEF TypeOK
<1>2. \A k \in Nat \ {0} : S(k) \in Nat
  BY FittingSizes
<1> HIDE DEF B, S
<1>3. \A k \in Nat : k >= 2 => B[k] <= B[k + 1]
  <2> SUFFICES ASSUME NEW k \in Nat, k >= 2 PROVE B[k] <= B[k + 1]
    OBVIOUS
  <2>1. k \in Nat \ {0} /\ k - 1 \in Nat \ {0}
    OBVIOUS
  <2>2. S(k - 1) \in Nat /\ S(k) \in Nat
    BY <1>2, <2>1
  <2>3. \A a, b \in Nat : (a + 1) * b \in Nat
    OBVIOUS
  <2>4. (S(k - 1) + 1) * S(k) \in Nat
    BY <2>2, <2>3
  <2> QED BY <1>1, <2>4
<1>4. ASSUME NEW k \in Nat, k >= 2
      PROVE  \A d \in Nat : B[k] <= B[k + d]
  <2> DEFINE T == {d \in Nat : B[k] <= B[k + d]}
  <2>1. 0 \in T
    BY <1>1
  <2>2. ASSUME NEW d \in T PROVE d + 1 \in T
    <3>1. d \in Nat /\ k + d \in Nat /\ k + d >= 2 /\ k + (d + 1) = (k + d) + 1
          /\ k + (d + 1) \in Nat
      BY <1>4
    <3> QED BY <1>1, <1>3, <1>4, <3>1
  <2> HIDE DEF T
  <2>3. T \in SUBSET Nat
    BY DEF T
  <2>4. T = Nat
    BY <2>1, <2>2, <2>3, Induction
  <2> QED BY <2>4 DEF T
<1>5. B[l] >= 0
  <2>1. l - 2 \in Nat /\ 2 + (l - 2) = l
    OBVIOUS
  <2>2. B[2] <= B[2 + (l - 2)]
    BY <1>4, <2>1
  <2> QED BY <1>1, <2>1, <2>2
<1>6. \A d \in Nat : l + d \in Nat
  OBVIOUS
<1> QED BY <1>1, <1>4, <1>5, <1>6 DEF B

(***************************************************************************)
(* If the files hold all the weights, a unit at work shows the address of  *)
(* one of them, however large the layers that fit.                         *)
(***************************************************************************)
THEOREM WeightAddresses == Spec => [](Fitting => WeightAddressInRange)
<1>1. /\ TypeOK /\ DispatchInv /\ PhaseInv /\ CopyInv /\ LoadedInv /\ SelectInv /\ NetworkInv
      => (Fitting => WeightAddressInRange)
  <2> SUFFICES ASSUME TypeOK, DispatchInv, PhaseInv, CopyInv, LoadedInv, SelectInv,
                      NetworkInv, Fitting, EnoughWeights, NEW p \in PC, Busy(p)
               PROVE  addr_weight_bus[p] \in 0 .. Len(weight_memory) - 1
    BY DEF WeightAddressInRange
  <2> DEFINE n == pu_number_of_nn[p]
             k == pu_i[p]
             P == feed_forward!Size(layer)
             N == feed_forward!Size(layer + 1)
             b == feed_forward!Base[layer + 1]
             c == feed_forward!Base[(layer + 1) + 1]
             e == feed_forward!Base[Layers + 1]
             w == Len(weight_memory)
  <2>1. ctrl_pc \in {"settle", "cycle"}
    BY WorkOnlyInCycle DEF PhaseInv
  <2>2. /\ layer \in Nat \ {0} /\ layer + 1 <= Layers
        /\ previous_data_layer = P /\ data_layer = N /\ start_weight_adderess = b
        /\ weight_memory = Weights(files.config)
    BY <2>1, CycleLayer DEF CopyInv
  <2>3. /\ n \in Nat /\ k \in Nat /\ w \in Nat /\ Layers \in Nat
        /\ pu_pc[p] \in {"mac1", "mac2", "bias1", "bias2", "store"}
    <3>1. n \in Nat /\ k \in Nat
      BY DEF TypeOK, processors!TypeOK, processors!PC, PC
    <3>2. pu_pc[p] \in {"mac1", "mac2", "bias1", "bias2", "store"}
      BY DEF TypeOK, processors!TypeOK, processors!PC, PC, Busy
    <3>3. w \in Nat /\ Layers \in Nat
      BY FileTypes DEF TypeOK, weight_storage!TypeOK
    <3> QED BY <3>1, <3>2, <3>3
  <2>4. P \in Nat /\ N \in Nat
    BY <2>2, FittingSizes
  <2>5. Layers = LayersCount(files.config)
    BY DEF Layers
  <2>6. N > 0 /\ e <= w
    <3>1. layer + 1 \in 2 .. LayersCount(files.config)
      BY <2>2, <2>3, <2>5
    <3> QED BY <2>2, <2>5, <3>1 DEF EnoughWeights
  <2>7. n < N
    <3>1. InLayer(n)
      BY <2>1 DEF CopyInv, NumbersInv
    <3> QED BY <2>2, <2>3, <2>4, <2>6, <3>1 DEF InLayer
  <2>8. k <= P /\ addr_weight_bus[p] = (b + (P + 1) * n) + k
    <3>1. Partial(p)
      BY <2>1 DEF NetworkInv, PartialInv
    <3>2. k <= previous_data_layer /\ addr_weight_bus[p] = First(n) + k
      BY <2>2, <2>3, <2>4, <3>1 DEF Partial
    <3> QED BY <2>2, <3>2 DEF First
  <2>9. b \in Nat /\ c \in Nat /\ e \in Nat /\ c <= e /\ c = b + (P + 1) * N
    <3>1. /\ layer + 1 \in Nat /\ layer + 1 >= 2
          /\ (layer + 1) + 1 \in Nat /\ (layer + 1) + 1 >= 2
          /\ (layer + 1) + 0 = layer + 1 /\ ((layer + 1) + 1) + 0 = (layer + 1) + 1
          /\ Layers - (layer + 1) \in Nat
          /\ ((layer + 1) + 1) + (Layers - (layer + 1)) = Layers + 1
          /\ (layer + 1) - 1 = layer
      BY <2>2, <2>3
    <3>2. b \in Nat
      BY <3>1, BasesGrow
    <3>3. c \in Nat /\ e \in Nat /\ c <= e
      BY <3>1, BasesGrow
    <3>4. c = b + (P + 1) * N
      BY <3>1, Bases DEF TypeOK
    <3> QED BY <3>2, <3>3, <3>4
  <2> HIDE DEF n, k, P, N, b, c, e
  <2>10. (P + 1) * n \in Nat /\ (P + 1) * n + k < (P + 1) * N
    <3>1. \A x, y, z \in Nat : y < z => (x + 1) * y \in Nat /\ (x + 1) * y + x < (x + 1) * z
      <4> SUFFICES ASSUME NEW x \in Nat, NEW y \in Nat, NEW z \in Nat, y < z
                   PROVE  (x + 1) * y \in Nat /\ (x + 1) * y + x < (x + 1) * z
        OBVIOUS
      <4>1. PICK u \in Nat : z = y + 1 + u
        <5>1. z - y - 1 \in Nat /\ z = y + 1 + (z - y - 1)
          OBVIOUS
        <5> QED BY <5>1
      <4>2. (x + 1) * z = (x + 1) * y + (x + 1) + (x + 1) * u
        BY <4>1
      <4>3. (x + 1) * u \in Nat /\ (x + 1) * y \in Nat
        OBVIOUS
      <4> QED BY <4>2, <4>3
    <3>2. (P + 1) * n \in Nat /\ (P + 1) * n + P < (P + 1) * N
      BY <2>3, <2>4, <2>7, <3>1
    <3>3. \A s, t \in Int : s + P < t => s + k < t
      BY <2>3, <2>4, <2>8
    <3> QED BY <2>4, <3>2, <3>3
  <2>11. (P + 1) * N \in Int
    BY <2>4
  <2> QED BY <2>3, <2>6, <2>8, <2>9, <2>10, <2>11
<1> QED BY <1>1, TypeCorrect, DispatchInvariant, PhaseInvariant, CopyInvariant,
           LoadedInvariant, SelectInvariant, NetworkInvariant, PTL

----------------------------------------------------------------------------
(* Conservation                                                            *)

(* What each unit holds, and what it has done and holds.                   *)
Load  == [p \in PC |-> Len(Held(p))]
Share == [p \in PC |-> pu_count_neurons_calc[p] + Len(Held(p))]

(* Every layer to be computed has a neuron.                                *)
NoneEmpty == \A l \in 2 .. Layers : Sizes[l] > 0

(***************************************************************************)
(* What the units have done and hold is all the neurons of the layers      *)
(* before the current one, and those handed out of this one.               *)
(***************************************************************************)
CountedInv ==
  /\ ctrl_pc \in {"settle", "cycle"} => CountInv
  /\ NoneEmpty =>
       SumOf(Share) = NeuronsUpTo(layer)
         + IF ctrl_pc \in {"settle", "cycle"} THEN Cardinality(HandedOut) ELSE 0

LEMMA UnitsFinite == IsFiniteSet(PC)
BY FS_Interval, ConfigAssumption DEF PC

LEMMA ShareTypes ==
  ASSUME TypeOK
  PROVE  /\ Load \in [PC -> Nat] /\ Share \in [PC -> Nat]
         /\ pu_count_neurons_calc \in [PC -> Nat]
<1>1. pu_count_neurons_calc \in [PC -> Nat]
  BY DEF TypeOK, processors!TypeOK, processors!PC, PC
<1>2. \A p \in PC : Len(Held(p)) \in Nat
  BY HeldFirst
<1> QED BY <1>1, <1>2 DEF Load, Share

(* There are as many places as numbers held.                               *)
LEMMA PlacesCounted ==
  ASSUME TypeOK, DispatchInv
  PROVE  Cardinality(Places) = SumOf(Load)
<1> DEFINE Pairs == UNION {{<<p, j>> : j \in 1 .. Load[p]} : p \in PC}
           f == [x \in Pairs |-> PlaceAt(x[1], x[2])]
<1>1. \A p \in PC : Load[p] \in Nat /\ DOMAIN Held(p) = 1 .. Load[p]
  BY HeldFirst DEF Load
<1>2. IsFiniteSet(Pairs) /\ Cardinality(Pairs) = SumOf(Load)
  BY UnitsFinite, ShareTypes, PairsCounted
<1>3. \A x \in Pairs : \E p \in PC : \E j \in 1 .. Load[p] : x = <<p, j>>
  OBVIOUS
<1>4. \A p \in PC : \A j \in 1 .. Load[p] : <<p, j>> \in Pairs
  OBVIOUS
<1> HIDE DEF Pairs
<1>5. \A p \in PC : \A j \in 1 .. Load[p] : f[<<p, j>>] = PlaceAt(p, j)
  BY <1>4
<1>6. f \in [Pairs -> Places]
  <2>1. \A x \in Pairs : PlaceAt(x[1], x[2]) \in Places
    <3> SUFFICES ASSUME NEW x \in Pairs PROVE PlaceAt(x[1], x[2]) \in Places
      OBVIOUS
    <3>1. PICK p \in PC : \E j \in 1 .. Load[p] : x = <<p, j>>
      BY <1>3
    <3>2. PICK j \in 1 .. Load[p] : x = <<p, j>>
      BY <3>1
    <3> QED BY <1>1, <3>2, PlacesHeld
  <2> QED BY <2>1
<1>7. \A place \in Places : \E x \in Pairs : f[x] = place
  <2> SUFFICES ASSUME NEW place \in Places PROVE \E x \in Pairs : f[x] = place
    OBVIOUS
  <2>1. PICK p \in PC : \E j \in DOMAIN Held(p) : place = PlaceAt(p, j)
    BY PlacesHeld
  <2>2. PICK j \in 1 .. Load[p] : place = PlaceAt(p, j)
    BY <1>1, <2>1
  <2> HIDE DEF f
  <2> QED BY <1>4, <1>5, <2>2
<1>8. ASSUME NEW p \in PC, NEW q \in PC, NEW j \in 1 .. Load[p], NEW k \in 1 .. Load[q],
             PlaceAt(p, j) = PlaceAt(q, k)
      PROVE  p = q /\ j = k
  <2>1. p = q
    BY <1>8 DEF PlaceAt
  <2> DEFINE b == Before(p)
             l == Len(pu_queue[p])
  <2>2. /\ b \in Nat /\ l \in Nat /\ j \in Nat /\ k \in Nat
        /\ j <= b + l + 1 /\ k <= b + l + 1
        /\ j - b > l \/ k - b > l => l < QUEUE_SIZE
    <3>1. b \in Nat /\ l \in Nat /\ Len(processors!Pushed(p)) \in Nat
      BY HeldShape
    <3>2. Load[p] = b + Len(processors!Pushed(p))
      <4>1. 1 .. Load[p] = 1 .. b + Len(processors!Pushed(p))
        BY <1>1, HeldShape
      <4>2. \A m, n \in Nat : 1 .. m = 1 .. n => m = n
        OBVIOUS
      <4> QED BY <1>1, <3>1, <4>1, <4>2
    <3>3. CASE gen_write /\ gen_address = p
      <4>1. Len(processors!Pushed(p)) = l + 1 /\ l < QUEUE_SIZE
        BY <3>3, HeldShape DEF DispatchInv, GeneratorInv
      <4> HIDE DEF b, l
      <4> QED BY <2>1, <3>1, <3>2, <4>1
    <3>4. CASE ~(gen_write /\ gen_address = p)
      <4>1. Len(processors!Pushed(p)) = l
        BY <3>4, HeldShape
      <4> HIDE DEF b, l
      <4> QED BY <2>1, <3>1, <3>2, <4>1
    <3> QED BY <3>3, <3>4
  <2>3. (IF j - b <= l THEN j - b ELSE QUEUE_SIZE + 1) =
          (IF k - b <= l THEN k - b ELSE QUEUE_SIZE + 1)
    BY <1>8, <2>1 DEF PlaceAt
  <2> HIDE DEF b, l
  <2> QED BY <2>1, <2>2, <2>3, ConfigAssumption
<1>9. \A x, y \in Pairs : f[x] = f[y] => x = y
  <2> SUFFICES ASSUME NEW x \in Pairs, NEW y \in Pairs, f[x] = f[y] PROVE x = y
    OBVIOUS
  <2>1. PICK p \in PC : \E j \in 1 .. Load[p] : x = <<p, j>>
    BY <1>3
  <2>2. PICK j \in 1 .. Load[p] : x = <<p, j>>
    BY <2>1
  <2>3. PICK q \in PC : \E k \in 1 .. Load[q] : y = <<q, k>>
    BY <1>3
  <2>4. PICK k \in 1 .. Load[q] : y = <<q, k>>
    BY <2>3
  <2>5. PlaceAt(p, j) = PlaceAt(q, k)
    BY <1>5, <2>2, <2>4
  <2> QED BY <1>8, <2>2, <2>4, <2>5
<1> HIDE DEF f
<1>10. ExistsBijection(Pairs, Places)
  <2>1. DOMAIN f = Pairs
    BY <1>6
  <2>2. IsInjective(f)
    BY <1>9, <2>1 DEF IsInjective
  <2>3. f \in Bijection(Pairs, Places)
    BY <1>6, <1>7, <2>2 DEF Bijection, Injection, Surjection
  <2> QED BY <2>3 DEF ExistsBijection
<1> QED BY <1>2, <1>10, FS_Bijection

(* What has been done and is held grows by the number handed out.          *)
LEMMA ShareGrows ==
  ASSUME TypeOK, TypeOK', DispatchInv, DispatchInv', CopyInv, Edge
  PROVE  SumOf(Share)' = SumOf(Share) + IF gen_write' THEN 1 ELSE 0
<1> DEFINE e == [p \in PC |-> IF gen_write' /\ p = gen_address' THEN 1 ELSE 0]
<1>1. Share \in [PC -> Int] /\ e \in [PC -> Int]
  BY ShareTypes
<1>2. ASSUME NEW p \in PC
      PROVE  /\ Share'[p] \in Int
             /\ Share'[p] = Share[p] + e[p]
  <2> DEFINE c == pu_count_neurons_calc[p]
  <2>1. pu_count_neurons_calc'[p] = IF pu_pc[p] = "store" THEN c + 1 ELSE c
    BY ShareTypes DEF Edge, processors!Edge, processors!process, processors!Counted,
                      processors!Finishes, processors!PC, PC
  <2>2. c \in Nat /\ Held(p) \in Seq(Nat) /\ gen_counter \in Nat
    BY ShareTypes, HeldFirst DEF TypeOK, generator!TypeOK
  <2>3. Kept(p) \in Seq(Nat) /\ Len(Kept(p)) = Len(Held(p)) - IF pu_pc[p] = "store" THEN 1 ELSE 0
    <3>1. CASE pu_pc[p] = "store"
      <4>1. Held(p) # << >> /\ Kept(p) = Tail(Held(p))
        BY <3>1, HeldFirst DEF Kept, Busy
      <4> QED BY <2>2, <3>1, <4>1
    <3>2. CASE pu_pc[p] # "store"
      BY <2>2, <3>2 DEF Kept
    <3> QED BY <3>1, <3>2
  <2>e. e[p] = IF gen_write' /\ p = gen_address' THEN 1 ELSE 0
    OBVIOUS
  <2>4. Len(Held(p)') = Len(Kept(p)) + e[p]
    <3> HIDE DEF e
    <3>1. CASE gen_write' /\ gen_address' = p
      <4>1. Held(p)' = Append(Kept(p), gen_counter)
        BY <3>1, HeldAfter
      <4> QED BY <2>2, <2>3, <2>e, <3>1, <4>1
    <3>2. CASE ~(gen_write' /\ gen_address' = p)
      <4>1. Held(p)' = Kept(p)
        BY <3>2, HeldAfter
      <4> QED BY <2>3, <2>e, <3>2, <4>1
    <3> QED BY <3>1, <3>2
  <2>5. Share'[p] = pu_count_neurons_calc'[p] + Len(Held(p)') /\ Share[p] = c + Len(Held(p))
    BY DEF Share
  <2>6. Len(Held(p)) \in Nat /\ e[p] \in Int
    BY <2>2
  <2> HIDE DEF c, e
  <2> QED BY <2>1, <2>2, <2>3, <2>4, <2>5, <2>6
<1>3. Share' \in [PC -> Int]
  BY <1>2 DEF Share
<1>4. SumOf(e) = IF gen_write' THEN 1 ELSE 0
  <2>1. CASE gen_write'
    <3>1. gen_address' \in PC
      BY <2>1, NewCounted DEF CopyInv
    <3>2. SumOf([p \in PC |-> IF p = gen_address' THEN 1 ELSE 0]) = 1
      BY <3>1, UnitsFinite, SumPoint
    <3>3. e = [p \in PC |-> IF p = gen_address' THEN 1 ELSE 0]
      BY <2>1
    <3> QED BY <2>1, <3>2, <3>3
  <2>2. CASE ~gen_write'
    <3>1. e = [p \in PC |-> 0]
      BY <2>2
    <3> QED BY <2>2, <3>1, UnitsFinite, SumZero
  <2> QED BY <2>1, <2>2
<1> HIDE DEF e
<1>5. PICK h : h = Share'
  OBVIOUS
<1>6. SumOf(h) = SumOf(Share) + SumOf(e)
  BY <1>1, <1>2, <1>3, <1>5, UnitsFinite, SumAdds
<1>7. SumOf(Share)' = SumOf(h)
  BY <1>5
<1> QED BY <1>4, <1>6, <1>7

(* In a cycle the numbers handed out are counted one by one.               *)
LEMMA HandedOutGrows ==
  ASSUME TypeOK, DispatchInv, DispatchInv', PhaseInv, CopyInv, CountInv, Edge,
         ctrl_pc \in {"settle", "cycle"}, data_layer > 0
  PROVE  Cardinality(HandedOut)' = Cardinality(HandedOut) + IF gen_write' THEN 1 ELSE 0
<1> DEFINE h == IF gen_end THEN data_layer ELSE gen_counter
<1>1. ~start_generator /\ data_layer' = data_layer
  BY CycleKeepsInputs DEF PhaseInv, LineInv
<1>2. gen_counter \in Nat /\ data_layer \in Int
  BY DEF TypeOK, generator!TypeOK, layers_storage!TypeOK
<1>3. /\ gen_end => gen_pc = "idle" /\ gen_state = "IDLE"
      /\ gen_write => gen_pc = "written"
      /\ gen_pc = "choose" => gen_state = "GENERATE"
      /\ gen_pc = "idle" /\ gen_state = "IDLE" => gen_end
      /\ gen_pc = "written" /\ gen_state = "IDLE" => gen_counter >= data_layer
      /\ gen_counter <= 1 \/ gen_counter <= data_layer
  BY DEF DispatchInv, GeneratorInv, CopyInv, NumbersInv, CountInv
<1>4. h' = h + IF gen_write' THEN 1 ELSE 0
  <2>1. CASE generator!Idle
    <3>1. gen_end' /\ ~gen_write' /\ (gen_pc = "idle" \/ gen_pc = "written")
          /\ gen_state = "IDLE"
      BY <1>1, <2>1 DEF generator!Idle
    <3>2. h = data_layer
      BY <1>2, <1>3, <3>1
    <3> QED BY <1>1, <1>2, <3>1, <3>2
  <2>2. CASE generator!Enter \/ generator!Withdraw
    <3>1. gen_end' = gen_end /\ ~gen_write' /\ gen_counter' = gen_counter
      BY <1>3, <2>2 DEF generator!Enter, generator!Withdraw
    <3> QED BY <1>1, <1>2, <3>1
  <2>3. ASSUME NEW p \in PC, generator!Choose(p)
        PROVE  h' = h + IF gen_write' THEN 1 ELSE 0
    <3>1. ~gen_end /\ ~gen_end' /\ ~gen_write
      BY <1>3, <2>3 DEF generator!Choose
    <3>2. \/ gen_write' /\ gen_counter' = gen_counter + 1
          \/ ~gen_write' /\ gen_counter' = gen_counter
      <4>1. CASE gen_size[p] < QUEUE_SIZE
        <5>1. gen_size[p] \in Nat
          BY DEF TypeOK, processors!TypeOK, processors!PC, PC
        <5> QED BY <2>3, <4>1, <5>1, ConfigAssumption DEF generator!Choose
      <4>2. CASE ~(gen_size[p] < QUEUE_SIZE)
        BY <2>3, <3>1, <4>2 DEF generator!Choose
      <4> QED BY <4>1, <4>2
    <3> QED BY <1>2, <3>1, <3>2
  <2> QED BY <2>1, <2>2, <2>3 DEF Edge, generator!generate, generator!PC, PC
<1>5. h \in Nat /\ h' \in Nat
  BY <1>2, <1>4
<1>6. \A n \in Nat : Cardinality(0 .. n - 1) = n
  <2> TAKE n \in Nat
  <2>1. 0 \in Int /\ n - 1 \in Int /\ (0 > n - 1 <=> n = 0) /\ (n - 1) - 0 + 1 = n
    OBVIOUS
  <2> QED BY <2>1, FS_Interval
<1>7. HandedOut = 0 .. h - 1 /\ HandedOut' = 0 .. h' - 1
  BY DEF HandedOut
<1> HIDE DEF h
<1>8. Cardinality(HandedOut) = h /\ Cardinality(HandedOut') = h'
  BY <1>5, <1>6, <1>7
<1>9. Cardinality(HandedOut)' = Cardinality(HandedOut')
  OBVIOUS
<1> QED BY <1>4, <1>8, <1>9

(* The neurons up to the next layer.                                       *)
LEMMA OneLayerMore ==
  ASSUME files \in Inputs
  PROVE  /\ NeuronsUpTo(1) = 0
         /\ \A l \in Nat \ {0} :
              /\ NeuronsUpTo(l) \in Int
              /\ NeuronsUpTo(l + 1) = NeuronsUpTo(l) + feed_forward!Size(l + 1)
<1> DEFINE f(l) == [k \in 2 .. l |-> feed_forward!Size(k)]
<1>1. \A l : NeuronsUpTo(l) = SumOf(f(l))
  BY DEF NeuronsUpTo, Total, SumOf
<1>2. \A l \in Nat : f(l) \in [2 .. l -> Int]
  <2> SUFFICES ASSUME NEW l \in Nat PROVE f(l) \in [2 .. l -> Int]
    OBVIOUS
  <2>1. \A k \in 2 .. l : k \in Nat \ {0}
    OBVIOUS
  <2>2. \A k \in 2 .. l : feed_forward!Size(k) \in Int
    BY <2>1, Bases
  <2> QED BY <2>2
<1>3. \A l \in Nat : IsFiniteSet(2 .. l)
  BY FS_Interval
<1>4. NeuronsUpTo(1) = 0
  <2>1. 2 .. 1 = {} /\ IsFiniteSet({})
    BY FS_EmptySet
  <2>2. f(1) = [x \in {} |-> 0]
    BY <2>1
  <2>3. SumOf([x \in {} |-> 0]) = 0
    BY <2>1, SumZero
  <2> HIDE DEF f
  <2> QED BY <1>1, <2>2, <2>3
<1>5. ASSUME NEW l \in Nat \ {0}
      PROVE  /\ NeuronsUpTo(l) \in Int
             /\ NeuronsUpTo(l + 1) = NeuronsUpTo(l) + feed_forward!Size(l + 1)
  <2> DEFINE g == f(l + 1)
             D == 2 .. l + 1
             a == l + 1
  <2>1. a \in D /\ D \ {a} = 2 .. l /\ g \in [D -> Int] /\ IsFiniteSet(D)
    BY <1>2, <1>3
  <2>2. g[a] = feed_forward!Size(a)
    BY <2>1
  <2>3. [x \in D \ {a} |-> g[x]] = f(l)
    BY <2>1
  <2>4. SumOf(f(l)) \in Int
    BY <1>2, <1>3, SumType
  <2>5. feed_forward!Size(a) \in Int
    BY Bases
  <2>6. NeuronsUpTo(a) = SumOf(g)
    BY <1>1
  <2> HIDE DEF g, D, a, f
  <2>7. SumOf(g) = g[a] + SumOf([x \in D \ {a} |-> g[x]])
    BY <2>1, SumOneMore
  <2>8. NeuronsUpTo(a) = NeuronsUpTo(l) + feed_forward!Size(a)
    BY <1>1, <2>2, <2>3, <2>4, <2>5, <2>6, <2>7
  <2> QED BY <1>1, <2>4, <2>8 DEF a
<1> QED BY <1>4, <1>5

(* The current layer changes at the end of a cycle and at no other step.   *)
LEMMA LayerMoves ==
  ASSUME TypeOK, PhaseInv, SelectInv, Edge
  PROVE  layer' = IF ctrl_pc = "cycle" /\ ctrl_pc' = "clear" THEN layer + 1 ELSE layer
<1>1. ctrl_i \in Nat
  BY DEF TypeOK, controller!TypeOK
<1>2. CASE controller!StartConv
  <2>1. ctrl_pc = "idle" /\ ctrl_i' = 0 /\ ctrl_pc' \in {"save", "idle"}
    BY <1>2 DEF controller!StartConv, controller!NextLayerOrEnd, controller!Rest
  <2>2. ~write_out_controller_bus
    <3>1. controller!Sampled = "START_CONV"
      BY <1>2 DEF controller!StartConv
    <3> QED BY <3>1, ShownRests DEF controller!StayIdle, Edge
  <2>3. ctrl_i = 0
    BY <2>1, <2>2 DEF SelectInv, Started
  <2> QED BY <2>1, <2>3 DEF layer, Copying
<1>3. CASE controller!AwaitClone
  <2>1. CASE end_clone_controller_bus
    <3>1. /\ ctrl_pc \in {"clone", "cloned"} /\ ctrl_i' = ctrl_i + 1
          /\ ctrl_pc' \in {"save", "idle"}
      BY <1>3, <2>1 DEF controller!AwaitClone, controller!NextLayerOrEnd, controller!Rest
    <3> QED BY <1>1, <3>1 DEF layer, Copying
  <2>2. CASE ~end_clone_controller_bus
    <3>1. /\ ctrl_pc \in {"clone", "cloned"} /\ ctrl_i' = ctrl_i /\ ctrl_pc' = "cloned"
      BY <1>3, <2>2 DEF controller!AwaitClone, controller!loop
    <3> QED BY <3>1 DEF layer, Copying
  <2> QED BY <2>1, <2>2
<1>4. CASE controller!AwaitCycle
  <2>1. ctrl_pc = "cycle" /\ ctrl_i' = ctrl_i /\ ctrl_pc' \in {"cycle", "clear"}
    BY <1>4 DEF controller!AwaitCycle, controller!loop
  <2> QED BY <1>1, <2>1 DEF layer, Copying
<1>5. CASE controller!StartClone
  <2>1. ctrl_pc = "clear" /\ ctrl_pc' = "clone" /\ ctrl_i' = ctrl_i
    BY <1>5 DEF controller!StartClone, controller!loop
  <2> QED BY <2>1 DEF layer, Copying
<1>6. CASE controller!StayIdle \/ controller!BeginRead \/ controller!ReadLayers
  <2>1. ctrl_pc \in {"idle", "read"} /\ ctrl_pc' \in {"idle", "read"} /\ ctrl_i' = ctrl_i
    BY <1>6 DEF controller!StayIdle, controller!BeginRead, controller!ReadLayers,
                controller!Rest
  <2> QED BY <2>1 DEF layer, Copying
<1>7. CASE \/ controller!SelectLayer \/ controller!StartGenerator
           \/ controller!EndStart \/ controller!Settle
  <2>1. /\ ctrl_pc \in {"save", "next", "gen", "settle"}
        /\ ctrl_pc' \in {"next", "gen", "settle", "cycle"} /\ ctrl_i' = ctrl_i
    BY <1>7 DEF controller!SelectLayer, controller!StartGenerator, controller!EndStart,
                controller!Settle, controller!loop
  <2> QED BY <2>1 DEF layer, Copying
<1> QED BY <1>2, <1>3, <1>4, <1>5, <1>6, <1>7 DEF Edge, controller!process

(* Every step keeps the count.                                             *)
LEMMA StepCounted ==
  ASSUME TypeOK, TypeOK', DispatchInv, DispatchInv', PhaseInv, CopyInv, LoadedInv,
         SelectInv, CountedInv, [Next]_vars
  PROVE  CountedInv'
<1> DEFINE C == ctrl_pc \in {"settle", "cycle"}
           N(l) == NeuronsUpTo(l)
<1>1. CASE Edge
  <2>1. Moves
    BY <1>1, ControllerSteps DEF PhaseInv, Edge
  <2>2. C' => C \/ ctrl_pc = "gen"
    BY <2>1 DEF Moves, TypeOK, controller!TypeOK
  <2>3. C' => CountInv'
    BY <1>1, <2>2, StepCount, StartAccount DEF CountedInv
  <2>4. layer' = IF ctrl_pc = "cycle" /\ ctrl_pc' = "clear" THEN layer + 1 ELSE layer
    BY <1>1, LayerMoves
  <2>5. SumOf(Share)' = SumOf(Share) + IF gen_write' THEN 1 ELSE 0
    BY <1>1, ShareGrows
  <2>6. SumOf(Share) \in Int /\ layer \in Nat \ {0}
    <3>1. Share \in [PC -> Int]
      BY ShareTypes
    <3>2. layer \in Nat \ {0}
      BY DEF layer, TypeOK, controller!TypeOK
    <3> QED BY <3>1, <3>2, UnitsFinite, SumType
  <2>7. /\ \A l \in Nat \ {0} : N(l) \in Int /\ N(l + 1) = N(l) + feed_forward!Size(l + 1)
        /\ files' = files
    BY <1>1, OneLayerMore DEF TypeOK, Edge, ioVars
  <2>8. \A l : N(l)' = N(l)
    <3>1. \A l : feed_forward!Size(l)' = feed_forward!Size(l)
      BY <2>7, SameFiles
    <3> QED BY <3>1 DEF NeuronsUpTo
  <2>9. NeuronsUpTo(layer)' = N(layer')
    BY <2>8
  <2> SUFFICES ASSUME NoneEmpty'
               PROVE  SumOf(Share)' = N(layer') + IF C' THEN Cardinality(HandedOut)' ELSE 0
    BY <2>3, <2>9 DEF CountedInv
  <2>10. NoneEmpty
    <3>1. Layers' = Layers /\ Sizes' = Sizes
      BY <2>7, SameFiles
    <3> QED BY <3>1 DEF NoneEmpty
  <2>11. SumOf(Share) = N(layer) + IF C THEN Cardinality(HandedOut) ELSE 0
    BY <2>10 DEF CountedInv
  <2>12. C => /\ layer + 1 <= Layers /\ data_layer = feed_forward!Size(layer + 1)
              /\ data_layer > 0 /\ data_layer \in Int
    <3>1. C => layer + 1 <= Layers /\ data_layer = feed_forward!Size(layer + 1)
      BY CycleLayer DEF CopyInv
    <3>2. layer + 1 <= Layers => feed_forward!Size(layer + 1) = Sizes[layer + 1]
      BY SameTerms DEF feed_forward!Size, Sizes, Layers
    <3>3. Layers \in Nat
      BY FileTypes DEF TypeOK
    <3>4. layer + 1 <= Layers => layer + 1 \in 2 .. Layers
      BY <2>6, <3>3
    <3>5. data_layer \in Int
      BY DEF TypeOK, layers_storage!TypeOK
    <3> QED BY <2>10, <3>1, <3>2, <3>4, <3>5 DEF NoneEmpty
  <2>13. CASE C /\ C'
    <3>1. Cardinality(HandedOut)' = Cardinality(HandedOut) + IF gen_write' THEN 1 ELSE 0
      BY <1>1, <2>12, <2>13, HandedOutGrows DEF CountedInv
    <3>2. layer' = layer
      BY <2>4, <2>13
    <3>3. Cardinality(HandedOut) \in Int
      <4>1. HandedOut = 0 .. (IF gen_end THEN data_layer ELSE gen_counter) - 1
        BY DEF HandedOut
      <4>2. (IF gen_end THEN data_layer ELSE gen_counter) \in Int
        BY <2>12, <2>13 DEF TypeOK, generator!TypeOK
      <4>3. IsFiniteSet(HandedOut)
        BY <4>1, <4>2, FS_Interval
      <4> QED BY <4>3, FS_CardinalityType
    <3> HIDE DEF N
    <3> QED BY <2>5, <2>6, <2>7, <2>11, <2>13, <3>1, <3>2, <3>3
  <2>14. CASE C /\ ~C'
    <3>1. ctrl_pc = "cycle" /\ ctrl_pc' = "clear" /\ cycle_ended
      BY <2>1, <2>14 DEF Moves
    <3>2. end_reducer!AllEnded
      BY <3>1 DEF DispatchInv
    <3>3. ~gen_write'
      BY <1>1, <3>2, RestWrites
    <3>4. HandedOut = 0 .. data_layer - 1
      <4>1. gen_end
        BY <2>14, <3>2, AtRest DEF CountedInv, CountInv
      <4> QED BY <4>1 DEF HandedOut
    <3>5. Cardinality(HandedOut) = data_layer
      <4>1. 0 \in Int /\ data_layer - 1 \in Int /\ ~(0 > data_layer - 1)
            /\ (data_layer - 1) - 0 + 1 = data_layer
        BY <2>12, <2>14
      <4> QED BY <3>4, <4>1, FS_Interval
    <3>6. N(layer') = N(layer) + data_layer
      BY <2>4, <2>6, <2>7, <2>12, <2>14, <3>1
    <3> HIDE DEF N
    <3> QED BY <2>5, <2>6, <2>7, <2>11, <2>12, <2>14, <3>3, <3>5, <3>6
  <2>15. CASE ~C
    <3>1. ~gen_write'
      BY <1>1, <2>15, RestWrites DEF PhaseInv, RestInv
    <3>2. layer' = layer
      BY <2>4, <2>15
    <3>3. C' => Cardinality(HandedOut)' = 0
      <4> SUFFICES ASSUME C' PROVE Cardinality(HandedOut)' = 0
        OBVIOUS
      <4>1. ctrl_pc = "gen"
        BY <2>2, <2>15
      <4>2. start_generator /\ gen_state = "IDLE" /\ gen_pc = "idle"
        BY <4>1, AtRest DEF PhaseInv, LineInv, RestInv
      <4>3. ~gen_end' /\ gen_counter' = 0
        BY <1>1, <4>2 DEF Edge, generator!generate, generator!Idle, generator!Enter,
                          generator!Choose, generator!Withdraw
      <4>4. HandedOut' = {}
        BY <4>3 DEF HandedOut
      <4>5. Cardinality(HandedOut') = 0
        BY <4>4, FS_EmptySet
      <4> QED BY <4>5
    <3> HIDE DEF N
    <3> QED BY <2>5, <2>6, <2>7, <2>11, <2>15, <3>1, <3>2, <3>3
  <2> QED BY <2>13, <2>14, <2>15
<1>2. CASE Abort \/ Over \/ UNCHANGED vars
  <2>1. UNCHANGED <<ioVars, ctrlVars, storeVars, genVars, puVars>>
    BY <1>2 DEF Abort, Over, vars
  <2>2. files' = files /\ layer' = layer
    BY <2>1 DEF layer, Copying, ioVars, ctrlVars
  <2>3. /\ \A l : feed_forward!Size(l)' = feed_forward!Size(l)
        /\ Layers' = Layers /\ Sizes' = Sizes
    BY <2>2, SameFiles
  <2>4. \A p : Held(p)' = Held(p)
    BY <2>1 DEF Held, Hand, Busy, processors!Pushed, processors!Accepts, genVars, puVars
  <2>5. Share' = Share /\ HandedOut' = HandedOut /\ CountInv' = CountInv /\ C' = C
    BY <2>1, <2>4 DEF Share, HandedOut, CountInv, genVars, puVars, storeVars, ctrlVars
  <2>6. NeuronsUpTo(layer)' = NeuronsUpTo(layer)
    BY <2>2, <2>3 DEF NeuronsUpTo
  <2>7. SumOf(Share)' = SumOf(Share) /\ Cardinality(HandedOut)' = Cardinality(HandedOut)
    BY <2>5
  <2> QED BY <2>3, <2>5, <2>6, <2>7 DEF CountedInv, NoneEmpty
<1> QED BY <1>1, <1>2 DEF Next

(* Before the first edge no neuron is counted or held.                     *)
LEMMA InitCounted == TypeOK /\ Init => CountedInv
<1> SUFFICES ASSUME TypeOK, Init PROVE CountedInv
  OBVIOUS
<1>1. ctrl_pc = "idle" /\ ctrl_i = 0
  BY DEF Init, controller!Init
<1>2. layer = 1
  BY <1>1 DEF layer, Copying
<1>3. NeuronsUpTo(1) = 0
  BY OneLayerMore DEF TypeOK
<1>4. Share = [p \in PC |-> 0]
  <2>1. ASSUME NEW p \in PC
        PROVE  pu_count_neurons_calc[p] = 0 /\ Held(p) = << >>
    BY DEF Init, processors!Init, processors!All, processors!PC, PC, generator!Init,
           Held, Hand, Busy, processors!Pushed, processors!Accepts
  <2> QED BY <2>1 DEF Share
<1>5. SumOf(Share) = 0
  BY <1>4, UnitsFinite, SumZero
<1> QED BY <1>1, <1>2, <1>3, <1>5 DEF CountedInv

THEOREM CountedInvariant == Spec => []CountedInv
<1>1. Init => CountedInv
  BY InitCounted, InitTypes
<1> QED BY <1>1, StepCounted, TypeCorrect, DispatchInvariant, PhaseInvariant,
           CopyInvariant, LoadedInvariant, SelectInvariant, PTL DEF Spec

(***************************************************************************)
(* Neurons are conserved over the whole run, and the statistics printed at *)
(* its end are complete: for every number of units, capacity of the queues *)
(* and network whose layers to compute all have a neuron.  An empty layer  *)
(* is handed one number all the same (generator.cpp:61-66), which is       *)
(* counted, too.                                                           *)
(***************************************************************************)
THEOREM NeuronsCounted == Spec => [](NoneEmpty => EveryNeuronCounted)
<1>1. TypeOK /\ DispatchInv /\ CountedInv => (NoneEmpty => EveryNeuronCounted)
  <2> SUFFICES ASSUME TypeOK, DispatchInv, CountedInv, NoneEmpty
               PROVE  EveryNeuronCounted
    OBVIOUS
  <2> DEFINE c == pu_count_neurons_calc
  <2>1. c \in [PC -> Int] /\ Load \in [PC -> Int] /\ Share \in [PC -> Int]
    BY ShareTypes
  <2>2. \A p \in PC : Share[p] = c[p] + Load[p]
    BY DEF Share, Load
  <2> HIDE DEF c
  <2>3. SumOf(Share) = SumOf(c) + SumOf(Load)
    BY <2>1, <2>2, UnitsFinite, SumAdds
  <2>4. Total(c) = SumOf(c) /\ Cardinality(Places) = SumOf(Load)
    BY PlacesCounted DEF Total, SumOf
  <2> QED BY <2>3, <2>4 DEF EveryNeuronCounted, CountedInv, c
<1> QED BY <1>1, TypeCorrect, DispatchInvariant, CountedInvariant, PTL
=============================================================================
