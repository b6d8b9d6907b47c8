----------------------------- MODULE MemoryProofs -----------------------------
(***************************************************************************)
(* What the memories hold.  Loading: what IO sends is what the stores hold *)
(* when the start command, sent last over the same bus, is obeyed, for all *)
(* input files, the short ones and those with too many numbers included.   *)
(* The copy of a computed layer, and the memory it is copied from: the     *)
(* stages of the copy stay aligned for every network that fits, and no     *)
(* access to NEXT_LAYER is outside its memory.                             *)
(***************************************************************************)
EXTENDS AcceleratorProofs

(* The elements of s up to the m-th.                                       *)
Prefix(s, m) == [k \in 1 .. (IF m <= 0 THEN 0 ELSE IF m > Len(s) THEN Len(s) ELSE m) |-> s[k]]

(* How many beats the stores have seen: all but the one on the bus.        *)
Seen == IF io_beat = 0 THEN 0 ELSE io_beat - 1

Layers  == LayersCount(files.config)
Sizes   == LayerSizes(files.config)
Picture == files.picture

(***************************************************************************)
(* Each store holds what the beats seen so far brought it: two commands,   *)
(* the sizes, the picture, the weights and the start, in this order.  The  *)
(* picture is there until it makes room for the first layer copied.        *)
(***************************************************************************)
StoresInv ==
  /\ io_beat <= Len(io_module!Beats) + 1
  /\ layers_memory = Prefix(Sizes, Seen - 2)
  /\ ~Started \/ (ctrl_i = 0 /\ ~Copying) => prev_memory = Prefix(Picture, Seen - 2 - Layers)
  /\ weight_memory = Prefix(Weights(files.config), Seen - 2 - Layers - Len(Picture))

(* The controller reads the number of layers from the second beat.         *)
ReadInv ==
  /\ io_beat <= Len(io_module!Beats) /\ io_beat # 2 => ctrl_pc = "idle"
  /\ io_beat = 2 => ctrl_pc = "read"
  /\ io_beat >= 3 => ctrl_layers = Layers /\ ctrl_pc # "read"

LoadInv == StoresInv /\ ReadInv

----------------------------------------------------------------------------
(* Lengths and elements of a concatenation.                                *)
Joins(r, s, t) ==
  /\ r \in Seq(Beat)
  /\ Len(r) = Len(s) + Len(t)
  /\ \A k \in 1 .. Len(s) : r[k] = s[k]
  /\ \A k \in 1 .. Len(t) : r[Len(s) + k] = t[k]

LEMMA Concat == \A s, t \in Seq(Beat) : Joins(s \o t, s, t)
BY DEF Joins

(* The values sent to one address.                                         *)
LEMMA AtShape ==
  \A a \in 0 .. 3 : \A values \in Seq(Float) :
    (a # 0 => values \in Seq(Number)) =>
      /\ io_module!At(a, values) \in Seq(Beat)
      /\ Len(io_module!At(a, values)) = Len(values)
      /\ \A k \in 1 .. Len(values) :
           io_module!At(a, values)[k] = [addr |-> a, data |-> values[k]]
<1> SUFFICES ASSUME NEW a \in 0 .. 3, NEW values \in Seq(Float),
                    a # 0 => values \in Seq(Number)
             PROVE  /\ io_module!At(a, values) \in Seq(Beat)
                    /\ Len(io_module!At(a, values)) = Len(values)
                    /\ \A k \in 1 .. Len(values) :
                         io_module!At(a, values)[k] = [addr |-> a, data |-> values[k]]
  OBVIOUS
<1>1. io_module!At(a, values) \in Seq(Beat)
  BY AtType
<1>2. io_module!At(a, values) =
        [k \in 1 .. Len(values) |-> [addr |-> a, data |-> values[k]]]
  BY DEF io_module!At
<1>3. Len(io_module!At(a, values)) = Len(values)
  BY <1>2, LenProperties
<1> QED BY <1>1, <1>2, <1>3

(* The numbers the program takes from its files.                           *)
LEMMA FileTypes ==
  ASSUME files \in Inputs
  PROVE  /\ Layers \in Nat
         /\ Sizes \in Seq(Int) /\ Len(Sizes) = Layers
         /\ Picture \in Seq(Number) /\ Weights(files.config) \in Seq(Number)
         /\ io_module!LayersCount(files.config) = Layers
         /\ io_module!LayerSizes(files.config) = Sizes
         /\ io_module!Weights(files.config) = Weights(files.config)
<1> DEFINE cfg == files.config
<1>1. cfg \in Seq(Number) /\ Picture \in Seq(Number) /\ Layers \in Nat
  BY InputsAssumption DEF Picture, Layers
<1>2. io_module!LayersCount(cfg) = Layers
  BY DEF io_module!LayersCount, LayersCount, io_module!ToInt, ToInt, Layers
<1>3. /\ io_module!LayerSizes(cfg) = Sizes
      /\ io_module!Weights(cfg) = Weights(cfg)
  BY <1>2 DEF io_module!LayerSizes, LayerSizes, io_module!Weights, Weights,
              io_module!LayersCount, LayersCount, io_module!ToInt, ToInt, Sizes, Layers
<1>4. Sizes \in [1 .. Layers -> Int]
  <2>1. \A k \in 1 .. Layers : (IF k + 1 <= Len(cfg) THEN ToInt(cfg[k + 1]) ELSE 0) \in Int
    <3> SUFFICES ASSUME NEW k \in 1 .. Layers, k + 1 <= Len(cfg)
                 PROVE  ToInt(cfg[k + 1]) \in Int
      OBVIOUS
    <3>1. cfg[k + 1] \in Number
      BY <1>1
    <3> QED BY <3>1, FloatTypes, Numbers
  <2> QED BY <2>1 DEF Sizes, LayerSizes, Layers
<1>5. Sizes \in Seq(Int) /\ Len(Sizes) = Layers
  BY <1>1, <1>4, SeqDef, LenProperties
<1>6. Weights(cfg) \in Seq(Number)
  BY <1>3, SentTypes
<1> QED BY <1>1, <1>2, <1>3, <1>5, <1>6

(* Which beat carries what.                                                *)
LEMMA BeatAt ==
  ASSUME files \in Inputs
  PROVE  LET n == Layers
             d == Len(Picture)
             w == Len(Weights(files.config))
             beats == io_module!Beats
         IN  /\ Len(beats) = n + d + w + 3
             /\ beats[1] = [addr |-> 0, data |-> PosInf]
             /\ beats[2] = [addr |-> 0, data |-> OfInt(n)]
             /\ \A k \in 1 .. n : beats[2 + k] = [addr |-> 1, data |-> OfInt(Sizes[k])]
             /\ \A k \in 1 .. d : beats[2 + n + k] = [addr |-> 2, data |-> Picture[k]]
             /\ \A k \in 1 .. w : beats[2 + n + d + k] =
                                     [addr |-> 3, data |-> Weights(files.config)[k]]
             /\ beats[n + d + w + 3] = [addr |-> 0, data |-> NegInf]
<1> DEFINE n == Layers
           d == Len(Picture)
           ws == Weights(files.config)
           w == Len(ws)
           sizes == io_module!SizesAsFloats(files.config)
           a0 == io_module!At(0, <<PosInf, OfInt(n)>>)
           a1 == io_module!At(1, sizes)
           a2 == io_module!At(2, Picture)
           a3 == io_module!At(3, ws)
           a4 == io_module!At(0, <<NegInf>>)
           beats == io_module!Beats
<1>1. n \in Nat /\ d \in Nat /\ w \in Nat
      /\ Picture \in Seq(Number) /\ ws \in Seq(Number)
  BY FileTypes
<1>2. sizes \in Seq(Number) /\ Len(sizes) = n
      /\ \A k \in 1 .. n : sizes[k] = OfInt(Sizes[k])
  <2>1. sizes = [k \in 1 .. n |-> OfInt(Sizes[k])]
    BY FileTypes DEF io_module!SizesAsFloats, io_module!OfInt, OfInt
  <2>2. sizes \in Seq(Number)
    BY SentTypes
  <2> QED BY <1>1, <2>1, <2>2, LenProperties
<1>3. beats = (((a0 \o a1) \o a2) \o a3) \o a4
  BY FileTypes DEF io_module!Beats, io_module!PosInf, io_module!NegInf,
                   io_module!OfInt, PosInf, NegInf, OfInt, Picture
<1>4. /\ a0 \in Seq(Beat) /\ Len(a0) = 2
      /\ a0[1] = [addr |-> 0, data |-> PosInf]
      /\ a0[2] = [addr |-> 0, data |-> OfInt(n)]
      /\ a4 \in Seq(Beat) /\ Len(a4) = 1
      /\ a4[1] = [addr |-> 0, data |-> NegInf]
  <2>1. <<PosInf, OfInt(n)>> \in Seq(Float) /\ <<NegInf>> \in Seq(Float) /\ 0 \in 0 .. 3
    BY <1>1, FloatTypes
  <2> HIDE DEF n
  <2>2. a0 = [k \in 1 .. 2 |-> [addr |-> 0, data |-> <<PosInf, OfInt(n)>>[k]]]
    BY DEF io_module!At
  <2>3. a4 = [k \in 1 .. 1 |-> [addr |-> 0, data |-> <<NegInf>>[k]]]
    BY DEF io_module!At
  <2>4. a0 \in Seq(Beat) /\ a4 \in Seq(Beat)
    BY <2>1, AtShape
  <2> HIDE DEF a0, a4
  <2> QED BY <2>2, <2>3, <2>4
<1>5. Seq(Number) \subseteq Seq(Float)
  BY Numbers
<1>6. /\ a1 \in Seq(Beat) /\ Len(a1) = n
      /\ \A k \in 1 .. n : a1[k] = [addr |-> 1, data |-> OfInt(Sizes[k])]
  <2> HIDE DEF sizes, n
  <2> QED BY <1>2, <1>5, AtShape
<1>7. /\ a2 \in Seq(Beat) /\ Len(a2) = d
      /\ \A k \in 1 .. d : a2[k] = [addr |-> 2, data |-> Picture[k]]
  BY <1>1, <1>5, AtShape
<1>8. /\ a3 \in Seq(Beat) /\ Len(a3) = w
      /\ \A k \in 1 .. w : a3[k] = [addr |-> 3, data |-> ws[k]]
  <2> HIDE DEF ws
  <2> QED BY <1>1, <1>5, AtShape
<1> HIDE DEF n, d, w, ws, sizes, a0, a1, a2, a3, a4, beats
<1> DEFINE b1 == a0 \o a1
           b2 == b1 \o a2
           b3 == b2 \o a3
<1>9. Joins(b1, a0, a1) /\ b1 \in Seq(Beat)
  BY <1>4, <1>6, Concat DEF Joins
<1>10. Joins(b2, b1, a2) /\ b2 \in Seq(Beat)
  <2> HIDE DEF b1
  <2> QED BY <1>7, <1>9, Concat DEF Joins
<1>11. Joins(b3, b2, a3) /\ b3 \in Seq(Beat)
  <2> HIDE DEF b2
  <2> QED BY <1>8, <1>10, Concat DEF Joins
<1>12. Joins(beats, b3, a4)
  <2>1. beats = b3 \o a4
    BY <1>3
  <2> HIDE DEF b3
  <2> QED BY <1>4, <1>11, <2>1, Concat
<1> HIDE DEF b1, b2, b3
<1>13. /\ Len(b1) = 2 + n /\ Len(b2) = 2 + n + d /\ Len(b3) = 2 + n + d + w
       /\ Len(beats) = 2 + n + d + w + 1
  BY <1>1, <1>4, <1>6, <1>7, <1>8, <1>9, <1>10, <1>11, <1>12 DEF Joins
<1>14. \A k \in 1 .. 2 + n + d + w : beats[k] = b3[k]
  BY <1>12, <1>13 DEF Joins
<1>15. \A k \in 1 .. 2 + n + d : beats[k] = b2[k]
  <2>1. \A k \in 1 .. 2 + n + d : b3[k] = b2[k]
    BY <1>11, <1>13 DEF Joins
  <2> QED BY <1>1, <1>14, <2>1
<1>16. \A k \in 1 .. 2 + n : beats[k] = b1[k]
  <2>1. \A k \in 1 .. 2 + n : b2[k] = b1[k]
    BY <1>10, <1>13 DEF Joins
  <2> QED BY <1>1, <1>15, <2>1
<1>17. beats[1] = a0[1] /\ beats[2] = a0[2]
  <2>1. b1[1] = a0[1] /\ b1[2] = a0[2]
    <3>1. \A k \in 1 .. Len(a0) : b1[k] = a0[k]
      BY <1>9 DEF Joins
    <3>2. Len(a0) = 2
      BY <1>4
    <3> HIDE DEF a0
    <3> QED BY <3>1, <3>2
  <2>2. 1 \in 1 .. 2 + n /\ 2 \in 1 .. 2 + n
    BY <1>1
  <2> QED BY <1>16, <2>1, <2>2
<1>18. \A k \in 1 .. n : beats[2 + k] = a1[k]
  <2>1. \A k \in 1 .. n : b1[2 + k] = a1[k]
    BY <1>4, <1>6, <1>9 DEF Joins
  <2> QED BY <1>1, <1>16, <2>1
<1>19. \A k \in 1 .. d : beats[2 + n + k] = a2[k]
  <2>1. \A k \in 1 .. d : b2[2 + n + k] = a2[k]
    BY <1>7, <1>10, <1>13 DEF Joins
  <2> QED BY <1>1, <1>15, <2>1
<1>20. \A k \in 1 .. w : beats[2 + n + d + k] = a3[k]
  <2>1. \A k \in 1 .. w : b3[2 + n + d + k] = a3[k]
    BY <1>8, <1>11, <1>13 DEF Joins
  <2>2. \A k \in 1 .. w : 2 + n + d + k \in 1 .. 2 + n + d + w
    BY <1>1
  <2> QED BY <1>14, <2>1, <2>2
<1>21. beats[2 + n + d + w + 1] = a4[1]
  BY <1>4, <1>12, <1>13 DEF Joins
<1>22. 2 + n + d + w + 1 = n + d + w + 3
  BY <1>1
<1> QED BY <1>4, <1>6, <1>7, <1>8, <1>13, <1>21, <1>17, <1>18, <1>19, <1>20, <1>22
        DEF n, d, w, ws, beats

(* One element more, until there is none left.                             *)
LEMMA PrefixGrows ==
  ASSUME NEW S, NEW s \in Seq(S), NEW m \in Int
  PROVE  /\ m <= 0 => Prefix(s, m) = << >>
         /\ m >= Len(s) => Prefix(s, m) = s
         /\ Prefix(s, m + 1) = IF m + 1 \in 1 .. Len(s) THEN Append(Prefix(s, m), s[m + 1])
                                                        ELSE Prefix(s, m)
<1>1. Len(s) \in Nat /\ s = [k \in 1 .. Len(s) |-> s[k]]
  OBVIOUS
<1>2. m <= 0 => Prefix(s, m) = << >>
  BY DEF Prefix
<1>3. m >= Len(s) => Prefix(s, m) = s
  BY <1>1 DEF Prefix
<1>4. CASE m + 1 \in 1 .. Len(s)
  <2>1. /\ Prefix(s, m) = [k \in 1 .. m |-> s[k]]
        /\ Prefix(s, m + 1) = [k \in 1 .. m + 1 |-> s[k]]
    BY <1>1, <1>4 DEF Prefix
  <2>2. \A k \in 1 .. m : s[k] \in S
    BY <1>4
  <2>3. [k \in 1 .. m |-> s[k]] \in Seq(S) /\ Len([k \in 1 .. m |-> s[k]]) = m
    BY <1>4, <2>2
  <2> QED BY <1>4, <2>1, <2>3
<1>5. CASE m + 1 \notin 1 .. Len(s)
  BY <1>1, <1>5 DEF Prefix
<1> QED BY <1>2, <1>3, <1>4, <1>5

(* What the beat on the bus brings the stores.                             *)
LEMMA Delivered ==
  ASSUME TypeOK, PhaseInv, Edge
  PROVE  LET b == io_beat
             n == Layers
             d == Len(Picture)
             ws == Weights(files.config)
         IN  /\ layers_memory' = IF b - 2 \in 1 .. n
                                   THEN Append(layers_memory, Sizes[b - 2])
                                   ELSE layers_memory
             /\ ~Started \/ ~Copying =>
                  prev_memory' = IF b - 2 - n \in 1 .. d
                                   THEN Append(prev_memory, Picture[b - 2 - n])
                                   ELSE prev_memory
             /\ weight_memory' = IF b - 2 - n - d \in 1 .. Len(ws)
                                   THEN Append(weight_memory, ws[b - 2 - n - d])
                                   ELSE weight_memory
<1> DEFINE b == io_beat
           n == Layers
           d == Len(Picture)
           ws == Weights(files.config)
           w == Len(ws)
           beats == io_module!Beats
<1>1. /\ n \in Nat /\ d \in Nat /\ w \in Nat /\ b \in Nat
      /\ Sizes \in Seq(Int) /\ Len(Sizes) = n
  BY FileTypes DEF TypeOK, io_module!TypeOK
<1>2. /\ Len(beats) = n + d + w + 3
      /\ beats[1].addr = 0 /\ beats[2].addr = 0 /\ beats[n + d + w + 3].addr = 0
      /\ \A k \in 1 .. n : beats[2 + k] = [addr |-> 1, data |-> OfInt(Sizes[k])]
      /\ \A k \in 1 .. d : beats[2 + n + k] = [addr |-> 2, data |-> Picture[k]]
      /\ \A k \in 1 .. w : beats[2 + n + d + k] = [addr |-> 3, data |-> ws[k]]
  BY BeatAt DEF TypeOK
<1>3. /\ b = 0 => ~wr_io_bus
      /\ b \in 1 .. Len(beats) => /\ addr_io_bus = beats[b].addr
                                  /\ data_io_bus = beats[b].data /\ wr_io_bus
      /\ b >= Len(beats) => addr_io_bus = 0
  BY DEF PhaseInv, BusInv
<1> HIDE DEF b, n, d, ws, w, beats
<1>4. /\ b - 2 \in 1 .. n =>
           addr_io_bus = 1 /\ data_io_bus = OfInt(Sizes[b - 2]) /\ wr_io_bus
      /\ b - 2 \notin 1 .. n => ~(addr_io_bus = 1 /\ wr_io_bus)
      /\ b - 2 - n \in 1 .. d =>
           addr_io_bus = 2 /\ data_io_bus = Picture[b - 2 - n] /\ wr_io_bus
      /\ b - 2 - n \notin 1 .. d => ~(addr_io_bus = 2 /\ wr_io_bus)
      /\ b - 2 - n - d \in 1 .. w =>
           addr_io_bus = 3 /\ data_io_bus = ws[b - 2 - n - d] /\ wr_io_bus
      /\ b - 2 - n - d \notin 1 .. w => ~(addr_io_bus = 3 /\ wr_io_bus)
  <2>1. CASE b - 2 \in 1 .. n
    <3>1. b = 2 + (b - 2) /\ b \in 1 .. Len(beats)
      BY <1>1, <1>2, <2>1
    <3>2. beats[b] = [addr |-> 1, data |-> OfInt(Sizes[b - 2])]
      BY <1>2, <2>1, <3>1
    <3> QED BY <1>1, <1>3, <2>1, <3>1, <3>2
  <2>2. CASE b - 2 - n \in 1 .. d
    <3> DEFINE k == b - 2 - n
    <3>1. k \in 1 .. d /\ b = 2 + n + k /\ b \in 1 .. Len(beats)
      BY <1>1, <1>2, <2>2
    <3> HIDE DEF k
    <3>2. beats[2 + n + k] = [addr |-> 2, data |-> Picture[k]]
      BY <1>2, <3>1
    <3>3. addr_io_bus = 2 /\ data_io_bus = Picture[k] /\ wr_io_bus
      BY <1>3, <3>1, <3>2
    <3> USE DEF k
    <3> QED BY <1>1, <2>2, <3>3
  <2>3. CASE b - 2 - n - d \in 1 .. w
    <3> DEFINE k == b - 2 - n - d
    <3>1. k \in 1 .. w /\ b = 2 + n + d + k /\ b \in 1 .. Len(beats)
      BY <1>1, <1>2, <2>3
    <3> HIDE DEF k
    <3>2. beats[2 + n + d + k] = [addr |-> 3, data |-> ws[k]]
      BY <1>2, <3>1
    <3>3. addr_io_bus = 3 /\ data_io_bus = ws[k] /\ wr_io_bus
      BY <1>3, <3>1, <3>2
    <3> USE DEF k
    <3> QED BY <1>1, <2>3, <3>3
  <2>4. CASE b - 2 \notin 1 .. n /\ b - 2 - n \notin 1 .. d /\ b - 2 - n - d \notin 1 .. w
    <3>1. b = 0 \/ b = 1 \/ b = 2 \/ b >= Len(beats)
      BY <1>1, <1>2, <2>4
    <3>2. b = 0 => ~wr_io_bus
      BY <1>3
    <3>3. b = 1 \/ b = 2 => addr_io_bus = 0
      BY <1>1, <1>2, <1>3
    <3> QED BY <1>3, <2>4, <3>1, <3>2, <3>3
  <2> QED BY <2>1, <2>2, <2>3, <2>4
<1>5. layers_memory' = IF b - 2 \in 1 .. n THEN Append(layers_memory, Sizes[b - 2])
                                           ELSE layers_memory
  <2>1. b - 2 \in 1 .. n => layers_storage!ToInt(OfInt(Sizes[b - 2])) = Sizes[b - 2]
    <3> SUFFICES ASSUME b - 2 \in 1 .. n
                 PROVE  layers_storage!ToInt(OfInt(Sizes[b - 2])) = Sizes[b - 2]
      OBVIOUS
    <3>1. Sizes[b - 2] \in Int
      BY <1>1
    <3> QED BY <3>1 DEF layers_storage!ToInt, OfInt
  <2> QED BY <1>4, <2>1 DEF Edge, layers_storage!Edge, layers_storage!add_to_queue
<1>6. ~Started \/ ~Copying =>
        prev_memory' = IF b - 2 - n \in 1 .. d THEN Append(prev_memory, Picture[b - 2 - n])
                                               ELSE prev_memory
  <2> SUFFICES ASSUME ~Started \/ ~Copying
               PROVE  prev_memory' = IF b - 2 - n \in 1 .. d
                                       THEN Append(prev_memory, Picture[b - 2 - n])
                                       ELSE prev_memory
    OBVIOUS
  <2>1. ~clr_prev_layer_ctrl_mem_bus /\ ~wr_to_mem_from_mem_ctrl_mem_bus
    BY DEF PhaseInv, CloneInv, Started, Copying
  <2> QED BY <1>4, <2>1 DEF Edge, PreviousLayerEdge, previous_layer!add_to_mem_and_clear,
          previous_layer!Added, previous_layer!Cleared, previous_layer!Push
<1>7. weight_memory' = IF b - 2 - n - d \in 1 .. w
                         THEN Append(weight_memory, ws[b - 2 - n - d]) ELSE weight_memory
  BY <1>4 DEF Edge, weight_storage!Edge, weight_storage!add_to_memory
<1> QED BY <1>5, <1>6, <1>7 DEF b, n, d, ws, w

(* IO counts its beats up to one past the last.                            *)
LEMMA BeatCount ==
  ASSUME TypeOK, Edge, io_beat <= Len(io_module!Beats) + 1
  PROVE  /\ io_beat \in Nat /\ io_beat' \in Nat
         /\ io_module!Beats' = io_module!Beats
         /\ io_beat' <= Len(io_module!Beats) + 1
         /\ io_beat <= Len(io_module!Beats) => io_beat' = io_beat + 1
         /\ io_beat = Len(io_module!Beats) + 1 => io_beat' = io_beat
<1>1. io_module!Beats' = io_module!Beats
  BY DEF Edge, io_module!Beats, io_module!At, io_module!SizesAsFloats,
         io_module!LayersCount, io_module!LayerSizes, io_module!Weights
<1>2. io_beat \in Nat /\ Len(io_module!Beats) \in Nat
  BY BeatsShape DEF TypeOK, io_module!TypeOK
<1>3. io_module!Send \/ io_module!Finish \/ io_module!Ended
  BY DEF Edge, io_module!Edge, io_module!write_data_to_system
<1> QED BY <1>1, <1>2, <1>3 DEF io_module!Send, io_module!Finish, io_module!Ended

(* A store whose values follow f others after the first two beats.         *)
LEMMA Advances ==
  ASSUME TypeOK, Edge, io_beat <= Len(io_module!Beats) + 1,
         NEW S, NEW s \in Seq(S), NEW f \in Nat, f + Len(s) + 3 <= Len(io_module!Beats)
  PROVE  Prefix(s, Seen' - 2 - f) =
           IF io_beat - 2 - f \in 1 .. Len(s)
             THEN Append(Prefix(s, Seen - 2 - f), s[io_beat - 2 - f])
             ELSE Prefix(s, Seen - 2 - f)
<1> DEFINE N == Len(io_module!Beats)
           b == io_beat
<1>1. /\ b \in Nat /\ N \in Nat /\ Len(s) \in Nat
      /\ b <= N => b' = b + 1
      /\ b = N + 1 => b' = b
  BY BeatCount, BeatsShape DEF TypeOK
<1> HIDE DEF N
<1>2. CASE b = 0
  <2>1. Seen' = Seen /\ b - 2 - f \notin 1 .. Len(s)
    BY <1>1, <1>2 DEF Seen
  <2> QED BY <2>1
<1>3. CASE b \in 1 .. N
  <2>1. Seen = b - 1 /\ Seen' = b
    BY <1>1, <1>3 DEF Seen
  <2>2. b - 3 - f \in Int /\ (b - 3 - f) + 1 = b - 2 - f /\ (b - 1) - 2 - f = b - 3 - f
    BY <1>1
  <2> DEFINE m == b - 3 - f
  <2>3. Prefix(s, m + 1) = IF m + 1 \in 1 .. Len(s) THEN Append(Prefix(s, m), s[m + 1])
                                                  ELSE Prefix(s, m)
    <3> HIDE DEF m
    <3>1. m \in Int
      BY <2>2 DEF m
    <3> QED BY <3>1, PrefixGrows
  <2> QED BY <2>1, <2>2, <2>3
<1>4. CASE b = N + 1
  <2>1. Seen' = Seen /\ b - 2 - f \notin 1 .. Len(s)
    BY <1>1, <1>4 DEF Seen, N
  <2> QED BY <2>1
<1>5. b = 0 \/ b \in 1 .. N \/ b = N + 1
  BY <1>1 DEF N
<1> QED BY <1>2, <1>3, <1>4, <1>5

(* A run once started stays so, and a copy once begun leaves layer 0.      *)
LEMMA StartedStays ==
  ASSUME TypeOK, PhaseInv, Edge, Started
  PROVE  /\ Started'
         /\ ctrl_i' = 0 /\ ~Copying' => ctrl_i = 0 /\ ~Copying
<1>1. controller!process /\ ctrl_i \in Nat
  BY DEF Edge, TypeOK, controller!TypeOK
<1>2. CASE write_out_controller_bus
  <2>1. controller!StayIdle
    BY <1>1, <1>2, ShownRests
  <2>2. ctrl_pc = "idle" /\ ctrl_pc' = "idle" /\ ctrl_i' = ctrl_i /\ ctrl_high' = ctrl_high
    BY <2>1 DEF controller!StayIdle, controller!Rest
  <2> QED BY <1>2, <2>2 DEF Started, Copying, write_out_controller_bus
<1>3. CASE ctrl_pc \notin {"idle", "read"}
  <2>1. CASE controller!AwaitClone /\ end_clone_controller_bus
    <3>1. PICK b : controller!NextLayerOrEnd(ctrl_i + 1, b, "start_clone_controller_layer_o")
      BY <2>1 DEF controller!AwaitClone
    <3>2. ctrl_i' # 0
      BY <1>1, <3>1 DEF controller!NextLayerOrEnd
    <3>3. Started'
      BY <3>1 DEF controller!NextLayerOrEnd, controller!Pulse, controller!Rest,
                  Started, write_out_controller_bus
    <3> QED BY <3>2, <3>3
  <2>2. CASE controller!AwaitClone /\ ~end_clone_controller_bus
    BY <2>2 DEF controller!AwaitClone, Started, Copying
  <2>3. CASE ~controller!AwaitClone
    <3>1. /\ ctrl_i' = ctrl_i /\ ctrl_pc' \notin {"idle", "read"}
          /\ Copying => Copying'
      BY <1>1, <1>3, <2>3 DEF controller!process, controller!StayIdle,
         controller!BeginRead, controller!ReadLayers, controller!StartConv,
         controller!SelectLayer, controller!StartGenerator, controller!EndStart,
         controller!Settle, controller!AwaitCycle, controller!StartClone,
         controller!loop, Copying
    <3> QED BY <3>1 DEF Started
  <2> QED BY <2>1, <2>2, <2>3
<1> QED BY <1>2, <1>3 DEF Started

(* Every beat that reaches a store extends it as it should.                *)
LEMMA StepStores ==
  ASSUME TypeOK, PhaseInv, StoresInv, Edge
  PROVE  StoresInv'
<1> DEFINE n == Layers
           d == Len(Picture)
           ws == Weights(files.config)
<1>1. /\ n \in Nat /\ d \in Nat /\ Len(ws) \in Nat
      /\ Sizes \in Seq(Int) /\ Len(Sizes) = n
      /\ Picture \in Seq(Number) /\ ws \in Seq(Number)
      /\ Len(io_module!Beats) = n + d + Len(ws) + 3
      /\ io_beat <= Len(io_module!Beats) + 1
  BY FileTypes, BeatAt DEF TypeOK, StoresInv
<1>2. /\ Sizes' = Sizes /\ Picture' = Picture /\ Layers' = Layers
      /\ Weights(files.config)' = ws
  BY DEF Edge, Sizes, Picture, Layers
<1>3. io_beat' <= Len(io_module!Beats)' + 1 /\ io_beat \in Nat /\ io_beat' \in Nat
  BY BeatCount DEF StoresInv
<1> HIDE DEF n, d, ws
<1>4. layers_memory' = Prefix(Sizes, Seen' - 2)
  <2>1. /\ layers_memory' = IF io_beat - 2 \in 1 .. n
                              THEN Append(layers_memory, Sizes[io_beat - 2])
                              ELSE layers_memory
        /\ layers_memory = Prefix(Sizes, Seen - 2)
    BY Delivered DEF StoresInv, n
  <2>2. Prefix(Sizes, Seen' - 2 - 0) =
           IF io_beat - 2 - 0 \in 1 .. Len(Sizes)
             THEN Append(Prefix(Sizes, Seen - 2 - 0), Sizes[io_beat - 2 - 0])
             ELSE Prefix(Sizes, Seen - 2 - 0)
    <3>1. 0 + Len(Sizes) + 3 <= Len(io_module!Beats) /\ 0 \in Nat
      BY <1>1
    <3> QED BY <1>1, <3>1, Advances
  <2>3. Seen \in Int /\ Seen' \in Int
    BY <1>3 DEF Seen
  <2>4. Seen - 2 - 0 = Seen - 2 /\ Seen' - 2 - 0 = Seen' - 2 /\ io_beat - 2 - 0 = io_beat - 2
    BY <1>3, <2>3
  <2> QED BY <1>1, <2>1, <2>2, <2>4
<1>5. ASSUME (~Started \/ (ctrl_i = 0 /\ ~Copying))'
      PROVE  prev_memory' = Prefix(Picture, Seen' - 2 - n)
  <2>1. ~Started \/ (ctrl_i = 0 /\ ~Copying)
    BY <1>5, StartedStays
  <2>2. /\ prev_memory' = IF io_beat - 2 - n \in 1 .. d
                            THEN Append(prev_memory, Picture[io_beat - 2 - n])
                            ELSE prev_memory
        /\ prev_memory = Prefix(Picture, Seen - 2 - n)
    BY <2>1, Delivered DEF StoresInv, n, d
  <2>3. n + Len(Picture) + 3 <= Len(io_module!Beats)
    BY <1>1 DEF d
  <2> QED BY <1>1, <2>2, <2>3, Advances DEF d
<1>6. weight_memory' = Prefix(ws, Seen' - 2 - n - d)
  <2>1. /\ weight_memory' = IF io_beat - 2 - n - d \in 1 .. Len(ws)
                              THEN Append(weight_memory, ws[io_beat - 2 - n - d])
                              ELSE weight_memory
        /\ weight_memory = Prefix(ws, Seen - 2 - n - d)
    BY Delivered DEF StoresInv, n, d, ws
  <2>2. Prefix(ws, Seen' - 2 - (n + d)) =
          IF io_beat - 2 - (n + d) \in 1 .. Len(ws)
            THEN Append(Prefix(ws, Seen - 2 - (n + d)), ws[io_beat - 2 - (n + d)])
            ELSE Prefix(ws, Seen - 2 - (n + d))
    <3>1. n + d + Len(ws) + 3 <= Len(io_module!Beats) /\ n + d \in Nat
      BY <1>1
    <3> QED BY <1>1, <3>1, Advances
  <2>3. Seen \in Int /\ Seen' \in Int
    BY <1>3 DEF Seen
  <2>4. /\ Seen - 2 - (n + d) = Seen - 2 - n - d
        /\ Seen' - 2 - (n + d) = Seen' - 2 - n - d
        /\ io_beat - 2 - (n + d) = io_beat - 2 - n - d
    BY <1>1, <1>3, <2>3
  <2> QED BY <2>1, <2>2, <2>4
<1> QED BY <1>2, <1>3, <1>4, <1>5, <1>6 DEF StoresInv, n, d, ws

(* The controller's thread takes the number of layers from the second      *)
(* beat, is at rest for the others and reads nothing more once started.    *)
LEMMA StepRead ==
  ASSUME TypeOK, PhaseInv, StoresInv, ReadInv, Edge
  PROVE  ReadInv'
<1> DEFINE b == io_beat
           N == Len(io_module!Beats)
           n == Layers
           beats == io_module!Beats
<1>1. /\ b \in Nat /\ N \in Nat /\ N >= 3 /\ b <= N + 1
      /\ b <= N => b' = b + 1
      /\ b = N + 1 => b' = b
      /\ N' = N /\ Layers' = n
  <2>1. N = n + Len(Picture) + Len(Weights(files.config)) + 3 /\ n \in Nat
        /\ Len(Picture) \in Nat /\ Len(Weights(files.config)) \in Nat
    BY BeatAt, FileTypes DEF TypeOK
  <2>2. Layers' = n
    BY DEF Edge, Layers
  <2> HIDE DEF n
  <2> QED BY <2>1, <2>2, BeatCount DEF StoresInv
<1>2. /\ beats[1] = [addr |-> 0, data |-> PosInf]
      /\ beats[2] = [addr |-> 0, data |-> OfInt(n)]
      /\ \A k \in 3 .. N - 1 : beats[k].addr # 0
      /\ beats[N] = [addr |-> 0, data |-> NegInf]
  <2> DEFINE d == Len(Picture)
             w == Len(Weights(files.config))
  <2>1. n \in Nat /\ d \in Nat /\ w \in Nat /\ N = n + d + w + 3
    BY BeatAt, FileTypes DEF TypeOK
  <2>2. /\ beats[1] = [addr |-> 0, data |-> PosInf]
        /\ beats[2] = [addr |-> 0, data |-> OfInt(n)]
        /\ beats[n + d + w + 3] = [addr |-> 0, data |-> NegInf]
    BY BeatAt DEF TypeOK
  <2>3. /\ \A k \in 1 .. n : beats[2 + k] = [addr |-> 1, data |-> OfInt(Sizes[k])]
        /\ \A k \in 1 .. d : beats[2 + n + k] = [addr |-> 2, data |-> Picture[k]]
        /\ \A k \in 1 .. w : beats[2 + n + d + k] =
                                [addr |-> 3, data |-> Weights(files.config)[k]]
    BY BeatAt DEF TypeOK
  <2> HIDE DEF n, d, w, N, beats
  <2>4. ASSUME NEW k \in 3 .. N - 1
        PROVE  beats[k].addr # 0
    <3>1. CASE k - 2 \in 1 .. n
      <4>1. k = 2 + (k - 2)
        OBVIOUS
      <4>2. beats[k] = [addr |-> 1, data |-> OfInt(Sizes[k - 2])]
        BY <2>3, <3>1, <4>1
      <4> QED BY <4>2
    <3>2. CASE k - 2 - n \in 1 .. d
      <4>1. k = 2 + n + (k - 2 - n)
        BY <2>1
      <4>2. beats[k] = [addr |-> 2, data |-> Picture[k - 2 - n]]
        BY <2>3, <3>2, <4>1
      <4> QED BY <4>2
    <3>3. CASE k - 2 - n - d \in 1 .. w
      <4>1. k = 2 + n + d + (k - 2 - n - d)
        BY <2>1
      <4>2. beats[k] = [addr |-> 3, data |-> Weights(files.config)[k - 2 - n - d]]
        BY <2>3, <3>3, <4>1
      <4> QED BY <4>2
    <3> QED BY <2>1, <3>1, <3>2, <3>3
  <2> QED BY <2>1, <2>2, <2>4
<1>3. /\ b = 0 => ~wr_io_bus
      /\ b \in 1 .. N => /\ addr_io_bus = beats[b].addr
                         /\ data_io_bus = beats[b].data /\ wr_io_bus
      /\ b > N => (wr_io_bus => data_io_bus \in Number)
      /\ ctrl_pc = "idle" => ctrl_state = "IDLE"
  BY DEF PhaseInv, BusInv, StartInv
<1>4. /\ b <= N /\ b # 2 => ctrl_pc = "idle"
      /\ b = 2 => ctrl_pc = "read"
      /\ b >= 3 => ctrl_layers = n /\ ctrl_pc # "read"
  BY DEF ReadInv
<1>5. controller!process
  BY DEF Edge
<1> HIDE DEF b, N, n, beats
<1>6. ReadInv' <=>
        /\ b' <= N /\ b' # 2 => ctrl_pc' = "idle"
        /\ b' = 2 => ctrl_pc' = "read"
        /\ b' >= 3 => ctrl_layers' = n /\ ctrl_pc' # "read"
  BY <1>1 DEF ReadInv, b, N
<1>7. PosInf # NegInf /\ controller!PosInf = PosInf /\ controller!NegInf = NegInf
  BY DEF PosInf, NegInf, controller!PosInf, controller!NegInf
<1>8. CASE b # 2 /\ b < N
  <2>1. ctrl_pc = "idle" /\ ctrl_state = "IDLE"
    BY <1>1, <1>3, <1>4, <1>8
  <2>2. CASE b = 1
    <3>1. controller!Sampled = "READ_DATA"
      BY <1>1, <1>2, <1>3, <1>7, <2>1, <2>2
         DEF controller!Sampled, controller!state_read_data, controller!state_start_conv
    <3>2. controller!BeginRead
      BY <1>5, <2>1, <3>1 DEF controller!process, controller!StayIdle,
         controller!ReadLayers, controller!StartConv, controller!SelectLayer,
         controller!StartGenerator, controller!EndStart, controller!Settle,
         controller!AwaitCycle, controller!StartClone, controller!AwaitClone
    <3>3. b' = 2 /\ ctrl_pc' = "read"
      BY <1>1, <2>2, <3>2 DEF controller!BeginRead
    <3> QED BY <1>6, <3>3
  <2>3. CASE b # 1
    <3>1. ~(wr_io_bus /\ addr_io_bus = 0)
      BY <1>1, <1>2, <1>3, <1>8, <2>3
    <3>2. controller!Sampled = "IDLE"
      BY <2>1, <3>1 DEF controller!Sampled, controller!state_read_data,
                        controller!state_start_conv
    <3>3. controller!StayIdle
      BY <1>5, <2>1, <3>2 DEF controller!process, controller!BeginRead,
         controller!ReadLayers, controller!StartConv, controller!SelectLayer,
         controller!StartGenerator, controller!EndStart, controller!Settle,
         controller!AwaitCycle, controller!StartClone, controller!AwaitClone
    <3>4. ctrl_pc' = "idle" /\ ctrl_layers' = ctrl_layers
      BY <3>3 DEF controller!StayIdle, controller!Rest
    <3>5. b' = b + 1 /\ (b = 0 \/ b >= 3)
      BY <1>1, <1>8, <2>3
    <3>6. b' # 2 /\ (b' >= 3 => b >= 3)
      BY <1>1, <3>5
    <3> QED BY <1>4, <1>6, <3>4, <3>6
  <2> QED BY <2>2, <2>3
<1>9. CASE b = 2
  <2>1. ctrl_pc = "read" /\ addr_io_bus = 0 /\ wr_io_bus /\ data_io_bus = OfInt(n)
    BY <1>1, <1>2, <1>3, <1>4, <1>9
  <2>2. controller!ReadLayers
    BY <1>5, <2>1 DEF controller!process, controller!StayIdle, controller!BeginRead,
       controller!StartConv, controller!SelectLayer, controller!StartGenerator,
       controller!EndStart, controller!Settle, controller!AwaitCycle,
       controller!StartClone, controller!AwaitClone
  <2>3. controller!ToInt(OfInt(n)) = n
    BY DEF controller!ToInt, OfInt
  <2>4. ctrl_layers' = n /\ ctrl_pc' = "idle"
    BY <2>1, <2>2, <2>3 DEF controller!ReadLayers, controller!Rest
  <2>5. b' = 3
    BY <1>1, <1>9
  <2> QED BY <1>6, <2>4, <2>5
<1>10. CASE b >= N
  <2>1. ctrl_layers = n /\ ctrl_pc # "read" /\ b' > N
    BY <1>1, <1>4, <1>10
  <2>2. ctrl_pc = "idle" => controller!Sampled # "READ_DATA"
    <3> SUFFICES ASSUME ctrl_pc = "idle"
                 PROVE  controller!Sampled # "READ_DATA"
      OBVIOUS
    <3>1. ~(wr_io_bus /\ data_io_bus = PosInf)
      <4>1. CASE b = N
        BY <1>1, <1>2, <1>3, <1>7, <4>1
      <4>2. CASE b > N
        BY <1>3, <4>2 DEF Number
      <4> QED BY <1>1, <1>10, <4>1, <4>2
    <3> QED BY <1>3, <1>7, <3>1 DEF controller!Sampled, controller!state_read_data,
                                    controller!state_start_conv
  <2>3. ~controller!BeginRead /\ ~controller!ReadLayers
    BY <2>1, <2>2 DEF controller!BeginRead, controller!ReadLayers
  <2>4. ASSUME NEW k, NEW base, NEW down, controller!NextLayerOrEnd(k, base, down)
        PROVE  ctrl_pc' # "read"
    BY <2>4 DEF controller!NextLayerOrEnd, controller!Rest
  <2>5. ctrl_layers' = n /\ ctrl_pc' # "read"
    BY <1>5, <2>1, <2>3, <2>4 DEF controller!process, controller!StayIdle,
       controller!StartConv, controller!SelectLayer, controller!StartGenerator,
       controller!EndStart, controller!Settle, controller!AwaitCycle,
       controller!StartClone, controller!AwaitClone, controller!Rest, controller!loop
  <2> QED BY <1>1, <1>6, <2>1, <2>5
<1> QED BY <1>1, <1>8, <1>9, <1>10

(* Before the first edge nothing has been sent or stored.                  *)
LEMMA InitLoad == TypeOK /\ Init => LoadInv
<1> SUFFICES ASSUME TypeOK, Init PROVE LoadInv
  OBVIOUS
<1>1. /\ io_beat = 0 /\ layers_memory = << >> /\ prev_memory = << >>
      /\ weight_memory = << >> /\ ctrl_pc = "idle"
  BY DEF Init, io_module!Init, layers_storage!Init, previous_layer!Init,
         weight_storage!Init, controller!Init
<1>2. Layers \in Nat /\ Len(Picture) \in Nat
  BY FileTypes DEF TypeOK
<1>3. ASSUME NEW s, NEW m \in Int, m <= 0
      PROVE  Prefix(s, m) = << >>
  BY <1>3 DEF Prefix
<1>4. /\ Seen - 2 \in Int /\ Seen - 2 <= 0
      /\ Seen - 2 - Layers \in Int /\ Seen - 2 - Layers <= 0
      /\ Seen - 2 - Layers - Len(Picture) \in Int /\ Seen - 2 - Layers - Len(Picture) <= 0
  BY <1>1, <1>2 DEF Seen
<1>5. StoresInv
  <2>1. io_beat <= Len(io_module!Beats) + 1
    BY <1>1, BeatsShape DEF TypeOK
  <2> QED BY <1>1, <1>3, <1>4, <2>1 DEF StoresInv
<1>6. ReadInv
  BY <1>1 DEF ReadInv
<1> QED BY <1>5, <1>6 DEF LoadInv

(* Every step keeps the invariant of the loading.                          *)
LEMMA StepLoad ==
  ASSUME TypeOK, PhaseInv, LoadInv, [Next]_vars
  PROVE  LoadInv'
<1>1. CASE Edge
  BY <1>1, StepStores, StepRead DEF LoadInv
<1>2. CASE Abort \/ Over \/ UNCHANGED vars
  <2>1. UNCHANGED <<ioVars, ctrlVars, storeVars, prevVars>>
    BY <1>2 DEF Abort, Over, vars
  <2>2. io_module!Beats' = io_module!Beats
    BY <2>1 DEF ioVars, io_module!Beats, io_module!At, io_module!SizesAsFloats,
                io_module!LayersCount, io_module!LayerSizes, io_module!Weights
  <2> QED BY <2>1, <2>2 DEF LoadInv, StoresInv, ReadInv, Seen, Started, Copying,
       write_out_controller_bus, Layers, Sizes, Picture, ioVars, ctrlVars, storeVars,
       prevVars
<1> QED BY <1>1, <1>2 DEF Next

(***************************************************************************)
(* The stores hold what has been sent, at every edge and for all files.    *)
(***************************************************************************)
THEOREM LoadInvariant == Spec => []LoadInv
<1>1. Init => TypeOK
  BY InitTypes
<1> QED BY <1>1, TypeCorrect, PhaseInvariant, InitLoad, StepLoad, PTL DEF Spec

(* Once the run has started all that was to be sent has arrived.           *)
LEMMA AllLoaded ==
  ASSUME TypeOK, PhaseInv, LoadInv, Started
  PROVE  /\ ctrl_layers = Layers
         /\ layers_memory = Sizes
         /\ weight_memory = Weights(files.config)
         /\ ctrl_i = 0 /\ ~Copying => prev_memory = Picture
<1> DEFINE n == Layers
           d == Len(Picture)
           ws == Weights(files.config)
           w == Len(ws)
<1>1. /\ n \in Nat /\ d \in Nat /\ w \in Nat /\ Len(Sizes) = n
      /\ Sizes \in Seq(Int) /\ Picture \in Seq(Number) /\ ws \in Seq(Number)
      /\ Len(io_module!Beats) = n + d + w + 3
  BY BeatAt, FileTypes DEF TypeOK
<1>2. io_beat = n + d + w + 4
  <2>1. /\ io_beat > Len(io_module!Beats) /\ io_beat <= Len(io_module!Beats) + 1
        /\ io_beat \in Nat
    BY AfterStart DEF LoadInv, StoresInv, TypeOK, io_module!TypeOK
  <2> HIDE DEF n, d, w
  <2> QED BY <1>1, <2>1
<1> HIDE DEF n, d, ws, w
<1>3. Seen = n + d + w + 3 /\ io_beat >= 3
  BY <1>1, <1>2 DEF Seen
<1>4. \A m \in Int :
        /\ m >= n => Prefix(Sizes, m) = Sizes
        /\ m >= d => Prefix(Picture, m) = Picture
        /\ m >= w => Prefix(ws, m) = ws
  <2> SUFFICES ASSUME NEW m \in Int
               PROVE  /\ m >= n => Prefix(Sizes, m) = Sizes
                      /\ m >= d => Prefix(Picture, m) = Picture
                      /\ m >= w => Prefix(ws, m) = ws
    OBVIOUS
  <2>1. m >= Len(Sizes) => Prefix(Sizes, m) = Sizes
    BY <1>1, PrefixGrows
  <2>2. m >= Len(Picture) => Prefix(Picture, m) = Picture
    BY <1>1, PrefixGrows
  <2>3. m >= Len(ws) => Prefix(ws, m) = ws
    BY <1>1, PrefixGrows
  <2> QED BY <1>1, <2>1, <2>2, <2>3 DEF d, w
<1>5. /\ Seen - 2 \in Int /\ Seen - 2 >= n
      /\ Seen - 2 - n \in Int /\ Seen - 2 - n >= d
      /\ Seen - 2 - n - d \in Int /\ Seen - 2 - n - d >= w
  BY <1>1, <1>3
<1>6. /\ layers_memory = Sizes /\ weight_memory = ws
      /\ ctrl_i = 0 /\ ~Copying => prev_memory = Picture
  BY <1>4, <1>5 DEF LoadInv, StoresInv, n, d, ws
<1>7. ctrl_layers = n
  BY <1>3 DEF LoadInv, ReadInv, n
<1> QED BY <1>6, <1>7 DEF n, ws

(***************************************************************************)
(* When the start command is obeyed, and until the first layer has been    *)
(* computed, the stores hold all the files contain and nothing else: the   *)
(* command cannot overtake data on the bus it shares with it.              *)
(***************************************************************************)
THEOREM StartFindsLoaded == Spec => []StartFindsAllLoaded
<1>1. TypeOK /\ PhaseInv /\ LoadInv => StartFindsAllLoaded
  BY AllLoaded DEF StartFindsAllLoaded, Layers, Sizes, Picture
<1> QED BY <1>1, TypeCorrect, PhaseInvariant, LoadInvariant, PTL

----------------------------------------------------------------------------
(* The copy                                                                *)

(* Something is still to be computed in this cycle.                        *)
Work ==
  \/ gen_state = "GENERATE"
  \/ gen_write
  \/ \E p \in PC : pu_queue[p] # << >> \/ Busy(p)

(***************************************************************************)
(* NEXT_LAYER's cursor is rewound by any result, and the generator hands   *)
(* out at least one number in a cycle, for a layer of no neurons too; so   *)
(* the cursor is at the start when the copy begins, however long the last  *)
(* copy was.                                                               *)
(***************************************************************************)
CursorInv ==
  /\ \A p \in PC : pu_pc[p] = "store" => resmem_w_bus[p]
  /\ ctrl_pc \in {"settle", "cycle"} => next_index = 0 \/ Work
  /\ ctrl_pc \in {"clear", "clone"} => next_index = 0

Copied(n) == [k \in 1 .. n |-> next_memory[k - 1]]

(***************************************************************************)
(* The three stages of the copy.  With plc_i words asked for, the last of  *)
(* them is shown by NEXT_LAYER and the others are in PREVIOUS_LAYER.  The  *)
(* words are those NEXT_LAYER holds if the layer fits.                     *)
(***************************************************************************)
PipelineInv ==
  /\ ctrl_pc = "clone" => clr_prev_layer_ctrl_mem_bus
  /\ plc_pc = "copy" =>
       /\ next_memory_transmit <=> plc_i = 0 \/ plc_i < data_layer
       /\ wr_to_mem_from_mem_ctrl_mem_bus <=> plc_i > 0
       /\ next_index = plc_i
  /\ plc_pc = "copy" /\ plc_i = 0 => prev_memory = << >>
  /\ plc_pc = "copy" /\ plc_i > 0 =>
       /\ plc_i <= data_layer
       /\ data_layer <= MEM_SIZE =>
            /\ data_from_now_layer_to_next_layer = next_memory[plc_i - 1]
            /\ prev_memory = Copied(plc_i - 1)
  /\ end_clone_controller_bus /\ data_layer <= MEM_SIZE =>
       prev_memory = Copied(data_layer)

(* A layer is selected from the start of the cycle to the end of the copy. *)
LayerInv ==
  ctrl_pc \in {"gen", "settle", "cycle", "clear", "clone", "cloned"} => layers_index >= 1

(* A number handed out is that of a neuron of the layer, or 0.             *)
InLayer(n) == n = 0 \/ n < data_layer

NumbersInv ==
  /\ gen_pc = "choose" => gen_state = "GENERATE"
  /\ ctrl_pc \in {"settle", "cycle"} =>
       /\ gen_state = "GENERATE" => InLayer(gen_counter)
       /\ gen_write => InLayer(gen_data)
       /\ \A p \in PC :
            /\ \A k \in DOMAIN pu_queue[p] : InLayer(pu_queue[p][k])
            /\ Busy(p) => InLayer(pu_number_of_nn[p])
            /\ resmem_w_bus[p] => InLayer(resmem_addr_bus[p])

CopyInv == CursorInv /\ PipelineInv /\ LayerInv /\ NumbersInv

----------------------------------------------------------------------------
(* What is in a unit or its queue stays there until a result is shown.     *)
LEMMA UnitGoesOn ==
  ASSUME TypeOK, DispatchInv, CursorInv, Edge, ~next_memory_transmit, NEW p \in PC,
         processors!Pushed(p) # << >> \/ Busy(p)
  PROVE  pu_queue'[p] # << >> \/ Busy(p)' \/ next_index' = 0
<1> USE DEF processors!PC, PC
<1>1. processors!Edge
  BY DEF Edge
<1>2. pu_pc'[p] = processors!NextPc(p)
  BY <1>1 DEF processors!Edge, processors!process
<1>3. pu_pc[p] \in {"idle", "mac1", "mac2", "bias1", "bias2", "store"}
  BY DEF TypeOK, processors!TypeOK
<1>4. CASE processors!Takes(p)
  BY <1>2, <1>4 DEF processors!NextPc, processors!AtHead, Busy
<1>5. CASE ~processors!Takes(p) /\ processors!Pushed(p) # << >>
  BY <1>1, <1>5, QueueAfter
<1>6. CASE ~processors!Takes(p) /\ Busy(p) /\ pu_pc[p] # "store"
  BY <1>2, <1>3, <1>6 DEF processors!NextPc, processors!AtHead, Busy
<1>7. CASE pu_pc[p] = "store"
  <2>1. resmem_w_bus[p]
    BY <1>7 DEF CursorInv
  <2> QED BY <2>1 DEF Edge, next_layer_mem!Edge, next_layer_mem!issue_element,
                      next_layer_mem!Rewound, next_layer_mem!PC
<1> QED BY <1>4, <1>5, <1>6, <1>7

(* While something is to be computed it remains so, until the cursor is    *)
(* rewound.                                                                *)
LEMMA WorkGoesOn ==
  ASSUME TypeOK, DispatchInv, CursorInv, Edge, ~next_memory_transmit, Work
  PROVE  Work' \/ next_index' = 0
<1>1. CASE gen_state = "GENERATE"
  <2>1. CASE generator!Enter \/ generator!Withdraw
    BY <1>1, <2>1 DEF generator!Enter, generator!Withdraw, Work
  <2>2. ASSUME NEW p \in PC, generator!Choose(p)
        PROVE  Work'
    BY <1>1, <2>2 DEF generator!Choose, Work
  <2> QED BY <1>1, <2>1, <2>2
          DEF Edge, generator!generate, generator!Idle, generator!PC, PC
<1>2. CASE gen_write
  <2>1. gen_address \in PC /\ processors!Accepts(gen_address)
    BY <1>2 DEF DispatchInv, GeneratorInv, processors!Accepts, TypeOK,
                generator!TypeOK, generator!PC, PC
  <2>2. processors!Pushed(gen_address) # << >>
    <3>1. pu_queue[gen_address] \in Seq(Nat) /\ gen_data \in Nat
      BY <2>1 DEF TypeOK, processors!TypeOK, generator!TypeOK, processors!PC, PC
    <3> QED BY <2>1, <3>1 DEF processors!Pushed
  <2> QED BY <2>1, <2>2, UnitGoesOn DEF Work
<1>3. ASSUME NEW p \in PC, pu_queue[p] # << >> \/ Busy(p)
      PROVE  Work' \/ next_index' = 0
  <2>1. processors!Pushed(p) # << >> \/ Busy(p)
    <3>1. pu_queue[p] \in Seq(Nat) /\ gen_data \in Nat
      BY DEF TypeOK, processors!TypeOK, generator!TypeOK, processors!PC, PC
    <3> QED BY <1>3, <3>1 DEF processors!Pushed
  <2> QED BY <2>1, UnitGoesOn DEF Work
<1> QED BY <1>1, <1>2, <1>3 DEF Work

(* Before the cycle ends the cursor has been rewound.                      *)
LEMMA StepCursor ==
  ASSUME TypeOK, DispatchInv, PhaseInv, CursorInv, Edge
  PROVE  CursorInv'
<1>1. Moves
  BY ControllerSteps DEF PhaseInv, Edge
<1>2. ctrl_pc \in {"idle", "read", "save", "next", "gen", "settle", "cycle",
                   "clear", "clone", "cloned"}
  BY DEF TypeOK, controller!TypeOK
<1>3. ASSUME NEW p \in PC, pu_pc'[p] = "store"
      PROVE  resmem_w_bus'[p]
  <2>1. pu_pc'[p] = processors!NextPc(p) /\ (pu_pc[p] = "bias2" => resmem_w_bus'[p])
    BY DEF Edge, processors!Edge, processors!process, processors!PC, PC
  <2> QED BY <1>3, <2>1 DEF processors!NextPc
<1>4. ASSUME ctrl_pc # "cloned", next_index = 0
      PROVE  next_index' = 0
  <2>1. ~next_memory_transmit
    BY <1>4 DEF PhaseInv, CloneInv
  <2> QED BY <1>4, <2>1 DEF Edge, next_layer_mem!Edge, next_layer_mem!issue_element,
                            next_layer_mem!Rewound
<1>5. ASSUME ctrl_pc' \in {"settle", "cycle"}
      PROVE  (next_index = 0 \/ Work)'
  <2>1. CASE ctrl_pc = "gen"
    <3>1. start_generator /\ end_reducer!AllEnded
      BY <2>1 DEF PhaseInv, LineInv, RestInv
    <3>2. gen_pc = "idle" /\ gen_state = "IDLE"
      BY <3>1 DEF DispatchInv, GeneratorInv, end_reducer!AllEnded
    <3>3. gen_state' = "GENERATE"
      BY <3>1, <3>2 DEF Edge, generator!generate, generator!Idle, generator!Enter,
                        generator!Choose, generator!Withdraw
    <3> QED BY <3>3 DEF Work
  <2>2. CASE ctrl_pc \in {"settle", "cycle"}
    <3>1. ~next_memory_transmit
      BY <2>2 DEF PhaseInv, CloneInv
    <3> QED BY <1>4, <2>2, <3>1, WorkGoesOn DEF CursorInv
  <2> QED BY <1>1, <1>2, <1>5, <2>1, <2>2 DEF Moves
<1>6. ASSUME ctrl_pc' \in {"clear", "clone"}
      PROVE  next_index' = 0
  <2>1. CASE ctrl_pc = "cycle"
    <3>1. end_reducer!AllEnded
      BY <1>1, <1>6, <2>1 DEF Moves, DispatchInv
    <3>2. ~Work
      BY <3>1 DEF Work, DispatchInv, GeneratorInv, UnitInv, end_reducer!AllEnded,
                  end_reducer!PC, PC
    <3> QED BY <1>4, <2>1, <3>2 DEF CursorInv
  <2>2. CASE ctrl_pc = "clear"
    BY <1>4, <2>2 DEF CursorInv
  <2> QED BY <1>1, <1>2, <1>6, <2>1, <2>2 DEF Moves
<1> QED BY <1>3, <1>5, <1>6 DEF CursorInv

(* The layer stays selected until the controller has the next one.         *)
LEMMA StepLayer ==
  ASSUME TypeOK, PhaseInv, LayerInv, Edge
  PROVE  LayerInv'
<1>1. Moves
  BY ControllerSteps DEF PhaseInv, Edge
<1>2. ctrl_pc \in {"idle", "read", "save", "next", "gen", "settle", "cycle",
                   "clear", "clone", "cloned"}
  BY DEF TypeOK, controller!TypeOK
<1>3. /\ layers_index \in Nat
      /\ layers_index' = IF next_layer THEN layers_index + 1 ELSE layers_index
  BY DEF TypeOK, layers_storage!TypeOK, Edge, layers_storage!Edge,
         layers_storage!next_element
<1>4. ASSUME ctrl_pc' \in {"gen", "settle", "cycle", "clear", "clone", "cloned"}
      PROVE  layers_index' >= 1
  <2>1. CASE ctrl_pc = "next"
    BY <1>3, <2>1 DEF PhaseInv, LineInv
  <2>2. CASE ctrl_pc # "next"
    BY <1>1, <1>2, <1>3, <1>4, <2>2 DEF Moves, LayerInv
  <2> QED BY <2>1, <2>2
<1> QED BY <1>4 DEF LayerInv

(* A layer's size does not change from the cycle to the end of its copy.   *)
LEMMA SizeKept ==
  ASSUME TypeOK, PhaseInv, Edge,
         ctrl_pc \in {"settle", "cycle", "clear", "clone", "cloned"}
  PROVE  data_layer' = data_layer
<1>1. ~next_layer /\ addr_io_bus = 0
  BY AfterStart DEF PhaseInv, LineInv, Started
<1>2. UNCHANGED <<layers_index, layers_memory>>
  BY <1>1 DEF Edge, layers_storage!Edge, layers_storage!next_element,
              layers_storage!add_to_queue
<1> QED BY <1>2 DEF Edge, layers_storage!Edge, layers_storage!issue_element,
                    layers_storage!Element, SizeAt, PhaseInv, SizeInv

(* What a step of the copy does to the memory copied to.                   *)
LEMMA CopyTarget ==
  ASSUME TypeOK, PhaseInv, Edge, Started
  PROVE  prev_memory' =
           IF clr_prev_layer_ctrl_mem_bus THEN << >>
           ELSE IF wr_to_mem_from_mem_ctrl_mem_bus
             THEN Append(prev_memory, data_from_now_layer_to_next_layer)
             ELSE prev_memory
<1>1. addr_io_bus = 0
  BY AfterStart
<1>2. ~(clr_prev_layer_ctrl_mem_bus /\ wr_to_mem_from_mem_ctrl_mem_bus)
  BY DEF PhaseInv, CloneInv
<1> QED BY <1>1, <1>2 DEF Edge, PreviousLayerEdge, previous_layer!add_to_mem_and_clear,
          previous_layer!Added, previous_layer!Cleared, previous_layer!Push

(* Outside a cycle NEXT_LAYER is left alone, and only read.                *)
LEMMA CopySource ==
  ASSUME TypeOK, DispatchInv, PhaseInv, Edge, ctrl_pc \notin {"settle", "cycle"}
  PROVE  /\ next_memory' = next_memory
         /\ next_index' = IF next_memory_transmit THEN next_index + 1 ELSE next_index
         /\ next_memory_transmit /\ next_index \in 0 .. MEM_SIZE - 1 =>
              data_from_now_layer_to_next_layer' = next_memory[next_index]
<1>1. \A p \in PC : ~resmem_w_bus[p]
  <2> SUFFICES ASSUME NEW p \in PC, resmem_w_bus[p]
               PROVE  FALSE
    OBVIOUS
  <2>1. Busy(p)
    BY DEF DispatchInv, UnitInv, Busy
  <2> QED BY <2>1, WorkOnlyInCycle DEF PhaseInv
<1>2. DOMAIN next_memory = 0 .. MEM_SIZE - 1
  BY DEF TypeOK, next_layer_mem!TypeOK
<1>3. next_memory \in [0 .. MEM_SIZE - 1 -> Number]
  BY Numbers DEF TypeOK, next_layer_mem!TypeOK
<1>4. \A a : next_layer_mem!Writers(a) = {}
  BY <1>1 DEF next_layer_mem!Writers, next_layer_mem!PC, PC
<1>5. next_memory' = next_memory
  BY <1>3, <1>4 DEF Edge, next_layer_mem!Edge, next_layer_mem!add_to_memory,
                    next_layer_mem!Written
<1>6. next_layer_mem!Rewound(next_index) = next_index
      /\ next_layer_mem!Rewound(next_index + 1) = next_index + 1
  BY <1>1 DEF next_layer_mem!Rewound, next_layer_mem!PC, PC
<1> QED BY <1>2, <1>5, <1>6 DEF Edge, next_layer_mem!Edge,
                                next_layer_mem!issue_element, next_layer_mem!Issue

(* As many words are in PREVIOUS_LAYER as have been copied.                *)
LEMMA CopiedLength ==
  ASSUME TypeOK, NEW n \in Nat, prev_memory = Copied(n)
  PROVE  Len(prev_memory) = n
<1>1. prev_memory \in Seq(Number)
  BY Numbers DEF TypeOK, previous_layer!TypeOK
<1>2. Len(prev_memory) \in Nat /\ DOMAIN prev_memory = 1 .. Len(prev_memory)
  BY <1>1
<1>3. 1 .. Len(prev_memory) = 1 .. n
  BY <1>2 DEF Copied
<1>4. \A m \in Nat : 1 .. m = 1 .. n => m = n
  <2> SUFFICES ASSUME NEW m \in Nat, 1 .. m = 1 .. n PROVE m = n
    OBVIOUS
  <2>1. (m \in 1 .. m \/ m = 0) /\ (n \in 1 .. n \/ n = 0)
    OBVIOUS
  <2> QED BY <2>1
<1> QED BY <1>2, <1>3, <1>4

(* One word more in PREVIOUS_LAYER.                                        *)
LEMMA OneMore ==
  ASSUME TypeOK, NEW n \in Nat, prev_memory = Copied(n)
  PROVE  Append(prev_memory, next_memory[n]) = Copied(n + 1)
<1>1. prev_memory \in Seq(Number) /\ Len(prev_memory) = n
  BY CopiedLength, Numbers DEF TypeOK, previous_layer!TypeOK
<1> QED BY <1>1 DEF Copied

(* The stages of the copy move together.                                   *)
LEMMA StepPipeline ==
  ASSUME TypeOK, DispatchInv, PhaseInv, CursorInv, LayerInv, PipelineInv, Edge
  PROVE  PipelineInv'
<1> DEFINE i == plc_i
           S == data_layer
<1>1. Moves
  BY ControllerSteps DEF PhaseInv, Edge
<1>2. /\ i \in Nat /\ S \in Int /\ MEM_SIZE \in Nat \ {0} /\ next_index \in Nat
      /\ wr_to_mem_from_mem_ctrl_mem_bus \in BOOLEAN /\ next_memory_transmit \in BOOLEAN
  BY ConfigAssumption DEF TypeOK, previous_layer_controller!TypeOK,
     layers_storage!TypeOK, next_layer_mem!TypeOK
<1>3. ctrl_pc' = "clone" => clr_prev_layer_ctrl_mem_bus'
  <2>1. ctrl_pc' = "clone" => ctrl_pc = "clear"
    BY <1>1 DEF Moves, TypeOK, controller!TypeOK
  <2> QED BY <2>1 DEF PhaseInv, LineInv, Edge, previous_layer_controller!Edge,
                      previous_layer_controller!clear
<1> HIDE DEF i, S
<1>4. CASE previous_layer_controller!AwaitStart
  BY <1>3, <1>4 DEF previous_layer_controller!AwaitStart, PipelineInv
<1>5. CASE previous_layer_controller!BeginCopy
  <2>1. ctrl_pc = "clone" /\ plc_pc = "idle"
    BY <1>5 DEF previous_layer_controller!BeginCopy, PhaseInv, LineInv
  <2>2. ~wr_to_mem_from_mem_ctrl_mem_bus /\ ~next_memory_transmit
        /\ ~end_clone_controller_bus
    BY <2>1 DEF PhaseInv, CloneInv
  <2>3. next_index' = 0
    BY <2>1, <2>2, CopySource DEF CursorInv
  <2>4. prev_memory' = << >>
    BY <2>1, CopyTarget DEF PipelineInv, Started
  <2>5. plc_i' = 0 /\ next_memory_transmit' = TRUE
        /\ wr_to_mem_from_mem_ctrl_mem_bus' = FALSE
        /\ end_clone_controller_bus' = FALSE
    BY <1>2, <1>5, <2>2 DEF previous_layer_controller!BeginCopy, PhaseInv, CloneInv,
          TypeOK, previous_layer_controller!TypeOK
  <2>6. plc_pc' = "copy" /\ ~(plc_i' > 0)
    BY <1>5, <2>5 DEF previous_layer_controller!BeginCopy
  <2> HIDE DEF i, S
  <2> QED BY <1>3, <2>3, <2>4, <2>5, <2>6 DEF PipelineInv
<1>6. CASE plc_pc = "copy"
  <2>1. ctrl_pc = "cloned" /\ ~end_clone_controller_bus /\ ~clr_prev_layer_ctrl_mem_bus
    BY <1>6 DEF PhaseInv, CloneInv
  <2>2. S' = S
    BY <2>1, SizeKept DEF S
  <2>3. /\ next_memory_transmit <=> i = 0 \/ i < S
        /\ wr_to_mem_from_mem_ctrl_mem_bus <=> i > 0
        /\ next_index = i
        /\ i > 0 => i <= S
    BY <1>6 DEF PipelineInv, i, S
  <2>4. next_memory' = next_memory
        /\ next_index' = IF next_memory_transmit THEN i + 1 ELSE i
    BY <2>1, <2>3, CopySource
  <2>5. ASSUME S <= MEM_SIZE
        PROVE  /\ prev_memory' = Copied(i)
               /\ i < S => data_from_now_layer_to_next_layer' = next_memory[i]
    <3>1. i < S => data_from_now_layer_to_next_layer' = next_memory[i]
      <4>1. i < S => next_index \in 0 .. MEM_SIZE - 1
        BY <1>2, <2>3, <2>5
      <4> QED BY <2>1, <2>3, <4>1, CopySource
    <3>2. CASE i = 0
      <4>1. prev_memory' = << >>
        <5>1. ~wr_to_mem_from_mem_ctrl_mem_bus /\ prev_memory = << >>
          BY <1>6, <2>3, <3>2 DEF PipelineInv, i
        <5> QED BY <2>1, <5>1, CopyTarget DEF Started
      <4>2. Copied(0) = << >>
        BY DEF Copied
      <4> QED BY <3>1, <3>2, <4>1, <4>2
    <3>3. CASE i > 0
      <4>1. prev_memory = Copied(i - 1) /\ data_from_now_layer_to_next_layer = next_memory[i - 1]
        BY <1>6, <2>5, <3>3 DEF PipelineInv, i, S
      <4>2. prev_memory' = Append(prev_memory, next_memory[i - 1])
        BY <2>1, <2>3, <3>3, <4>1, CopyTarget DEF Started
      <4>3. i - 1 \in Nat /\ (i - 1) + 1 = i
        BY <1>2, <3>3
      <4>4. prev_memory' = Copied((i - 1) + 1)
        BY <4>1, <4>2, <4>3, OneMore
      <4> QED BY <3>1, <4>3, <4>4
    <3> QED BY <1>2, <3>2, <3>3
  <2>6. CASE previous_layer_controller!CopyWord
    <3>1. /\ i < S /\ plc_i' = i + 1
          /\ next_memory_transmit' <=> i # S - 1
          /\ wr_to_mem_from_mem_ctrl_mem_bus' = TRUE
          /\ end_clone_controller_bus' = FALSE
      BY <2>1, <2>6 DEF previous_layer_controller!CopyWord, i, S, TypeOK,
                        previous_layer_controller!TypeOK
    <3>2. next_index' = i + 1
      BY <1>2, <2>3, <2>4, <3>1
    <3>3. (i # S - 1 <=> i + 1 < S) /\ i + 1 <= S /\ i + 1 > 0 /\ i + 1 # 0
          /\ (i + 1) - 1 = i
      BY <1>2, <3>1
    <3>4. data_layer' = S
      BY <2>2 DEF S
    <3>5. S <= MEM_SIZE =>
            /\ data_from_now_layer_to_next_layer' = next_memory'[plc_i' - 1]
            /\ prev_memory' = Copied(plc_i - 1)'
      <4>1. plc_i' - 1 = i
        BY <3>1, <3>3
      <4> QED BY <2>4, <2>5, <3>1, <4>1 DEF Copied
    <3>6. /\ plc_i' > 0 /\ plc_i' # 0
          /\ plc_i' <= data_layer' /\ next_index' = plc_i'
          /\ next_memory_transmit' <=> plc_i' < data_layer'
      BY <1>2, <3>1, <3>2, <3>3, <3>4
    <3> QED BY <1>3, <2>2, <3>1, <3>5, <3>6 DEF PipelineInv, S
  <2>7. CASE previous_layer_controller!EndCopy
    <3>1. i >= S /\ plc_pc' = "idle"
      BY <2>7 DEF previous_layer_controller!EndCopy, i, S
    <3>2. S <= MEM_SIZE => prev_memory' = Copied(data_layer)'
      <4>1. Copied(i) = Copied(S)
        <5>1. 1 .. i = 1 .. S
          BY <1>2, <2>3, <3>1
        <5> QED BY <5>1 DEF Copied
      <4>2. Copied(data_layer)' = Copied(S)
        BY <2>2, <2>4 DEF Copied, S
      <4> QED BY <2>5, <4>1, <4>2
    <3> QED BY <1>3, <2>2, <3>1, <3>2 DEF PipelineInv, S
  <2> QED BY <1>6, <2>6, <2>7 DEF Edge, previous_layer_controller!Edge,
        previous_layer_controller!copy_memory, previous_layer_controller!AwaitStart,
        previous_layer_controller!BeginCopy
<1> QED BY <1>4, <1>5, <1>6 DEF Edge, previous_layer_controller!Edge,
      previous_layer_controller!copy_memory, previous_layer_controller!CopyWord,
      previous_layer_controller!EndCopy

(* What a unit holds after an edge it held before, or had on the bus.      *)
LEMMA UnitNumbers ==
  ASSUME TypeOK, DispatchInv, processors!Edge, NEW p \in PC, NEW L,
         gen_write => gen_data \in L,
         \A k \in DOMAIN pu_queue[p] : pu_queue[p][k] \in L,
         Busy(p) => pu_number_of_nn[p] \in L,
         resmem_w_bus[p] => resmem_addr_bus[p] \in L
  PROVE  /\ \A k \in DOMAIN pu_queue'[p] : pu_queue'[p][k] \in L
         /\ Busy(p)' => pu_number_of_nn'[p] \in L
         /\ resmem_w_bus'[p] => resmem_addr_bus'[p] \in L
<1> USE DEF processors!PC, PC
<1> DEFINE q == processors!Pushed(p)
<1>1. q \in Seq(Nat) /\ \A k \in DOMAIN q : q[k] \in L
  <2>1. pu_queue[p] \in Seq(Nat) /\ gen_data \in Nat
    BY DEF TypeOK, processors!TypeOK, generator!TypeOK
  <2>2. CASE processors!Accepts(p)
    <3>1. q = Append(pu_queue[p], gen_data) /\ gen_data \in L
      BY <2>2 DEF processors!Pushed, processors!Accepts
    <3> QED BY <2>1, <3>1
  <2>3. CASE ~processors!Accepts(p)
    BY <2>1, <2>3 DEF processors!Pushed
  <2> QED BY <2>2, <2>3
<1>2. pu_queue'[p] = IF processors!Takes(p) THEN Tail(q) ELSE q
  BY QueueAfter
<1>3. processors!Takes(p) => q # << >>
  BY DEF processors!Takes
<1>4. /\ pu_number_of_nn'[p] = IF processors!Takes(p) THEN Head(q) ELSE pu_number_of_nn[p]
      /\ pu_pc'[p] = processors!NextPc(p)
      /\ resmem_w_bus'[p] = (pu_pc[p] = "bias2" \/ (resmem_w_bus[p] /\ pu_pc[p] # "store"))
      /\ resmem_addr_bus'[p] = IF pu_pc[p] = "bias2" THEN pu_number_of_nn[p]
                                                   ELSE resmem_addr_bus[p]
  BY DEF processors!Edge, processors!process, processors!Neuron, processors!Finishes
<1> HIDE DEF q
<1>5. \A k \in DOMAIN pu_queue'[p] : pu_queue'[p][k] \in L
  BY <1>1, <1>2, <1>3
<1>6. ASSUME Busy(p)'
      PROVE  pu_number_of_nn'[p] \in L
  <2>1. CASE processors!Takes(p)
    BY <1>1, <1>3, <1>4, <2>1
  <2>2. CASE ~processors!Takes(p)
    <3>1. Busy(p)
      BY <1>4, <1>6, <2>2 DEF Busy, processors!NextPc, processors!AtHead
    <3> QED BY <1>4, <2>2, <3>1
  <2> QED BY <2>1, <2>2
<1>7. resmem_w_bus'[p] => resmem_addr_bus'[p] \in L
  BY <1>4 DEF Busy
<1> QED BY <1>5, <1>6, <1>7

(* No number outside the layer is ever handed out.                         *)
LEMMA StepNumbers ==
  ASSUME TypeOK, DispatchInv, DispatchInv', PhaseInv, RestInv', NumbersInv, Edge
  PROVE  NumbersInv'
<1>1. Moves
  BY ControllerSteps DEF PhaseInv, Edge
<1>2. ctrl_pc \in {"idle", "read", "save", "next", "gen", "settle", "cycle",
                   "clear", "clone", "cloned"}
  BY DEF TypeOK, controller!TypeOK
<1> SUFFICES ASSUME ctrl_pc' \in {"settle", "cycle"}
             PROVE  /\ gen_state' = "GENERATE" => InLayer(gen_counter)'
                    /\ gen_write' => InLayer(gen_data)'
                    /\ \A p \in PC :
                         /\ \A k \in DOMAIN pu_queue'[p] : InLayer(pu_queue[p][k])'
                         /\ Busy(p)' => InLayer(pu_number_of_nn[p])'
                         /\ resmem_w_bus'[p] => InLayer(resmem_addr_bus[p])'
  <2>1. gen_pc' = "choose" => gen_state' = "GENERATE"
    BY DEF Edge, generator!generate, generator!Idle, generator!Enter,
           generator!Choose, generator!Withdraw
  <2> QED BY <2>1 DEF NumbersInv
<1> DEFINE L == {n \in Nat : n = 0 \/ n < data_layer'}
<1>3. \A n \in Nat : n \in L <=> n = 0 \/ n < data_layer'
  OBVIOUS
<1>4. /\ gen_write => gen_data \in L
      /\ \A p \in PC :
           /\ \A k \in DOMAIN pu_queue[p] : pu_queue[p][k] \in L
           /\ Busy(p) => pu_number_of_nn[p] \in L
           /\ resmem_w_bus[p] => resmem_addr_bus[p] \in L
      /\ (gen_state' = "GENERATE" => gen_counter' \in L)
      /\ (gen_write' => gen_data' \in L)
  <2>1. CASE ctrl_pc = "gen"
    <3>1. end_reducer!AllEnded
      BY <2>1 DEF PhaseInv, RestInv
    <3>2. gen_counter' = 0 /\ ~gen_write'
      BY <3>1, AtRest DEF Edge, generator!generate, generator!Idle, generator!Enter,
                          generator!Choose, generator!Withdraw
    <3> QED BY <3>1, <3>2, AtRest
  <2>2. CASE ctrl_pc \in {"settle", "cycle"}
    <3>1. data_layer' = data_layer
      BY <2>2, CycleKeepsInputs
    <3>2. /\ gen_data \in Nat /\ gen_counter \in Nat /\ data_layer \in Int
          /\ \A p \in PC :
               /\ pu_queue[p] \in Seq(Nat)
               /\ pu_number_of_nn[p] \in Nat /\ resmem_addr_bus[p] \in Nat
      BY DEF TypeOK, generator!TypeOK, processors!TypeOK, layers_storage!TypeOK,
             processors!PC, PC
    <3>3. /\ gen_write => gen_data \in L
          /\ \A p \in PC :
               /\ \A k \in DOMAIN pu_queue[p] : pu_queue[p][k] \in L
               /\ Busy(p) => pu_number_of_nn[p] \in L
               /\ resmem_w_bus[p] => resmem_addr_bus[p] \in L
          /\ gen_state = "GENERATE" => gen_counter \in L
      BY <2>2, <3>1, <3>2 DEF NumbersInv, InLayer
    <3>4. /\ gen_state' = "GENERATE" => gen_counter' \in L
          /\ gen_write' => gen_data' \in L
      <4>1. CASE generator!Idle
        BY <4>1 DEF generator!Idle
      <4>2. CASE generator!Enter \/ generator!Withdraw
        BY <3>3, <4>2 DEF generator!Enter, generator!Withdraw
      <4>3. ASSUME NEW p \in PC, generator!Choose(p)
            PROVE  /\ gen_state' = "GENERATE" => gen_counter' \in L
                   /\ gen_write' => gen_data' \in L
        <5>1. gen_counter \in L
          BY <3>3, <4>3 DEF generator!Choose, NumbersInv
        <5>2. gen_counter + 1 < data_layer => gen_counter + 1 \in L
          BY <3>1, <3>2
        <5> QED BY <3>2, <3>3, <4>3, <5>1, <5>2 DEF generator!Choose
      <4> QED BY <4>1, <4>2, <4>3 DEF Edge, generator!generate, generator!PC, PC
    <3> QED BY <3>3, <3>4
  <2> QED BY <1>1, <1>2, <2>1, <2>2 DEF Moves
<1> HIDE DEF L
<1>5. ASSUME NEW p \in PC
      PROVE  /\ \A k \in DOMAIN pu_queue'[p] : pu_queue'[p][k] \in L
             /\ Busy(p)' => pu_number_of_nn'[p] \in L
             /\ resmem_w_bus'[p] => resmem_addr_bus'[p] \in L
  BY <1>4, UnitNumbers DEF Edge
<1>6. \A n \in L : n = 0 \/ n < data_layer'
  BY DEF L
<1> QED BY <1>4, <1>5, <1>6 DEF InLayer

----------------------------------------------------------------------------
(* The invariant of the copy holds before the first edge.                  *)
LEMMA InitCopy == Init => CopyInv
<1> SUFFICES ASSUME Init PROVE CopyInv
  OBVIOUS
<1> USE DEF Init
<1>1. ctrl_pc = "idle" /\ plc_pc = "idle" /\ ~end_clone_controller_bus
  BY DEF controller!Init, previous_layer_controller!Init
<1>2. gen_pc = "idle" /\ \A p \in PC : pu_pc[p] = "idle"
  BY DEF generator!Init, processors!Init, processors!All, processors!PC, PC
<1> QED BY <1>1, <1>2 DEF CopyInv, CursorInv, PipelineInv, LayerInv, NumbersInv

(* Every step keeps the invariant of the copy.                             *)
LEMMA StepCopy ==
  ASSUME TypeOK, DispatchInv, DispatchInv', PhaseInv, PhaseInv', CopyInv, [Next]_vars
  PROVE  CopyInv'
<1>1. CASE Edge
  BY <1>1, StepCursor, StepPipeline, StepLayer, StepNumbers DEF CopyInv, PhaseInv
<1>2. CASE Abort \/ Over \/ UNCHANGED vars
  <2>1. UNCHANGED <<ctrlVars, storeVars, prevVars, plcVars, genVars, puVars, nextVars>>
    BY <1>2 DEF Abort, Over, vars
  <2>2. CursorInv' /\ LayerInv' /\ NumbersInv'
    BY <2>1 DEF CopyInv, CursorInv, LayerInv, NumbersInv, Work, Busy, InLayer, SizeAt,
                ctrlVars, storeVars, genVars, puVars, nextVars
  <2>3. PipelineInv'
    BY <2>1 DEF CopyInv, PipelineInv, Copied, ctrlVars, storeVars, prevVars, plcVars,
                nextVars
  <2> QED BY <2>2, <2>3 DEF CopyInv
<1> QED BY <1>1, <1>2 DEF Next

(***************************************************************************)
(* The cursor, the stages of the copy and the numbers in flight are as     *)
(* described at every edge, for every network.                             *)
(***************************************************************************)
THEOREM CopyInvariant == Spec => []CopyInv
<1> QED BY TypeCorrect, DispatchInvariant, PhaseInvariant, InitCopy, StepCopy, PTL
        DEF Spec

(***************************************************************************)
(* A layer that fits NEXT_LAYER is copied word by word in its order, and   *)
(* the end is announced when PREVIOUS_LAYER holds all of it and nothing    *)
(* else, though the three modules only pass one another pulses.            *)
(***************************************************************************)
THEOREM CopyIsAligned == Spec => [](data_layer <= MEM_SIZE => CopyAligned)
<1>1. ASSUME TypeOK, PhaseInv, CopyInv, data_layer <= MEM_SIZE
      PROVE  CopyAligned
  <2>1. ASSUME wr_to_mem_from_mem_ctrl_mem_bus
        PROVE  /\ Len(prev_memory) < data_layer
               /\ data_from_now_layer_to_next_layer = next_memory[Len(prev_memory)]
    <3>1. plc_pc = "copy" /\ plc_i > 0
      BY <1>1, <2>1 DEF PhaseInv, CloneInv, CopyInv, PipelineInv
    <3>2. /\ plc_i <= data_layer
          /\ data_from_now_layer_to_next_layer = next_memory[plc_i - 1]
          /\ prev_memory = Copied(plc_i - 1)
      BY <1>1, <3>1 DEF CopyInv, PipelineInv
    <3>3. plc_i \in Nat /\ data_layer \in Int /\ plc_i - 1 \in Nat
      BY <1>1, <3>1 DEF TypeOK, previous_layer_controller!TypeOK, layers_storage!TypeOK
    <3>4. Len(prev_memory) = plc_i - 1
      BY <1>1, <3>2, <3>3, CopiedLength
    <3> QED BY <3>2, <3>3, <3>4
  <2>2. ASSUME end_clone_controller_bus
        PROVE  prev_memory = [n \in 1 .. data_layer |-> next_memory[n - 1]]
    BY <1>1, <2>2 DEF CopyInv, PipelineInv, Copied
  <2> QED BY <2>1, <2>2 DEF CopyAligned
<1> QED BY <1>1, TypeCorrect, PhaseInvariant, CopyInvariant, PTL

(***************************************************************************)
(* NEXT_LAYER is written and read only inside its memory, in networks      *)
(* whose computed layers fit it, whatever their sizes and their order.     *)
(***************************************************************************)
THEOREM MemoryIsInBounds == Spec => []MemoryInBounds
<1>1. ASSUME TypeOK, DispatchInv, PhaseInv, CopyInv, Fits
      PROVE  /\ \A p \in PC : resmem_w_bus[p] => resmem_addr_bus[p] < MEM_SIZE
             /\ next_memory_transmit => next_index < MEM_SIZE
  <2>1. /\ MEM_SIZE \in Nat \ {0} /\ data_layer \in Int /\ layers_index \in Nat
        /\ layers_memory \in Seq(Int)
    BY <1>1, ConfigAssumption DEF TypeOK, layers_storage!TypeOK
  <2>2. ctrl_pc \in {"settle", "cycle", "cloned"} => data_layer <= MEM_SIZE
    <3> SUFFICES ASSUME ctrl_pc \in {"settle", "cycle", "cloned"}
                 PROVE  data_layer <= MEM_SIZE
      OBVIOUS
    <3>1. data_layer = SizeAt(layers_index) /\ layers_index >= 1
      BY <1>1 DEF CopyInv, LayerInv, PhaseInv, SizeInv
    <3>2. CASE Len(layers_memory) > layers_index
      <4>1. layers_index + 1 \in 2 .. Len(layers_memory)
        BY <2>1, <3>1, <3>2
      <4> QED BY <1>1, <3>1, <3>2, <4>1 DEF Fits, SizeAt
    <3>3. CASE ~(Len(layers_memory) > layers_index)
      BY <2>1, <3>1, <3>3 DEF SizeAt
    <3> QED BY <3>2, <3>3
  <2>3. ASSUME NEW p \in PC, resmem_w_bus[p]
        PROVE  resmem_addr_bus[p] < MEM_SIZE
    <3>1. Busy(p)
      BY <1>1, <2>3 DEF DispatchInv, UnitInv, Busy
    <3>2. ctrl_pc \in {"settle", "cycle"}
      BY <1>1, <3>1, WorkOnlyInCycle DEF PhaseInv
    <3>3. InLayer(resmem_addr_bus[p])
      BY <1>1, <2>3, <3>2 DEF CopyInv, NumbersInv
    <3>4. resmem_addr_bus[p] \in Nat
      BY <1>1 DEF TypeOK, processors!TypeOK, processors!PC, PC
    <3> QED BY <2>1, <2>2, <3>2, <3>3, <3>4 DEF InLayer
  <2>4. ASSUME next_memory_transmit
        PROVE  next_index < MEM_SIZE
    <3>1. plc_pc = "copy" /\ ctrl_pc = "cloned"
      BY <1>1, <2>4 DEF PhaseInv, CloneInv
    <3>2. next_index = plc_i /\ (plc_i = 0 \/ plc_i < data_layer) /\ plc_i \in Nat
      BY <1>1, <2>4, <3>1 DEF CopyInv, PipelineInv, TypeOK,
                              previous_layer_controller!TypeOK
    <3> QED BY <2>1, <2>2, <3>1, <3>2
  <2> QED BY <2>3, <2>4
<1>2. TypeOK /\ DispatchInv /\ PhaseInv /\ CopyInv => MemoryInBounds
  BY <1>1 DEF MemoryInBounds
<1> QED BY <1>2, TypeCorrect, DispatchInvariant, PhaseInvariant, CopyInvariant, PTL
=============================================================================
