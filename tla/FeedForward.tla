----------------------------- MODULE FeedForward -----------------------------
(***************************************************************************)
(* What the accelerator promises, with no clock, bus, unit or queue: the   *)
(* layers of the network are computed one after the other, the whole layer *)
(* at once, then the words of the last one are printed in order and the    *)
(* simulation stops.  A neuron is the sigmoid of its inputs multiplied by  *)
(* its weights and added up from the first to the last, then its bias.     *)
(***************************************************************************)
EXTENDS NetworkFiles

CONSTANT Inputs

VARIABLES files,
          layer,       \* number of the layer whose activations are in acts
          acts,
          printed,
          status       \* "running", "stopped" or "aborted"

vars == <<files, layer, acts, printed, status>>

(* A layer the files say nothing of has no neurons.                        *)
Size(l) == IF l <= LayersCount(files.config) THEN LayerSizes(files.config)[l] ELSE 0

(* Position in the weight list of the weights of layer l (l > 1).          *)
Base[l \in Nat] ==
  IF l <= 2 THEN 0 ELSE Base[l - 1] + (Size(l - 2) + 1) * Size(l - 1)

(* Inputs and weights the files fail to provide are read as -1 and 0.      *)
Activation(k) == IF k \in 0 .. Len(acts) - 1 THEN acts[k + 1] ELSE OfInt(-1)
WeightAt(k) ==
  LET ws == Weights(files.config)
  IN  IF k \in 0 .. Len(ws) - 1 THEN ws[k + 1] ELSE OfInt(0)

(* Sums of the first k products, with weights from position first on.      *)
Sums(first) ==
  LET sum[k \in Nat] ==
        IF k = 0 THEN OfInt(0)
        ELSE Mac(sum[k - 1], Activation(k - 1), WeightAt(first + k - 1))
  IN  sum

(* Neuron n, counted from 0, of the layer after the current one.           *)
Neuron(n) ==
  LET first == Base[layer + 1] + (Size(layer) + 1) * n
  IN  sigmoid(AddBias(Sums(first)[Size(layer)], WeightAt(first + Size(layer))))

Computed == layer >= LayersCount(files.config)

Init ==
  /\ files \in Inputs
  /\ layer = 1
  /\ acts = files.picture
  /\ printed = << >>
  /\ status = "running"

Compute ==
  /\ status = "running" /\ files.opened
  /\ ~Computed
  /\ layer' = layer + 1
  /\ acts' = [n \in 1 .. Size(layer + 1) |-> Neuron(n - 1)]
  /\ UNCHANGED <<files, printed, status>>

(* The simulation may stop together with the last print.                   *)
PrintWord ==
  /\ status = "running" /\ files.opened
  /\ Computed
  /\ Len(printed) < Len(acts)
  /\ printed' = Append(printed, acts[Len(printed) + 1])
  /\ status' \in {"running"} \union
                 (IF Len(printed') = Len(acts) THEN {"stopped"} ELSE {})
  /\ UNCHANGED <<files, layer, acts>>

Finish ==
  /\ status = "running" /\ files.opened
  /\ Computed
  /\ Len(printed) = Len(acts)
  /\ status' = "stopped"
  /\ UNCHANGED <<files, layer, acts, printed>>

(* A file cannot be opened: nothing is computed, nothing is printed.       *)
Abort ==
  /\ status = "running" /\ ~files.opened
  /\ status' = "aborted"
  /\ UNCHANGED <<files, layer, acts, printed>>

Next == Compute \/ PrintWord \/ Finish \/ Abort

Safety == Init /\ [][Next]_vars

Spec == Safety /\ WF_vars(Next)
=============================================================================
