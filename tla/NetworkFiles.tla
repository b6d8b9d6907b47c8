---------------------------- MODULE NetworkFiles ----------------------------
(***************************************************************************)
(* loadData: what the program makes of its two input files.  The first     *)
(* number of the config file counts the layers, the next ones are their    *)
(* sizes (0 where the file is too short), and all the others are weights.  *)
(* The picture file is a list of numbers.  A count below zero, for which   *)
(* layers.resize throws, is outside the model.                             *)
(***************************************************************************)
EXTENDS FloatTerms

LayersCount(cfg) == IF cfg = << >> THEN 0 ELSE ToInt(Head(cfg))

LayerSizes(cfg) ==
  [k \in 1 .. LayersCount(cfg) |->
     IF k + 1 <= Len(cfg) THEN ToInt(cfg[k + 1]) ELSE 0]

Weights(cfg) == SubSeq(cfg, LayersCount(cfg) + 2, Len(cfg))
=============================================================================
