---------------------------- MODULE MCAccelerator ----------------------------
EXTENDS AcceleratorProperties

(* The files of a network with the given layer sizes, w weights, d pixels. *)
Files(sizes, w, d) ==
  [opened  |-> TRUE,
   config  |-> <<OfInt(Len(sizes))>> \o [k \in DOMAIN sizes |-> OfInt(sizes[k])]
                 \o [k \in 1 .. w |-> Weight(k)],
   picture |-> [k \in 1 .. d |-> Pixel(k)]]

WeightCount[sizes \in Seq(Nat)] ==
  IF Len(sizes) < 2 THEN 0
  ELSE (sizes[1] + 1) * sizes[2] + WeightCount[Tail(sizes)]

WellFormed(sizes) == Files(sizes, WeightCount[sizes], sizes[1])

(* Every network of one to four layers of one to three neurons             *)
SmallNetworks == {WellFormed(s) : s \in UNION {[1 .. n -> 1 .. 3] : n \in 1 .. 4}}

(* Layers wider than the queues together                                   *)
WideNetworks == {WellFormed(s) : s \in {<<1, 8>>, <<2, 6>>, <<3, 9, 2>>, <<2, 5, 3, 4>>}}

(* Enough neurons for the lengths of three queues to drift apart           *)
BalanceNetworks == {WellFormed(s) : s \in {<<9, 12>>, <<1, 12, 3>>, <<3, 12, 2>>, <<0, 12>>}}

(* Files that are missing, empty, or shorter than the network needs        *)
OddFiles ==
  {[WellFormed(<<2, 2>>) EXCEPT !.opened = FALSE],
   [opened |-> TRUE, config |-> << >>, picture |-> << >>],
   [opened |-> TRUE, config |-> <<OfInt(3), OfInt(2)>>, picture |-> <<Pixel(1)>>],
   Files(<<2, 3>>, 9, 1), Files(<<2, 3>>, 4, 2), Files(<<2, 3>>, 9, 3),
   WellFormed(<<2, 0, 1>>), WellFormed(<<2, 0>>), WellFormed(<<0, 2>>),
   Files(<<3>>, 0, 3)}
=============================================================================
