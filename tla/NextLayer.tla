------------------------------ MODULE NextLayer ------------------------------
(***************************************************************************)
(* NEXT_LAYER: the results of the layer being computed.  The vector has    *)
(* MEM_SIZE words reserved and is only ever indexed, never grown: a word   *)
(* nobody wrote holds whatever the heap held, and an address at or beyond  *)
(* MEM_SIZE is outside the reservation.                                    *)
(***************************************************************************)
EXTENDS Config, FloatTerms

VARIABLES addr_i, data_i, w_i, next_i, data_o, memory, index

Init ==
  /\ memory = [a \in 0 .. MEM_SIZE - 1 |-> Uninit]
  /\ index = 0
  /\ data_o = OfInt(0)

Writers(a) == {p \in PC : w_i[p] /\ addr_i[p] = a}

(* The units are served in the order of their numbers: the last one wins.  *)
Written(m) ==
  [a \in DOMAIN m |->
     IF Writers(a) = {} THEN m[a]
     ELSE data_i[CHOOSE p \in Writers(a) : \A q \in Writers(a) : q <= p]]

RewoundNever(k) == k        \* variant with a bug: the cursor is not reset
Rewound(k) == IF \E p \in PC : w_i[p] THEN 0 ELSE k

add_to_memory == memory' = Written(memory)

(* issue_element, before or after add_to_memory on the same edge           *)
Issue(m, k) ==
  IF next_i THEN IF k \in DOMAIN m THEN m[k] ELSE Uninit ELSE data_o

issue_element ==
  \/ /\ data_o' = Issue(memory, index)
     /\ index' = Rewound(IF next_i THEN index + 1 ELSE index)
  \/ /\ data_o' = Issue(memory', Rewound(index))
     /\ index' = IF next_i THEN Rewound(index) + 1 ELSE Rewound(index)

Edge == add_to_memory /\ issue_element

TypeOK ==
  /\ memory \in [0 .. MEM_SIZE - 1 -> Number]
  /\ index \in Nat
  /\ data_o \in Number
=============================================================================
