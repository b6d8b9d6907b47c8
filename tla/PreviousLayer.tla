---------------------------- MODULE PreviousLayer ----------------------------
(***************************************************************************)
(* PREVIOUS_LAYER: the inputs of the layer being computed.  Filled from    *)
(* the IO bus (the picture) or from NEXT_LAYER (the layer just computed),  *)
(* read by every unit, emptied by clr_i, and at the end put word by word   *)
(* on the IO bus.  Its four methods share memory and index_to_out and run  *)
(* in an unspecified order on an edge.                                     *)
(***************************************************************************)
EXTENDS Config, FloatTerms

VARIABLES addr_io_bus_i, data_io_bus_io, wr_io_bus_io,
          wr_to_memory_from_mem_i, wr_to_out_i, clr_i,
          addr_PC_bus_i, data_PC_bus_o, data_mem_bus_i,
          memory, index_to_out

(* What a unit that puts address a on its port is given.                   *)
WordOrZero(m, a) ==      \* variant with a bug: the default of the other store
  IF a \in 0 .. Len(m) - 1 THEN m[a + 1] ELSE OfInt(0)
Word(m, a) == IF a \in 0 .. Len(m) - 1 THEN m[a + 1] ELSE OfInt(-1)

Init ==
  /\ memory = << >>
  /\ index_to_out = 0
  /\ data_PC_bus_o = [p \in PC |-> OfInt(-1)]   \* issued by the initialization phase

Push(m, on, v) == IF on THEN Append(m, v) ELSE m

Added(m) == Push(Push(m, wr_io_bus_io /\ addr_io_bus_i = 2, data_io_bus_io),
                 wr_to_memory_from_mem_i, data_mem_bus_i)

Cleared(m) == IF clr_i THEN << >> ELSE m

(***************************************************************************)
(* add_to_mem and clear in either order, and the memories a method that    *)
(* runs before, between or after them can see.                             *)
(***************************************************************************)
add_to_mem_and_clear == memory' \in {Cleared(Added(memory)), Added(Cleared(memory))}

Views   == {memory, Added(memory), Cleared(memory), memory'}
Indices == {index_to_out, IF clr_i THEN 0 ELSE index_to_out}

issue_element_PC ==
  \E m \in Views : data_PC_bus_o' = [p \in PC |-> Word(m, addr_PC_bus_i[p])]

(***************************************************************************)
(* With the memory m and the index k it sees, issue_element_IO either      *)
(* drives the bus or, past the last word, stops the simulation.            *)
(***************************************************************************)
Drives(m, k) == wr_to_out_i /\ Len(m) > k
Stops(m, k)  == wr_to_out_i /\ Len(m) <= k

issue_element_IO(m, k) ==
  \/ /\ Drives(m, k)
     /\ data_io_bus_io' = m[k + 1]
     /\ wr_io_bus_io' = TRUE
     /\ index_to_out' \in {k + 1, IF clr_i THEN 0 ELSE k + 1}
  \/ /\ ~Drives(m, k)
     /\ index_to_out' = IF clr_i THEN 0 ELSE k

Edge(m, k) == issue_element_IO(m, k) /\ issue_element_PC

TypeOK ==
  /\ memory \in Seq(Number)
  /\ index_to_out \in Nat
  /\ data_PC_bus_o \in [PC -> Float]
=============================================================================
