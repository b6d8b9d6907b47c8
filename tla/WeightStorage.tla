---------------------------- MODULE WeightStorage ----------------------------
(***************************************************************************)
(* WEIGHT_STORAGE: the weights of the whole network, filled from the IO    *)
(* bus and read by every processing unit on a port of its own.  The two    *)
(* methods share memory and run in either order on an edge.                *)
(***************************************************************************)
EXTENDS Config, FloatTerms

VARIABLES addr_io_bus_i, data_io_bus_i, wr_io_bus_i,
          addr_out_bus_i, data_out_bus_o,
          memory

(* What a unit that puts address a on its port is given.                   *)
Word(m, a) == IF a \in 0 .. Len(m) - 1 THEN m[a + 1] ELSE OfInt(0)

Init ==
  /\ memory = << >>
  /\ data_out_bus_o = [p \in PC |-> OfInt(0)]

add_to_memory ==
  memory' = IF addr_io_bus_i = 3 /\ wr_io_bus_i
              THEN Append(memory, data_io_bus_i) ELSE memory

issue_element ==
  \E m \in {memory, memory'} :
    data_out_bus_o' = [p \in PC |-> Word(m, addr_out_bus_i[p])]

Edge == add_to_memory /\ issue_element

TypeOK ==
  /\ memory \in Seq(Float)
  /\ data_out_bus_o \in [PC -> Float]
=============================================================================
