------------------------------ MODULE IoModule ------------------------------
(***************************************************************************)
(* IO: reads the two input files, sends their contents over the IO bus,    *)
(* one value per clock edge, and prints what the system later puts on the  *)
(* same bus.  The bus has a second driver (PREVIOUS_LAYER): an action here *)
(* says nothing of the lines the module does not write on that edge.       *)
(***************************************************************************)
EXTENDS NetworkFiles

VARIABLES files,              \* the input files: opened?, their numbers
          addr_o, data_io, wr_io,
          beat,               \* beats write_data_to_system has sent
          transmit,
          results             \* what was printed, in order

(* The program of bus writes of write_data_to_system, one per clock edge.  *)
(* Variant with a bug, to test the properties: addresses counted from one. *)
AtFromOne(a, values) == [k \in DOMAIN values |-> [addr |-> a + 1, data |-> values[k]]]

At(a, values) == [k \in DOMAIN values |-> [addr |-> a, data |-> values[k]]]

SizesAsFloats(cfg) == [k \in 1 .. LayersCount(cfg) |-> OfInt(LayerSizes(cfg)[k])]

(* Variant with a bug: the start command overtakes the data.               *)
BeatsEarlyStart ==
  LET cfg == files.config
  IN  At(0, <<PosInf, OfInt(LayersCount(cfg))>>) \o At(1, SizesAsFloats(cfg))
        \o At(0, <<NegInf>>) \o At(2, files.picture) \o At(3, Weights(cfg))

Beats ==
  LET cfg == files.config
  IN  At(0, <<PosInf, OfInt(LayersCount(cfg))>>) \o At(1, SizesAsFloats(cfg))
        \o At(2, files.picture) \o At(3, Weights(cfg)) \o At(0, <<NegInf>>)

DrivesData == beat < Len(Beats)
DrivesWr   == beat <= Len(Beats)

Init ==
  /\ addr_o = 0
  /\ data_io = OfInt(0)
  /\ wr_io = FALSE
  /\ beat = 0
  /\ transmit = FALSE
  /\ results = << >>

(* A file that cannot be opened ends the program (sc_abort).               *)
LoadFails == beat = 0 /\ ~files.opened

Send ==
  /\ ~LoadFails
  /\ beat < Len(Beats)
  /\ addr_o' = Beats[beat + 1].addr
  /\ data_io' = Beats[beat + 1].data
  /\ wr_io' = TRUE
  /\ beat' = beat + 1
  /\ transmit' = TRUE

Finish ==
  /\ beat = Len(Beats)
  /\ wr_io' = FALSE
  /\ transmit' = FALSE
  /\ beat' = beat + 1
  /\ UNCHANGED addr_o

Ended == beat > Len(Beats) /\ UNCHANGED <<addr_o, beat, transmit>>

write_data_to_system == Send \/ Finish \/ Ended

(* A method: it runs before the thread of the same edge.                   *)
read_data_from_system ==
  results' = IF ~transmit /\ wr_io THEN Append(results, data_io) ELSE results

Edge == read_data_from_system /\ write_data_to_system

TypeOK ==
  /\ addr_o \in 0 .. 3
  /\ data_io \in Float /\ (addr_o # 0 => data_io \in Number)
  /\ wr_io \in BOOLEAN
  /\ beat \in Nat
  /\ transmit \in BOOLEAN
  /\ results \in Seq(Float)
=============================================================================
