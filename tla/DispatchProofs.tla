---------------------------- MODULE DispatchProofs ----------------------------
(***************************************************************************)
(* The dispatch implements the pool of tasks, for any number of units and  *)
(* queue capacity, whatever the sizes of the layers, the times the units   *)
(* take and the moments of the starts.                                     *)
(***************************************************************************)
EXTENDS Dispatch, SequenceTheorems, TLAPS

Types ==
  /\ layer_size \in Int
  /\ ctrl \in {"rest", "gen", "settle", "cycle"}
  /\ generator!TypeOK
  /\ gen_size \in [PC -> Nat]
  /\ contr_empty \in [PC -> BOOLEAN]
  /\ is_working \in [PC -> BOOLEAN]
  /\ queue \in [PC -> Seq(Nat)]
  /\ unit \in [PC -> {"idle", "busy", "store"}]
  /\ number \in [PC -> Nat]
  /\ end_reducer!TypeOK

(***************************************************************************)
(* The generator's thread is where the controller's handshake has brought  *)
(* it, and its end line is up only in its rest.                            *)
(***************************************************************************)
PhaseInv ==
  /\ ctrl \in {"rest", "gen"} => cycle_ended
  /\ (ctrl = "settle") = (gen_pc = "idle" /\ gen_state = "GENERATE")
  /\ gen_pc \in {"choose", "written"} => ctrl = "cycle"
  /\ gen_pc = "choose" => gen_state = "GENERATE"
  /\ gen_end = (gen_pc = "idle" /\ gen_state = "IDLE")
  /\ cycle_ended = end_reducer!AllEnded

Last == IF layer_size > 1 THEN layer_size ELSE 1

InQueue(p) == {queue[p][k] : k \in DOMAIN queue[p]}
With(p)    == InQueue(p) \union (IF unit[p] = "busy" THEN {number[p]} ELSE {})

(***************************************************************************)
(* The number on the bus is the one before the counter, and its queue has  *)
(* room; the units have smaller numbers only, as long as the generator has *)
(* one for them.                                                           *)
(***************************************************************************)
BusInv ==
  /\ gen_write => /\ gen_pc = "written"
                  /\ gen_data = gen_counter - 1
                  /\ Len(queue[gen_address]) < QUEUE_SIZE
                  /\ \A p \in PC : \A n \in With(p) : n < gen_data
  /\ gen_state = "GENERATE" => /\ gen_counter < Last
                               /\ \A p \in PC : \A n \in With(p) : n < gen_counter

(* What a unit reports, and the order in which it has its numbers.         *)
ReportInv(p) ==
  /\ Len(queue[p]) <= gen_size[p]
  /\ is_working[p] = (unit[p] \in {"busy", "store"})
  /\ contr_empty[p] => queue[p] = << >> /\ ~is_working[p]

OrderInv(p) ==
  /\ \A j, k \in DOMAIN queue[p] : j < k => queue[p][j] < queue[p][k]
  /\ unit[p] = "busy" => \A k \in DOMAIN queue[p] : number[p] < queue[p][k]

(* No number is with two units.                                            *)
Apart == \A p, q \in PC : p # q => With(p) \intersect With(q) = {}

TaskInv ==
  /\ Types /\ PhaseInv /\ BusInv /\ Apart
  /\ \A p \in PC : ReportInv(p) /\ OrderInv(p)

LEMMA InitTask == Init => TaskInv
<1> SUFFICES ASSUME Init PROVE TaskInv
  OBVIOUS
<1> USE DEF Init, generator!Init, end_reducer!Init, end_reducer!AllEnded,
            end_reducer!PC, generator!PC, PC
<1>1. Types
  BY ConfigAssumption, SizesAssumption DEF Types, generator!TypeOK, end_reducer!TypeOK
<1>2. PhaseInv
  BY DEF PhaseInv
<1>3. \A p \in PC : queue[p] = << >> /\ With(p) = {}
  BY DEF With, InQueue
<1>4. \A p \in PC : ReportInv(p)
  <2>1. \A p \in PC : Len(queue[p]) = 0 /\ gen_size[p] = 0
    BY <1>3
  <2>2. \A p \in PC : Len(queue[p]) <= gen_size[p]
    BY <2>1
  <2>3. \A p \in PC : is_working[p] = FALSE /\ unit[p] = "idle" /\ queue[p] = << >>
    OBVIOUS
  <2> HIDE DEF Init
  <2>4. ASSUME NEW p \in PC PROVE ReportInv(p)
    <3>1. is_working[p] = FALSE /\ (unit[p] \in {"busy", "store"}) = FALSE
      BY <2>3
    <3>2. is_working[p] = (unit[p] \in {"busy", "store"})
      BY <3>1, Zenon
    <3> QED BY <2>2, <2>3, <3>2 DEF ReportInv
  <2> QED BY <2>4
<1>5. \A p \in PC : OrderInv(p)
  BY <1>3 DEF OrderInv
<1>6. BusInv /\ Apart
  BY <1>3 DEF BusInv, Apart
<1> QED BY <1>1, <1>2, <1>4, <1>5, <1>6 DEF TaskInv

----------------------------------------------------------------------------
(* One unit on one edge                                                    *)

Got(p)   == IF Accepts(p) THEN {gen_data} ELSE {}
Shown(p) == IF unit[p] = "busy" /\ unit'[p] = "store" THEN {number[p]} ELSE {}

(* A unit has in its queue what it had, and what it accepts.               *)
LEMMA PushedIs ==
  ASSUME Types, NEW p \in PC, OrderInv(p), gen_write => \A n \in With(p) : n < gen_data
  PROVE  /\ Pushed(p) \in Seq(Nat)
         /\ {Pushed(p)[k] : k \in DOMAIN Pushed(p)} = InQueue(p) \union Got(p)
         /\ \A j, k \in DOMAIN Pushed(p) : j < k => Pushed(p)[j] < Pushed(p)[k]
         /\ unit[p] = "busy" => \A k \in DOMAIN Pushed(p) : number[p] < Pushed(p)[k]
         /\ ~gen_write => Pushed(p) = queue[p]
         /\ Accepts(p) => Pushed(p) # << >>
         /\ Pushed(p) = << >> => queue[p] = << >>
<1>0. queue[p] \in Seq(Nat) /\ gen_data \in Nat /\ number[p] \in Nat
  BY DEF Types, generator!TypeOK
<1>1. CASE ~Accepts(p)
  <2>1. Pushed(p) = queue[p] /\ Got(p) = {}
    BY <1>1 DEF Pushed, Got
  <2> QED BY <1>0, <1>1, <2>1 DEF InQueue, OrderInv
<1>2. CASE Accepts(p)
  <2> DEFINE q == queue[p]
             n == Len(q)
  <2>1. Pushed(p) = Append(q, gen_data) /\ Got(p) = {gen_data} /\ gen_write
    BY <1>2 DEF Pushed, Got, Accepts
  <2>2. n \in Nat /\ DOMAIN q = 1 .. n
    BY <1>0
  <2>3. /\ Pushed(p) \in Seq(Nat) /\ Pushed(p) # << >>
        /\ DOMAIN Pushed(p) = 1 .. n + 1
        /\ \A k \in 1 .. n : Pushed(p)[k] = q[k]
        /\ Pushed(p)[n + 1] = gen_data
    <3>1. Append(q, gen_data) \in Seq(Nat) /\ Len(Append(q, gen_data)) = n + 1
          /\ \A k \in 1 .. n : Append(q, gen_data)[k] = q[k]
          /\ Append(q, gen_data)[n + 1] = gen_data
      BY <1>0
    <3>2. DOMAIN Append(q, gen_data) = 1 .. n + 1 /\ Append(q, gen_data) # << >>
      BY <1>0, <2>2
    <3> QED BY <2>1, <3>1, <3>2
  <2>4. \A k \in 1 .. n : q[k] \in Nat /\ q[k] < gen_data
    BY <1>0, <2>1, <2>2 DEF With, InQueue
  <2>5. unit[p] = "busy" => number[p] < gen_data
    BY <2>1 DEF With
  <2> HIDE DEF n
  <2>6. \A k \in 1 .. n + 1 : k \in 1 .. n \/ k = n + 1
    BY <2>2
  <2>7. {Pushed(p)[k] : k \in DOMAIN Pushed(p)} = InQueue(p) \union Got(p)
    <3>1. InQueue(p) = {q[k] : k \in 1 .. n}
      BY <2>2 DEF InQueue
    <3>2. 1 .. n + 1 = (1 .. n) \union {n + 1}
      BY <2>2
    <3> HIDE DEF q
    <3> QED BY <2>1, <2>3, <3>1, <3>2
  <2>8. \A j, k \in DOMAIN Pushed(p) : j < k => Pushed(p)[j] < Pushed(p)[k]
    <3> SUFFICES ASSUME NEW j \in 1 .. n + 1, NEW k \in 1 .. n + 1, j < k
                 PROVE  Pushed(p)[j] < Pushed(p)[k]
      BY <2>3
    <3>1. j \in 1 .. n
      BY <2>2
    <3>2. CASE k \in 1 .. n
      BY <2>2, <2>3, <3>1, <3>2 DEF OrderInv
    <3>3. CASE k = n + 1
      BY <2>3, <2>4, <3>1, <3>3
    <3> QED BY <2>6, <3>2, <3>3
  <2>9. unit[p] = "busy" => \A k \in DOMAIN Pushed(p) : number[p] < Pushed(p)[k]
    BY <2>2, <2>3, <2>5, <2>6 DEF OrderInv
  <2> QED BY <2>1, <2>3, <2>7, <2>8, <2>9
<1> QED BY <1>1, <1>2

(* A unit has what it had and what it accepts, but for what it shows.      *)
LEMMA UnitMoves ==
  ASSUME Types, NEW p \in PC, OrderInv(p), gen_write => \A n \in With(p) : n < gen_data,
         NEW done \in SUBSET Computing, process(done)
  PROVE  /\ OrderInv(p)'
         /\ With(p)' = (With(p) \union Got(p)) \ Shown(p)
         /\ unit'[p] = "store" => unit[p] = "busy" /\ number'[p] = number[p]
         /\ Len(queue'[p]) <= Len(Pushed(p)) /\ queue'[p] \in Seq(Nat) /\ number'[p] \in Nat
         /\ unit'[p] \in {"idle", "busy", "store"}
         /\ unit'[p] = "busy" \/ unit'[p] = "store" <=> Takes(p) \/ unit[p] = "busy"
<1> DEFINE P == Pushed(p)
<1>1. /\ P \in Seq(Nat)
      /\ {P[k] : k \in DOMAIN P} = InQueue(p) \union Got(p)
      /\ \A j, k \in DOMAIN P : j < k => P[j] < P[k]
      /\ unit[p] = "busy" => \A k \in DOMAIN P : number[p] < P[k]
  BY PushedIs
<1>2. /\ queue'[p] = IF Takes(p) THEN Tail(P) ELSE P
      /\ number'[p] = IF Takes(p) THEN Head(P) ELSE number[p]
      /\ unit'[p] = IF Takes(p) THEN "busy"
                    ELSE IF unit[p] = "busy" THEN IF p \in done THEN "store" ELSE "busy"
                    ELSE "idle"
  BY DEF process
<1>3. Takes(p) => unit[p] # "busy" /\ P # << >>
  BY DEF Takes
<1>4. number[p] \in Nat /\ unit[p] \in {"idle", "busy", "store"} /\ Len(P) \in Nat
  BY <1>1 DEF Types
<1> HIDE DEF P
<1>5. CASE Takes(p)
  <2>1. /\ queue'[p] = Tail(P) /\ number'[p] = Head(P) /\ unit'[p] = "busy"
        /\ unit[p] # "busy" /\ P # << >>
    BY <1>2, <1>3, <1>5
  <2> DEFINE n == Len(P) - 1
  <2>2. /\ n \in Nat /\ DOMAIN P = 1 .. n + 1 /\ Head(P) = P[1] /\ P[1] \in Nat
        /\ Tail(P) \in Seq(Nat) /\ Len(Tail(P)) = n /\ DOMAIN Tail(P) = 1 .. n
        /\ \A k \in 1 .. n : Tail(P)[k] = P[k + 1]
    BY <1>1, <2>1
  <2> HIDE DEF n
  <2>3. /\ \A k \in 1 .. n : k + 1 \in 1 .. n + 1 /\ 1 < k + 1 /\ k + 1 \in Nat
        /\ \A j, k \in 1 .. n : j < k => j + 1 < k + 1
        /\ \A k \in 1 .. n + 1 : k = 1 \/ (k - 1 \in 1 .. n /\ (k - 1) + 1 = k)
        /\ 1 \in 1 .. n + 1
    BY <2>2
  <2>4. OrderInv(p)'
    <3>1. \A j, k \in 1 .. n : j < k => Tail(P)[j] < Tail(P)[k]
      BY <1>1, <2>2, <2>3
    <3>2. \A k \in 1 .. n : Head(P) < Tail(P)[k]
      BY <1>1, <2>2, <2>3
    <3> QED BY <2>1, <2>2, <3>1, <3>2 DEF OrderInv
  <2>5. With(p)' = {Tail(P)[k] : k \in 1 .. n} \union {P[1]}
    BY <2>1, <2>2 DEF With, InQueue
  <2>6. {Tail(P)[k] : k \in 1 .. n} \union {P[1]} = {P[k] : k \in 1 .. n + 1}
    BY <2>2, <2>3
  <2>7. With(p) = InQueue(p) /\ Shown(p) = {}
    BY <2>1 DEF With, Shown
  <2>8. With(p)' = (With(p) \union Got(p)) \ Shown(p)
    BY <1>1, <2>2, <2>5, <2>6, <2>7
  <2> QED BY <1>4, <1>5, <2>1, <2>2, <2>4, <2>8 DEF P
<1>6. CASE ~Takes(p)
  <2>1. /\ queue'[p] = P /\ number'[p] = number[p]
        /\ unit'[p] = IF unit[p] = "busy" THEN IF p \in done THEN "store" ELSE "busy"
                      ELSE "idle"
    BY <1>2, <1>6
  <2>2. OrderInv(p)'
    <3>1. \A j, k \in DOMAIN queue'[p] : j < k => queue'[p][j] < queue'[p][k]
      BY <1>1, <2>1
    <3>2. unit'[p] = "busy" => unit[p] = "busy"
      BY <2>1
    <3>3. unit'[p] = "busy" => \A k \in DOMAIN queue'[p] : number'[p] < queue'[p][k]
      BY <1>1, <2>1, <3>2
    <3> QED BY <3>1, <3>3 DEF OrderInv
  <2>3. InQueue(p)' = InQueue(p) \union Got(p)
    BY <1>1, <2>1 DEF InQueue
  <2>4. unit[p] = "busy" => number[p] \notin InQueue(p) \union Got(p)
    <3> SUFFICES ASSUME unit[p] = "busy", number[p] \in InQueue(p) \union Got(p) PROVE FALSE
      OBVIOUS
    <3>1. PICK k \in DOMAIN P : P[k] = number[p]
      BY <1>1
    <3> QED BY <1>1, <1>4, <3>1
  <2>5. With(p)' = (With(p) \union Got(p)) \ Shown(p)
    <3>1. With(p)' = InQueue(p)' \union (IF unit'[p] = "busy" THEN {number'[p]} ELSE {})
      BY DEF With
    <3>2. CASE unit[p] = "busy" /\ p \in done
      BY <2>1, <2>3, <2>4, <3>1, <3>2 DEF With, Shown
    <3>3. CASE unit[p] = "busy" /\ p \notin done
      BY <2>1, <2>3, <3>1, <3>3 DEF With, Shown
    <3>4. CASE unit[p] # "busy"
      BY <2>1, <2>3, <3>1, <3>4 DEF With, Shown
    <3> QED BY <3>2, <3>3, <3>4
  <2> QED BY <1>1, <1>4, <1>6, <2>1, <2>2, <2>5 DEF P
<1> QED BY <1>5, <1>6

(* The number on the bus goes to the unit addressed, which has room.       *)
LEMMA Accepted ==
  ASSUME TaskInv, NEW p \in PC
  PROVE  /\ Got(p) = (IF p = gen_address THEN OnBus ELSE {})
         /\ gen_write => \A n \in With(p) : n < gen_data
         /\ ~gen_write => Got(p) = {}
<1>1. gen_write => Len(queue[gen_address]) < QUEUE_SIZE
  BY DEF TaskInv, BusInv
<1> QED BY <1>1 DEF TaskInv, BusInv, Got, Accepts, OnBus

(* When the end is reported nobody has anything to do.                     *)
LEMMA AllAtRest ==
  ASSUME TaskInv, cycle_ended
  PROVE  /\ gen_end /\ gen_pc = "idle" /\ gen_state = "IDLE" /\ ~gen_write
         /\ \A p \in PC : /\ contr_empty[p] /\ queue[p] = << >> /\ unit[p] = "idle"
                           /\ With(p) = {}
<1>1. gen_end /\ \A p \in PC : contr_empty[p]
  BY DEF TaskInv, PhaseInv, end_reducer!AllEnded, end_reducer!PC, PC
<1>2. gen_pc = "idle" /\ gen_state = "IDLE"
  BY <1>1 DEF TaskInv, PhaseInv
<1>3. ~gen_write
  BY <1>2 DEF TaskInv, BusInv
<1>4. ASSUME NEW p \in PC PROVE queue[p] = << >> /\ unit[p] = "idle"
  <2>1. queue[p] = << >> /\ ~is_working[p] /\ is_working[p] = (unit[p] \in {"busy", "store"})
    BY <1>1 DEF TaskInv, ReportInv
  <2>2. unit[p] \in {"idle", "busy", "store"}
    BY DEF TaskInv, Types
  <2> QED BY <2>1, <2>2
<1>5. ASSUME NEW p \in PC PROVE With(p) = {}
  BY <1>4 DEF With, InQueue
<1> QED BY <1>1, <1>2, <1>3, <1>4, <1>5

(* What the units do on an edge.                                           *)
LEMMA UnitsMove ==
  ASSUME TaskInv, Edge, NEW p \in PC
  PROVE  /\ OrderInv(p)' /\ ReportInv(p)'
         /\ With(p)' = (With(p) \union Got(p)) \ Shown(p)
         /\ unit'[p] = "store" => unit[p] = "busy" /\ number'[p] = number[p]
         /\ queue'[p] \in Seq(Nat) /\ number'[p] \in Nat
         /\ unit'[p] \in {"idle", "busy", "store"}
         /\ ~gen_write => Len(queue'[p]) <= Len(queue[p])
<1>1. PICK done \in SUBSET Computing : process(done)
  BY DEF Edge
<1>2. Types /\ OrderInv(p) /\ ReportInv(p) /\ (gen_write => \A n \in With(p) : n < gen_data)
  BY Accepted DEF TaskInv
<1>3. /\ OrderInv(p)'
      /\ With(p)' = (With(p) \union Got(p)) \ Shown(p)
      /\ unit'[p] = "store" => unit[p] = "busy" /\ number'[p] = number[p]
      /\ Len(queue'[p]) <= Len(Pushed(p)) /\ queue'[p] \in Seq(Nat) /\ number'[p] \in Nat
      /\ unit'[p] \in {"idle", "busy", "store"}
      /\ unit'[p] = "busy" \/ unit'[p] = "store" <=> Takes(p) \/ unit[p] = "busy"
  BY <1>1, <1>2, UnitMoves
<1>4. /\ Pushed(p) \in Seq(Nat)
      /\ ~gen_write => Pushed(p) = queue[p]
      /\ Accepts(p) => Pushed(p) # << >>
      /\ Pushed(p) = << >> => queue[p] = << >>
  BY <1>2, PushedIs
<1>5. /\ gen_size'[p] = Len(Pushed(p))
      /\ contr_empty'[p] = IF Pushed(p) = << >> THEN ~is_working[p]
                           ELSE IF Accepts(p) THEN FALSE ELSE contr_empty[p]
  BY DEF Edge, add_to_queue
<1>6. /\ queue'[p] = IF Takes(p) THEN Tail(Pushed(p)) ELSE Pushed(p)
      /\ is_working'[p] = (Takes(p) \/ (is_working[p] /\ unit[p] # "store"))
  BY <1>1 DEF process
<1>7. is_working[p] = (unit[p] \in {"busy", "store"}) /\ unit[p] \in {"idle", "busy", "store"}
  BY <1>2 DEF ReportInv, Types
<1>8. is_working'[p] = (unit'[p] \in {"busy", "store"})
  <2>1. (is_working[p] /\ unit[p] # "store") <=> unit[p] = "busy"
    BY <1>7
  <2>2. (Takes(p) \/ (is_working[p] /\ unit[p] # "store")) = (unit'[p] \in {"busy", "store"})
    BY <1>3, <2>1
  <2> QED BY <1>6, <2>2
<1>9. contr_empty'[p] => queue'[p] = << >> /\ ~is_working'[p]
  <2>1. CASE Pushed(p) = << >>
    <3>1. ~Takes(p)
      BY <2>1 DEF Takes
    <3> QED BY <1>5, <1>6, <2>1, <3>1
  <2>2. CASE Pushed(p) # << >> /\ ~Accepts(p)
    <3>1. Pushed(p) = queue[p]
      BY <2>2 DEF Pushed
    <3> QED BY <1>2, <1>5, <2>2, <3>1 DEF ReportInv
  <2> QED BY <1>5, <2>1, <2>2
<1>10. ReportInv(p)'
  BY <1>3, <1>5, <1>8, <1>9 DEF ReportInv
<1> QED BY <1>3, <1>4, <1>10

(* An edge after the end changes nothing the pool knows, until the start.  *)
LEMMA RestLasts ==
  ASSUME TaskInv, Edge, cycle_ended
  PROVE  /\ \A p \in PC : With(p)' = {} /\ unit'[p] = "idle" /\ contr_empty'[p]
         /\ generator!Idle
<1>1. /\ gen_end /\ gen_pc = "idle" /\ gen_state = "IDLE" /\ ~gen_write
      /\ \A p \in PC : contr_empty[p] /\ queue[p] = << >> /\ unit[p] = "idle" /\ With(p) = {}
  BY AllAtRest
<1>2. generator!Idle
  BY <1>1 DEF Edge, generator!generate, generator!Enter, generator!Choose, generator!Withdraw
<1>3. ASSUME NEW p \in PC
      PROVE  With(p)' = {} /\ unit'[p] = "idle" /\ contr_empty'[p]
  <2>1. ~Accepts(p) /\ Pushed(p) = << >> /\ ~Takes(p)
    BY <1>1 DEF Accepts, Pushed, Takes
  <2>2. unit'[p] = "idle"
    BY <1>1, <2>1 DEF Edge, process
  <2>3. With(p)' = {}
    <3>1. queue'[p] = << >>
      BY <2>1 DEF Edge, process
    <3> QED BY <2>2, <3>1 DEF With, InQueue
  <2>4. contr_empty'[p]
    <3>1. ~is_working[p]
      BY <1>1 DEF TaskInv, ReportInv
    <3> QED BY <2>1, <3>1 DEF Edge, add_to_queue
  <2> QED BY <2>2, <2>3, <2>4
<1> QED BY <1>2, <1>3

LEMMA TaskTypes == TaskInv /\ Edge => Types'
<1> SUFFICES ASSUME TaskInv, Edge PROVE Types'
  OBVIOUS
<1>1. layer_size' \in Int /\ ctrl' \in {"rest", "gen", "settle", "cycle"}
  BY SizesAssumption DEF TaskInv, Types, Edge, control, Rest, EndStart, Settle, AwaitCycle, AnySize
<1>2. generator!TypeOK'
  <2> USE DEF generator!TypeOK
  <2>1. generator!TypeOK /\ 0 \in generator!PC
    BY ConfigAssumption DEF TaskInv, Types, generator!PC
  <2>2. CASE generator!Idle
    BY <2>1, <2>2 DEF generator!Idle
  <2>3. CASE generator!Enter
    BY <2>1, <2>3 DEF generator!Enter
  <2>4. ASSUME NEW p \in PC, generator!Choose(p) PROVE generator!TypeOK'
    <3>1. gen_pc' = "written" /\ gen_end' = gen_end
      BY <2>4 DEF generator!Choose
    <3>2. \/ /\ gen_data' = gen_counter /\ gen_address' = p /\ gen_write' = TRUE
             /\ gen_counter' = gen_counter + 1 /\ gen_state' \in {"IDLE", "GENERATE"}
          \/ UNCHANGED <<gen_address, gen_data, gen_write, gen_state, gen_counter>>
      BY <2>4 DEF generator!Choose
    <3>3. p \in generator!PC /\ gen_counter + 1 \in Nat
      BY <2>1 DEF generator!PC, PC
    <3> HIDE DEF generator!TypeOK
    <3>4. /\ gen_end' \in BOOLEAN /\ gen_address' \in generator!PC /\ gen_data' \in Nat
          /\ gen_write' \in BOOLEAN /\ gen_state' \in {"IDLE", "GENERATE"} /\ gen_counter' \in Nat
      BY <2>1, <3>1, <3>2, <3>3 DEF generator!TypeOK
    <3> QED BY <3>1, <3>4 DEF generator!TypeOK
  <2>5. CASE generator!Withdraw
    BY <2>1, <2>5 DEF generator!Withdraw
  <2> QED BY <2>2, <2>3, <2>4, <2>5 DEF Edge, generator!generate, generator!PC, PC
<1>3. PICK done : process(done)
  BY DEF Edge
<1>4. \A p \in PC : Pushed(p) \in Seq(Nat)
  BY PushedIs, Accepted DEF TaskInv
<1>5. gen_size' \in [PC -> Nat]
  BY <1>4 DEF Edge, add_to_queue
<1>6. contr_empty' \in [PC -> BOOLEAN]
  <2>1. \A p \in PC : is_working[p] \in BOOLEAN /\ contr_empty[p] \in BOOLEAN
    BY DEF TaskInv, Types
  <2> QED BY <2>1 DEF Edge, add_to_queue
<1>7. is_working' \in [PC -> BOOLEAN]
  BY <1>3 DEF process, Takes
<1>8. queue' \in [PC -> Seq(Nat)] /\ unit' \in [PC -> {"idle", "busy", "store"}]
      /\ number' \in [PC -> Nat]
  <2>1. DOMAIN queue' = PC /\ DOMAIN unit' = PC /\ DOMAIN number' = PC
        /\ queue' = [p \in PC |-> queue'[p]] /\ unit' = [p \in PC |-> unit'[p]]
        /\ number' = [p \in PC |-> number'[p]]
    BY <1>3 DEF process
  <2>2. \A p \in PC : /\ queue'[p] \in Seq(Nat) /\ number'[p] \in Nat
                     /\ unit'[p] \in {"idle", "busy", "store"}
    BY UnitsMove
  <2> QED BY <2>1, <2>2
<1>9. end_reducer!TypeOK'
  <2>1. cycle_ended' = (gen_end' /\ \A p \in PC : contr_empty'[p])
    BY DEF Edge, end_reducer!reduce, end_reducer!AllEnded, end_reducer!PC, PC
  <2> QED BY <2>1 DEF end_reducer!TypeOK
<1> QED BY <1>1, <1>2, <1>5, <1>6, <1>7, <1>8, <1>9 DEF Types

LEMMA TaskPhase == TaskInv /\ Edge => PhaseInv'
<1> SUFFICES ASSUME TaskInv, Edge PROVE PhaseInv'
  OBVIOUS
<1> USE DEF TaskInv, PhaseInv
<1>1. cycle_ended' = end_reducer!AllEnded'
  BY DEF Edge, end_reducer!reduce
<1>2. /\ ctrl \in {"rest", "gen", "settle", "cycle"}
      /\ gen_end \in BOOLEAN /\ gen_state \in {"IDLE", "GENERATE"}
      /\ gen_pc \in {"idle", "choose", "written"}
  BY DEF Types, generator!TypeOK
<1>3. /\ ctrl = "rest" => ctrl' \in {"rest", "gen"}
      /\ ctrl = "gen" => ctrl' = "settle"
      /\ ctrl = "settle" => ctrl' = "cycle"
      /\ ctrl = "cycle" => ctrl' = IF cycle_ended THEN "rest" ELSE "cycle"
  BY DEF Edge, control, Rest, EndStart, Settle, AwaitCycle
<1>4. CASE cycle_ended
  <2>1. /\ generator!Idle
        /\ \A p \in PC : contr_empty'[p]
    BY <1>4, RestLasts
  <2>2. gen_pc = "idle" /\ gen_state = "IDLE" /\ gen_end
    BY <1>4, AllAtRest
  <2>3. gen_pc' = "idle" /\ gen_end' = (ctrl # "gen")
        /\ gen_state' = IF ctrl = "gen" THEN "GENERATE" ELSE "IDLE"
    BY <2>1 DEF generator!Idle
  <2>4. ctrl # "gen" => cycle_ended'
    BY <1>1, <2>1, <2>3 DEF end_reducer!AllEnded, end_reducer!PC, PC
  <2> QED BY <1>1, <1>2, <1>3, <1>4, <2>2, <2>3, <2>4
<1>5. CASE ~cycle_ended
  <2>1. ctrl \in {"settle", "cycle"} /\ ctrl' = "cycle"
    BY <1>2, <1>3, <1>5
  <2>2. CASE generator!Idle
    BY <1>1, <2>1, <2>2 DEF generator!Idle
  <2>3. CASE generator!Enter
    BY <1>1, <1>2, <2>1, <2>3 DEF generator!Enter
  <2>4. CASE \E p \in PC : generator!Choose(p)
    BY <1>1, <1>2, <2>1, <2>4 DEF generator!Choose
  <2>5. CASE generator!Withdraw
    BY <1>1, <1>2, <2>1, <2>5 DEF generator!Withdraw
  <2> QED BY <2>2, <2>3, <2>4, <2>5 DEF Edge, generator!generate, generator!PC, PC
<1> QED BY <1>4, <1>5

(* What the generator still has to hand out or has on the bus.             *)
Pending == ToHandOut \union OnBus

(* On an edge before the end the generator gives away what is on the bus;  *)
(* the numbers it has left are above those the units have got.             *)
LEMMA GeneratorMoves ==
  ASSUME TaskInv, Edge, ~cycle_ended
  PROVE  BusInv' /\ Pending' = Pending \ OnBus
<1>1. /\ gen_counter \in Nat /\ gen_data \in Nat /\ layer_size \in Int
      /\ gen_state \in {"IDLE", "GENERATE"} /\ gen_write \in BOOLEAN
  BY DEF TaskInv, Types, generator!TypeOK
<1>2. ctrl \in {"settle", "cycle"} /\ UNCHANGED layer_size
  <2>1. ctrl \in {"settle", "cycle"}
    BY DEF TaskInv, Types, PhaseInv
  <2> QED BY <2>1 DEF Edge, control, Rest, EndStart, Settle, AwaitCycle
<1>3. Last' = Last /\ Last \in Int /\ (gen_counter < Last => gen_counter \in 0 .. Last - 1)
  BY <1>1, <1>2 DEF Last
<1>4. /\ gen_write => gen_pc = "written" /\ gen_data = gen_counter - 1
      /\ gen_state = "GENERATE" => gen_counter < Last
  BY DEF TaskInv, BusInv
<1>5. Pending = (IF gen_state = "IDLE" THEN {} ELSE gen_counter .. Last - 1)
                \union (IF gen_write THEN {gen_data} ELSE {})
  BY DEF Pending, ToHandOut, OnBus, Last
<1>6. Pending' = (IF gen_state' = "IDLE" THEN {} ELSE gen_counter' .. Last - 1)
                 \union (IF gen_write' THEN {gen_data'} ELSE {})
  BY <1>2 DEF Pending, ToHandOut, OnBus, Last
<1>7. ASSUME NEW p \in PC
      PROVE  /\ With(p)' \subseteq With(p) \union OnBus
             /\ ~gen_write => With(p)' \subseteq With(p) /\ Len(queue'[p]) <= Len(queue[p])
             /\ gen_write => \A n \in With(p) : n < gen_data
             /\ gen_state = "GENERATE" => \A n \in With(p) : n < gen_counter
  <2>1. With(p)' = (With(p) \union Got(p)) \ Shown(p)
        /\ (~gen_write => Len(queue'[p]) <= Len(queue[p]))
    BY UnitsMove
  <2>2. Got(p) \subseteq OnBus /\ (~gen_write => Got(p) = {})
    BY Accepted
  <2> QED BY <2>1, <2>2, Accepted DEF TaskInv, BusInv
<1>8. OnBus = IF gen_write THEN {gen_data} ELSE {}
  BY DEF OnBus
<1>9. CASE generator!Idle
  <2>1. gen_state = "IDLE" /\ gen_state' = "IDLE" /\ ~gen_write'
    BY <1>2, <1>9 DEF generator!Idle
  <2>2. Pending' = {} /\ Pending = OnBus
    BY <1>5, <1>6, <1>8, <2>1
  <2> QED BY <2>1, <2>2 DEF BusInv
<1>10. CASE generator!Enter
  <2>1. /\ gen_pc = "idle" /\ gen_state = "GENERATE"
        /\ UNCHANGED <<gen_data, gen_write, gen_state, gen_counter>>
    BY <1>10 DEF generator!Enter
  <2>2. ~gen_write
    BY <1>4, <2>1
  <2>3. Pending' = Pending \ OnBus
    BY <1>5, <1>6, <1>8, <2>1, <2>2
  <2>4. \A p \in PC : \A n \in With(p)' : n < gen_counter'
    BY <1>7, <2>1, <2>2
  <2>5. BusInv'
    BY <1>3, <1>4, <2>1, <2>2, <2>4 DEF BusInv
  <2> QED BY <2>3, <2>5
<1>11. ASSUME NEW p \in PC, generator!Choose(p) PROVE BusInv' /\ Pending' = Pending \ OnBus
  <2>1. gen_pc = "choose" /\ gen_pc' = "written" /\ gen_state = "GENERATE" /\ ~gen_write
    BY <1>4, <1>11 DEF generator!Choose, TaskInv, PhaseInv
  <2>2. \A q \in PC : \A n \in With(q)' : n < gen_counter
    BY <1>7, <2>1
  <2>3. CASE gen_size[p] >= QUEUE_SIZE
             /\ UNCHANGED <<gen_address, gen_data, gen_write, gen_state, gen_counter>>
    <3>1. Pending' = Pending \ OnBus
      BY <1>5, <1>6, <1>8, <2>1, <2>3
    <3>2. BusInv'
      BY <1>3, <1>4, <2>1, <2>2, <2>3 DEF BusInv
    <3> QED BY <3>1, <3>2
  <2>4. CASE /\ gen_size[p] < QUEUE_SIZE
             /\ gen_data' = gen_counter /\ gen_address' = p /\ gen_write' = TRUE
             /\ gen_counter' = gen_counter + 1
             /\ gen_state' = IF gen_counter + 1 >= layer_size THEN "IDLE" ELSE "GENERATE"
    <3>1. gen_counter < Last /\ (gen_state' = "GENERATE" => gen_counter + 1 < Last)
          /\ (gen_state' = "IDLE" => gen_counter + 1 = Last)
      BY <1>1, <1>4, <2>1, <2>4 DEF Last
    <3>2. gen_counter .. Last - 1 = (gen_counter + 1 .. Last - 1) \union {gen_counter}
          /\ (gen_counter + 1 = Last => gen_counter + 1 .. Last - 1 = {})
      BY <1>1, <1>3, <3>1
    <3>3. gen_state' \in {"IDLE", "GENERATE"}
      BY <2>4
    <3> HIDE DEF Last
    <3>4. Pending = gen_counter .. Last - 1 /\ OnBus = {}
      BY <1>5, <1>8, <2>1
    <3>5. Pending' = (IF gen_state' = "IDLE" THEN {} ELSE gen_counter + 1 .. Last - 1)
                     \union {gen_counter}
      BY <1>6, <2>4
    <3>6. Pending' = Pending
      <4>1. CASE gen_state' = "IDLE"
        BY <3>1, <3>2, <3>4, <3>5, <4>1
      <4>2. CASE gen_state' = "GENERATE"
        BY <3>2, <3>4, <3>5, <4>2
      <4> QED BY <3>3, <4>1, <4>2
    <3>7. Len(queue'[p]) < QUEUE_SIZE
      <4>1. Len(queue'[p]) <= Len(queue[p]) /\ Len(queue[p]) <= gen_size[p]
        BY <1>7, <2>1 DEF TaskInv, ReportInv
      <4>2. Len(queue'[p]) \in Nat /\ Len(queue[p]) \in Nat /\ gen_size[p] \in Nat
        <5>1. queue'[p] \in Seq(Nat) /\ queue[p] \in Seq(Nat)
          BY UnitsMove DEF TaskInv, Types
        <5> QED BY <5>1 DEF TaskInv, Types
      <4> QED BY ConfigAssumption, <2>4, <4>1, <4>2
    <3>8. \A q \in PC : \A n \in With(q)' : n < gen_data' /\ n < gen_counter'
      <4>1. \A q \in PC : With(q) \subseteq Nat
        BY DEF TaskInv, Types, With, InQueue
      <4>2. \A q \in PC : With(q)' \subseteq Nat
        BY <1>7, <2>1, <4>1
      <4> QED BY <1>1, <2>2, <2>4, <4>2
    <3>9. gen_data' = gen_counter' - 1
      BY <1>1, <2>4
    <3>10. gen_state' = "GENERATE" => gen_counter' < Last'
      BY <1>3, <2>4, <3>1
    <3>11. BusInv'
      BY <2>1, <2>4, <3>7, <3>8, <3>9, <3>10 DEF BusInv
    <3> QED BY <3>4, <3>6, <3>11
  <2> QED BY <1>11, <2>3, <2>4 DEF generator!Choose
<1>12. CASE generator!Withdraw
  <2>1. gen_state = "GENERATE" /\ ~gen_write' /\ UNCHANGED <<gen_state, gen_counter>>
    BY <1>12 DEF generator!Withdraw
  <2>2. \A p \in PC : \A n \in With(p)' : n < gen_counter
    BY <1>1, <1>4, <1>7, <1>8, <2>1
  <2>3. BusInv'
    BY <1>3, <1>4, <2>1, <2>2 DEF BusInv
  <2>4. OnBus \intersect (gen_counter .. Last - 1) = {}
    BY <1>1, <1>4, <1>8
  <2>5. Pending' = Pending \ OnBus
    BY <1>5, <1>6, <1>8, <2>1, <2>4
  <2> QED BY <2>3, <2>5
<1> QED BY <1>9, <1>10, <1>11, <1>12 DEF Edge, generator!generate, generator!PC, PC

(* From the end to the first number of the next layer: all numbers of it   *)
(* are to be handed out.                                                   *)
LEMMA GeneratorRests ==
  ASSUME TaskInv, Edge, cycle_ended
  PROVE  /\ BusInv' /\ ~gen_write'
         /\ Pending = {}
         /\ ctrl = "gen" => Pending' = pool!Numbers(layer_size') /\ layer_size' \in Sizes
         /\ ctrl # "gen" => Pending' = {}
<1>1. ~gen_write /\ gen_state = "IDLE"
  BY AllAtRest
<1>2. generator!Idle /\ \A p \in PC : With(p)' = {}
  BY RestLasts
<1>3. ~gen_write' /\ gen_counter' = 0 /\ gen_state' = IF ctrl = "gen" THEN "GENERATE" ELSE "IDLE"
  BY <1>2 DEF generator!Idle
<1>4. layer_size' \in Int
  BY TaskTypes DEF Types
<1>5. BusInv'
  BY <1>2, <1>3, <1>4 DEF BusInv, Last
<1>6. Pending = {}
  BY <1>1 DEF Pending, ToHandOut, OnBus
<1>7. ctrl # "gen" => Pending' = {}
  BY <1>3 DEF Pending, ToHandOut, OnBus
<1>8. CASE ctrl = "gen"
  <2>1. Pending' = pool!Numbers(layer_size')
    BY <1>3, <1>8 DEF Pending, ToHandOut, OnBus, pool!Numbers
  <2>2. layer_size' \in Sizes
    BY <1>8 DEF Edge, control, Rest, EndStart, Settle, AwaitCycle, AnySize
  <2> QED BY <1>3, <1>5, <1>6, <1>8, <2>1, <2>2
<1> QED BY <1>3, <1>5, <1>6, <1>7, <1>8

LEMMA TaskApart == TaskInv /\ Edge => Apart'
<1> SUFFICES ASSUME TaskInv, Edge, NEW p \in PC, NEW q \in PC, p # q, NEW n, n \in With(p)', n \in With(q)'
             PROVE  FALSE
  BY DEF Apart
<1>1. n \in With(p) \union Got(p) /\ n \in With(q) \union Got(q)
  BY UnitsMove
<1>2. With(p) \intersect With(q) = {}
  BY DEF TaskInv, Apart
<1>3. \A r \in PC : /\ Got(r) = (IF r = gen_address THEN OnBus ELSE {})
                    /\ gen_write => \A m \in With(r) : m < gen_data
  BY Accepted
<1>4. OnBus = IF gen_write THEN {gen_data} ELSE {}
  BY DEF OnBus
<1>5. gen_data \in Nat
  BY DEF TaskInv, Types, generator!TypeOK
<1> QED BY <1>1, <1>2, <1>3, <1>4, <1>5

LEMMA StepTask == TaskInv /\ [Edge]_vars => TaskInv'
<1> SUFFICES ASSUME TaskInv, [Edge]_vars PROVE TaskInv'
  OBVIOUS
<1>1. CASE Edge
  <2>1. BusInv'
    <3>1. cycle_ended \/ ~cycle_ended
      OBVIOUS
    <3> QED BY <1>1, <3>1, GeneratorMoves, GeneratorRests
  <2>2. \A p \in PC : ReportInv(p)' /\ OrderInv(p)'
    BY <1>1, UnitsMove
  <2>3. Types' /\ PhaseInv' /\ Apart'
    BY <1>1, TaskTypes, TaskPhase, TaskApart
  <2> QED BY <2>1, <2>2, <2>3 DEF TaskInv
<1>2. CASE UNCHANGED vars
  <2> USE <1>2 DEF vars, ctrlVars, genVars, unitVars
  <2>1. Types' /\ PhaseInv'
    BY DEF TaskInv, Types, PhaseInv, generator!TypeOK, end_reducer!TypeOK, end_reducer!AllEnded
  <2>2. BusInv' /\ Apart'
    <3>1. (\A p \in PC : With(p)' = With(p)) /\ Last' = Last
      BY DEF With, InQueue, Last
    <3> QED BY <3>1 DEF TaskInv, BusInv, Apart
  <2>3. \A p \in PC : ReportInv(p)' /\ OrderInv(p)'
    BY DEF TaskInv, ReportInv, OrderInv
  <2> QED BY <2>1, <2>2, <2>3 DEF TaskInv
<1> QED BY <1>1, <1>2

(***************************************************************************)
(* The invariant of the dispatch: at every edge, whatever the controller   *)
(* and the units do, the bus addresses a unit with room, and every number  *)
(* of the layer still to be computed is with the generator, on the bus or  *)
(* with exactly one unit (generator.cpp:36-71, processor.cpp:63-102).      *)
(***************************************************************************)
THEOREM TaskInvariant == Safety => []TaskInv
<1> QED BY InitTask, StepTask, PTL DEF Safety

----------------------------------------------------------------------------
(* The pool of tasks                                                       *)

Todo  == ToHandOut \union OnBus \union Queued \union InHand("busy")
Withs == UNION {With(p) : p \in PC}

LEMMA TodoIs == Todo = Pending \union Withs /\ Todo' = Pending' \union Withs'
<1>1. Todo = Pending \union Withs
  <2>1. Withs = Queued \union InHand("busy")
    BY DEF Withs, With, InQueue, Queued, InHand
  <2> QED BY <2>1 DEF Todo, Pending
<1>2. (Todo = Pending \union Withs)'
  BY <1>1, PTL
<1> QED BY <1>1, <1>2

(* What is shown after an edge is what the units finish on it.             *)
LEMMA ShownIs ==
  ASSUME TaskInv, Edge
  PROVE  InHand("store")' = UNION {Shown(p) : p \in PC}
<1>1. \A p \in PC : Shown(p) = IF unit'[p] = "store" THEN {number'[p]} ELSE {}
  BY UnitsMove DEF Shown
<1> QED BY <1>1 DEF InHand

(* Before the end an edge takes what is shown from what is to be done.     *)
LEMMA PoolWorks ==
  ASSUME TaskInv, Edge, ~cycle_ended
  PROVE  InHand("store")' \subseteq Todo /\ Todo' = Todo \ InHand("store")'
<1>1. Pending' = Pending \ OnBus /\ OnBus \subseteq Pending
  BY GeneratorMoves DEF Pending
<1>2. /\ \A p \in PC : With(p)' = (With(p) \union Got(p)) \ Shown(p)
      /\ \A p \in PC : Shown(p) \subseteq With(p)
  BY UnitsMove DEF Shown, With
<1>3. (\A p \in PC : Got(p) \subseteq OnBus) /\ \E p \in PC : Got(p) = OnBus
  <2>1. gen_address \in PC
    BY DEF TaskInv, Types, generator!TypeOK, generator!PC, PC
  <2> QED BY <2>1, Accepted
<1>4. \A p, q \in PC : p # q => Shown(p) \intersect With(q) = {}
  BY <1>2 DEF TaskInv, Apart
<1>5. \A p \in PC : \A n \in With(p) : n \notin Pending
  <2> SUFFICES ASSUME NEW p \in PC, NEW n \in With(p) PROVE n \notin Pending
    OBVIOUS
  <2>1. n \in Nat /\ gen_counter \in Nat /\ gen_data \in Nat /\ layer_size \in Int
        /\ gen_state \in {"IDLE", "GENERATE"}
    BY DEF TaskInv, Types, With, InQueue, generator!TypeOK
  <2>2. gen_write => n < gen_data
    BY Accepted
  <2>3. gen_state = "GENERATE" => n < gen_counter
    BY DEF TaskInv, BusInv
  <2>4. n \notin OnBus
    BY <2>1, <2>2 DEF OnBus
  <2>5. n \notin ToHandOut
    BY <2>1, <2>3 DEF ToHandOut
  <2> QED BY <2>4, <2>5 DEF Pending
<1> DEFINE S == UNION {Shown(p) : p \in PC}
<1>6. InHand("store")' = S
  BY ShownIs
<1>7. Todo = Pending \union Withs /\ Todo' = Pending' \union Withs'
  BY TodoIs
<1>8. S \subseteq Withs /\ S \intersect Pending = {}
  BY <1>2, <1>5 DEF Withs
<1>9. Withs' = (Withs \union OnBus) \ S
  <2>1. ASSUME NEW n, n \in Withs' PROVE n \in (Withs \union OnBus) \ S
    <3>1. PICK p \in PC : n \in With(p)'
      BY <2>1 DEF Withs
    <3>2. n \in With(p) \union Got(p) /\ n \notin Shown(p)
      BY <1>2, <3>1
    <3>3. n \in Withs \union OnBus
      BY <1>3, <3>2 DEF Withs
    <3>4. ASSUME NEW q \in PC, n \in Shown(q) PROVE FALSE
      <4>1. q # p
        BY <3>2, <3>4
      <4>2. n \notin With(p)
        BY <1>4, <3>4, <4>1
      <4>3. n \in Pending
        BY <1>1, <1>3, <3>2, <4>2
      <4> QED BY <1>2, <1>5, <3>4, <4>3
    <3> QED BY <3>3, <3>4
  <2>2. ASSUME NEW n, n \in (Withs \union OnBus) \ S PROVE n \in Withs'
    <3>1. PICK p \in PC : n \in With(p) \union Got(p)
      BY <1>3, <2>2 DEF Withs
    <3>2. n \in With(p)'
      BY <1>2, <2>2, <3>1
    <3> QED BY <3>2 DEF Withs
  <2> QED BY <2>1, <2>2
<1> HIDE DEF S
<1> QED BY <1>1, <1>6, <1>7, <1>8, <1>9

LEMMA NothingLeft == TaskInv /\ cycle_ended => Todo = {} /\ InHand("store") = {}
<1> SUFFICES ASSUME TaskInv, cycle_ended PROVE Todo = {} /\ InHand("store") = {}
  OBVIOUS
<1>1. gen_state = "IDLE" /\ ~gen_write /\ \A p \in PC : unit[p] = "idle" /\ With(p) = {}
  BY AllAtRest
<1>2. Pending = {}
  BY <1>1 DEF Pending, ToHandOut, OnBus
<1>3. Withs = {}
  BY <1>1 DEF Withs
<1>4. InHand("store") = {}
  BY <1>1 DEF InHand
<1> QED BY <1>2, <1>3, <1>4, TodoIs

LEMMA NothingLeftNext == (TaskInv /\ cycle_ended => Todo = {} /\ InHand("store") = {})'
<1> QED BY NothingLeft, PTL

(* Every edge is a step of the pool, or changes nothing it knows.          *)
LEMMA PoolSteps == TaskInv /\ [Edge]_vars => [pool!Next]_(pool!vars)
<1> SUFFICES ASSUME TaskInv, [Edge]_vars PROVE pool!Next \/ UNCHANGED pool!vars
  OBVIOUS
<1> DEFINE Results == InHand("store")
<1>1. pool!vars = <<Todo, Results, cycle_ended>> /\ pool!vars' = <<Todo', Results', cycle_ended'>>
  BY DEF pool!vars, Todo
<1>2. TaskInv'
  BY StepTask
<1>3. CASE UNCHANGED vars
  BY <1>3 DEF pool!vars, ToHandOut, OnBus, Queued, InHand, vars, ctrlVars, genVars, unitVars
<1>4. CASE Edge /\ cycle_ended /\ ctrl = "gen"
  <2>1. /\ Pending' = pool!Numbers(layer_size') /\ layer_size' \in Sizes
        /\ \A p \in PC : With(p)' = {} /\ unit'[p] = "idle"
    BY <1>4, GeneratorRests, RestLasts
  <2>2. Withs' = {} /\ Results' = {}
    BY <2>1 DEF Withs, InHand
  <2>3. Todo' = pool!Numbers(layer_size')
    BY <2>1, <2>2, TodoIs
  <2>4. ~cycle_ended'
    <3>1. ctrl' = "settle"
      BY <1>4 DEF Edge, control, Rest, EndStart, Settle, AwaitCycle
    <3>2. gen_pc' = "idle" /\ gen_state' = "GENERATE"
      BY <1>2, <3>1 DEF TaskInv, PhaseInv
    <3> QED BY <1>2, <3>2 DEF TaskInv, PhaseInv, end_reducer!AllEnded
  <2>5. cycle_ended' = FALSE
    BY <1>2, <2>4 DEF TaskInv, Types, end_reducer!TypeOK
  <2>6. pool!Start(layer_size')
    BY <1>4, <2>2, <2>3, <2>5 DEF pool!Start, Todo
  <2> QED BY <2>1, <2>6 DEF pool!Next
<1>5. CASE Edge /\ cycle_ended /\ ctrl # "gen"
  <2>1. generator!Idle /\ \A p \in PC : contr_empty'[p] /\ With(p)' = {}
    BY <1>5, RestLasts
  <2>2. gen_end'
    BY <1>5, <2>1 DEF generator!Idle
  <2>3. cycle_ended'
    BY <1>2, <2>1, <2>2 DEF TaskInv, PhaseInv, end_reducer!AllEnded, end_reducer!PC, PC
  <2>4. Todo = {} /\ Results = {}
    BY <1>5, NothingLeft
  <2>5. Todo' = {} /\ Results' = {}
    <3>1. Pending' = {} /\ \A p \in PC : With(p)' = {} /\ unit'[p] = "idle"
      BY <1>5, GeneratorRests, RestLasts
    <3>2. Withs' = {} /\ Results' = {}
      BY <3>1 DEF Withs, InHand
    <3> QED BY <3>1, <3>2, TodoIs
  <2>6. cycle_ended' = cycle_ended
    BY <1>2, <1>5, <2>3 DEF TaskInv, Types, end_reducer!TypeOK
  <2> QED BY <1>1, <2>4, <2>5, <2>6
<1>6. CASE Edge /\ ~cycle_ended
  <2>1. Results' \subseteq Todo /\ Todo' = Todo \ Results'
    BY <1>6, PoolWorks
  <2>2. cycle_ended = FALSE /\ cycle_ended' \in BOOLEAN
    BY <1>2, <1>6 DEF TaskInv, Types, end_reducer!TypeOK
  <2>3. CASE ~cycle_ended'
    <3>1. UNCHANGED cycle_ended
      BY <2>2, <2>3
    <3>2. pool!Work
      BY <1>6, <2>1, <3>1 DEF pool!Work, Todo
    <3> QED BY <3>2 DEF pool!Next
  <2>4. CASE cycle_ended'
    <3>1. Todo' = {} /\ Results' = {}
      BY <1>2, <2>4, NothingLeftNext
    <3>2. Todo = {}
      BY <2>1, <3>1
    <3>3. pool!End
      BY <1>6, <2>2, <2>4, <3>1, <3>2 DEF pool!End, Todo
    <3> QED BY <3>3 DEF pool!Next
  <2> QED BY <2>3, <2>4
<1> QED BY <1>3, <1>4, <1>5, <1>6

LEMMA PoolStarts == Init => pool!Init
<1> SUFFICES ASSUME Init PROVE pool!Init
  OBVIOUS
<1>1. TaskInv
  BY InitTask
<1>2. gen_end = TRUE /\ \A p \in PC : contr_empty[p] = TRUE
  BY DEF Init, generator!Init
<1>3. cycle_ended = TRUE
  BY <1>1, <1>2 DEF TaskInv, PhaseInv, Types, end_reducer!TypeOK, end_reducer!AllEnded,
     end_reducer!PC, PC
<1>4. Todo = {} /\ InHand("store") = {}
  BY <1>1, <1>3, NothingLeft
<1> QED BY <1>3, <1>4 DEF pool!Init, Todo

(***************************************************************************)
(* For any number of units and queue places, whatever the sizes of the     *)
(* layers, the times the units take and the moments of the starts: every   *)
(* number of a layer is computed and its result shown exactly once, and    *)
(* the end is not reported before the last of them (generator.cpp:56,      *)
(* processor.cpp:85, :97, end_reducer.cpp:11-22).                          *)
(***************************************************************************)
THEOREM PoolImplemented == Safety => pool!Safety
<1> QED BY TaskInvariant, PoolStarts, PoolSteps, PTL DEF Safety, pool!Safety
=============================================================================
