---------------------------- MODULE KernelDispatch ----------------------------
(***************************************************************************)
(* GENERATOR, the units, END_REDUCER and the clock as the processes they   *)
(* are, run by the kernel one at a time: sc_clock's two methods,           *)
(* add_to_queue and reduce, the clocked threads generate and process, and  *)
(* a thread in the place of CONTROLLER.  Everything the other modules take *)
(* for one step, a clock edge, is here some sixty steps in three or four   *)
(* delta cycles.                                                           *)
(*                                                                         *)
(* A process changes its members when it is started; its writes and        *)
(* notifications are then made one by one, and it waits after the last.    *)
(* Booleans are 0 and 1.  Half a period of the clock is the unit of time.  *)
(***************************************************************************)
EXTENDS Config, SequencesExt

CONSTANTS Sizes,               \* of layers
          Nobody, NoEvent

VARIABLES
  m_methods_push, m_methods_pop, m_threads_push, m_threads_pop, curr,
  m_notify_type, m_delta_event_index, m_timed, m_delta_events, m_timed_events,
  m_cur_val, m_new_val, m_writer_p, m_update_list, m_forced_stop, phase, i

VARIABLES
  ctrl, gen_state, gen_counter, gen_pc, is_working, queue, unit, number,
  calls,        \* what the running process still has to call
  settled       \* all of it, as it was when time last advanced

queueVars  == <<m_methods_push, m_methods_pop, m_threads_push, m_threads_pop>>
noteVars   == <<m_notify_type, m_delta_event_index, m_timed, m_delta_events>>
signalVars == <<m_cur_val, m_new_val, m_writer_p, m_update_list>>
memberVars == <<ctrl, gen_state, gen_counter, gen_pc, is_working, queue, unit, number>>

Bit(b)      == IF b THEN 1 ELSE 0
Name(n)     == <<n, 0>>
Each(n)     == {<<n, p>> : p \in PC}
InOrder(n)  == [k \in 1 .. COUNT_PC_UNIT |-> <<n, k - 1>>]

Methods == {Name("posedge_action"), Name("negedge_action"), Name("reduce")}
             \union Each("add_to_queue")
Threads == {Name("control"), Name("generate")} \union Each("process")

Signals == {Name("clk"), Name("layer_size"), Name("start_generator"), Name("gen_end"),
            Name("gen_address"), Name("gen_data"), Name("gen_write"), Name("cycle_ended")}
             \union Each("gen_size") \union Each("contr_empty")

Values == 0 .. Max(Sizes \union {QUEUE_SIZE, COUNT_PC_UNIT})

(* The two events of the clock's own, the edge, and two value changes.     *)
Events == {Name("next_posedge"), Name("next_negedge"), Name("posedge"),
           Name("gen_end_changed")} \union Each("contr_empty_changed")

(* Variant with a bug: reduce is sensitive to the generator alone.         *)
SensitiveToEnd(e) ==
  CASE e = Name("next_posedge")    -> <<Name("posedge_action")>>
    [] e = Name("next_negedge")    -> <<Name("negedge_action")>>
    [] e = Name("posedge")         -> <<Name("control"), Name("generate")>>
                                        \o InOrder("process") \o InOrder("add_to_queue")
    [] e = Name("gen_end_changed") -> <<Name("reduce")>>
    [] OTHER                       -> << >>

Sensitive(e) ==
  CASE e = Name("next_posedge") -> <<Name("posedge_action")>>
    [] e = Name("next_negedge") -> <<Name("negedge_action")>>
    [] e = Name("posedge")      -> <<Name("control"), Name("generate")>>
                                     \o InOrder("process") \o InOrder("add_to_queue")
    [] OTHER                    -> <<Name("reduce")>>

Announces(s, v) ==
  CASE s = Name("clk") /\ v = 1 -> <<Name("posedge")>>
    [] s = Name("gen_end")      -> <<Name("gen_end_changed")>>
    [] s[1] = "contr_empty"     -> << <<"contr_empty_changed", s[2]>> >>
    [] OTHER                    -> << >>

Static       == [e \in Events |-> Sensitive(e)]
Announced    == [s \in Signals |-> [v \in Values |-> Announces(s, v)]]
InitialValue == [s \in Signals |-> Bit(s = Name("gen_end"))]

(***************************************************************************)
(* posedge_action is queued with the processes that run at initialization: *)
(* the clock notifies its first edge, without delay, when it is made.      *)
(***************************************************************************)
kernel == INSTANCE SimContext WITH
  ManyWriters <- {},
  Initialized <- {Name("posedge_action"), Name("reduce")} \union Each("add_to_queue"),
  MAX_DELAY <- 1

Shown(n)   == m_cur_val[Name(n)]
Lit(n)     == Shown(n) = 1
ShownBy(n) == [p \in PC |-> m_cur_val[<<n, p>>]]

----------------------------------------------------------------------------
(* What a process can call                                                 *)

Write(s, v)  == [op |-> "write", on |-> s, arg |-> v]
Drive(s, v)  == [op |-> "drive", on |-> s, arg |-> v]
Notify(e, t) == [op |-> "notify", on |-> e, arg |-> t]

(* A write that does not change the value asked for last has no effect.    *)
Changing(writes) == SelectSeq(writes, LAMBDA c : c.arg # m_new_val[c.on])

(* What the signal will show, once all calls have been made.               *)
Port(n) ==
  LET mine == {k \in DOMAIN calls : calls[k].on = Name(n)}
  IN  IF mine = {} THEN m_new_val[Name(n)] ELSE calls[Max(mine)].arg

(* sc_clock sets its value past the check of writers.                      *)
drive(s, v) ==
  /\ m_new_val' = [m_new_val EXCEPT ![s] = v]
  /\ m_update_list' = <<s>> \o m_update_list
  /\ UNCHANGED <<m_cur_val, m_writer_p>>

Call ==
  /\ kernel!Running /\ calls # << >>
  /\ calls' = Tail(calls)
  /\ LET c == Head(calls)
     IN  \/ /\ c.op = "notify"
            /\ kernel!notify(c.on, c.arg)
            /\ UNCHANGED signalVars
         \/ /\ c.op = "write"
            /\ kernel!may_write(c.on)
            /\ kernel!write(c.on, c.arg)
            /\ UNCHANGED <<noteVars, m_timed_events>>
         \/ /\ c.op = "drive"
            /\ drive(c.on, c.arg)
            /\ UNCHANGED <<noteVars, m_timed_events>>
  /\ UNCHANGED <<queueVars, curr, m_forced_stop, phase, i, memberVars, settled>>

Wait ==
  /\ kernel!yields /\ calls = << >>
  /\ UNCHANGED <<queueVars, noteVars, m_timed_events, signalVars,
                 m_forced_stop, phase, i, memberVars, calls, settled>>

----------------------------------------------------------------------------
(* The processes                                                           *)

posedge_action ==
  /\ calls' = <<Notify(Name("next_negedge"), 1), Drive(Name("clk"), 1)>>
  /\ UNCHANGED memberVars

(* Variant with a bug: the value is that of the other action.              *)
negedge_action_copied ==
  /\ calls' = <<Notify(Name("next_posedge"), 1), Drive(Name("clk"), 1)>>
  /\ UNCHANGED memberVars

negedge_action ==
  /\ calls' = <<Notify(Name("next_posedge"), 1), Drive(Name("clk"), 0)>>
  /\ UNCHANGED memberVars

(* The stand-in of CONTROLLER, as in Dispatch.                             *)
control ==
  /\ \/ ctrl = "rest"   /\ ctrl' \in {"rest", "gen"}
     \/ ctrl = "gen"    /\ ctrl' = "settle"
     \/ ctrl = "settle" /\ ctrl' = "cycle"
     \/ ctrl = "cycle"  /\ ctrl' = IF Lit("cycle_ended") THEN "rest" ELSE "cycle"
  /\ \E n \in (IF ctrl \in {"rest", "gen"} THEN Sizes ELSE {Shown("layer_size")}) :
       calls' = Changing(<<Write(Name("layer_size"), n),
                           Write(Name("start_generator"), Bit(ctrl' = "gen"))>>)
  /\ UNCHANGED <<gen_state, gen_counter, gen_pc, is_working, queue, unit, number>>

generator == INSTANCE Generator WITH
  layer_size_i <- Shown("layer_size"), generate_i <- Lit("start_generator"),
  queue_size_i <- ShownBy("gen_size"),
  end_generate_o <- Port("gen_end") = 1, address_o <- Port("gen_address"),
  data_o <- Port("gen_data"), w_o <- Port("gen_write") = 1,
  state <- gen_state, counter <- gen_counter, pc <- gen_pc

generate ==
  /\ \E ended, up \in 0 .. 1, p \in PC, n \in Values :
       /\ calls' = Changing(<<Write(Name("gen_end"), ended), Write(Name("gen_address"), p),
                              Write(Name("gen_data"), n), Write(Name("gen_write"), up)>>)
       /\ generator!generate
  /\ UNCHANGED <<ctrl, is_working, queue, unit, number>>

Accepts(p) == Shown("gen_address") = p /\ Lit("gen_write") /\ Len(queue[p]) < QUEUE_SIZE

add_to_queue(p) ==
  /\ queue' = [queue EXCEPT ![p] = IF Accepts(p) THEN Append(@, Shown("gen_data")) ELSE @]
  /\ calls' = Changing(
       (IF Accepts(p) THEN <<Write(<<"contr_empty", p>>, 0)>> ELSE << >>)
         \o <<Write(<<"gen_size", p>>, Len(queue'[p]))>>
         \o (IF queue'[p] = << >> THEN <<Write(<<"contr_empty", p>>, Bit(~is_working[p]))>>
                                  ELSE << >>))
  /\ UNCHANGED <<ctrl, gen_state, gen_counter, gen_pc, is_working, unit, number>>

(* The thread may be at any wait() of its computation, for any time.       *)
process(p) ==
  /\ \/ /\ unit[p] \in {"idle", "store"} /\ queue[p] # << >>
        /\ number' = [number EXCEPT ![p] = Head(queue[p])]
        /\ queue' = [queue EXCEPT ![p] = Tail(@)]
        /\ is_working' = [is_working EXCEPT ![p] = TRUE]
        /\ unit' = [unit EXCEPT ![p] = "busy"]
     \/ /\ unit[p] \in {"idle", "store"} /\ queue[p] = << >>
        /\ is_working' = [is_working EXCEPT ![p] = FALSE]
        /\ unit' = [unit EXCEPT ![p] = "idle"]
        /\ UNCHANGED <<number, queue>>
     \/ /\ unit[p] = "busy"
        /\ unit' \in {unit, [unit EXCEPT ![p] = "store"]}
        /\ UNCHANGED <<number, queue, is_working>>
  /\ calls' = << >>
  /\ UNCHANGED <<ctrl, gen_state, gen_counter, gen_pc>>

reduce ==
  /\ calls' = Changing(<<Write(Name("cycle_ended"),
                Bit(Lit("gen_end") /\ \A p \in PC : ShownBy("contr_empty")[p] = 1))>>)
  /\ UNCHANGED memberVars

Body(process_name) ==
  \/ process_name = Name("posedge_action") /\ posedge_action
  \/ process_name = Name("negedge_action") /\ negedge_action
  \/ process_name = Name("control") /\ control
  \/ process_name = Name("generate") /\ generate
  \/ process_name = Name("reduce") /\ reduce
  \/ \E p \in PC : \/ process_name = <<"add_to_queue", p>> /\ add_to_queue(p)
                   \/ process_name = <<"process", p>> /\ process(p)

----------------------------------------------------------------------------
Snapshot ==
  [layer_size |-> Shown("layer_size"), ctrl |-> ctrl,
   gen_end |-> Lit("gen_end"), gen_address |-> Shown("gen_address"),
   gen_data |-> Shown("gen_data"), gen_write |-> Lit("gen_write"),
   gen_state |-> gen_state, gen_counter |-> gen_counter, gen_pc |-> gen_pc,
   gen_size |-> ShownBy("gen_size"),
   contr_empty |-> [p \in PC |-> ShownBy("contr_empty")[p] = 1],
   is_working |-> is_working, queue |-> queue, unit |-> unit, number |-> number,
   cycle_ended |-> Lit("cycle_ended")]

(***************************************************************************)
(* The port gen_end is initialized by the constructor of GENERATOR, the    *)
(* other signals are 0 or false.  settled starts as what the methods of    *)
(* the initialization phase make of that.                                  *)
(***************************************************************************)
Init ==
  /\ kernel!Init
  /\ ctrl = "rest"
  /\ gen_state = "IDLE" /\ gen_counter = 0 /\ gen_pc = "idle"
  /\ is_working = [p \in PC |-> FALSE]
  /\ queue = [p \in PC |-> << >>]
  /\ unit = [p \in PC |-> "idle"]
  /\ number = [p \in PC |-> 0]
  /\ calls = << >>
  /\ settled = [Snapshot EXCEPT !.contr_empty = [p \in PC |-> TRUE],
                               !.cycle_ended = TRUE]

(* The kernel goes on; a process it starts does its work at once.          *)
Kernel ==
  /\ kernel!KernelStep
  /\ IF curr' # curr THEN Body(curr') ELSE UNCHANGED <<memberVars, calls>>
  /\ settled' = IF kernel!Advance THEN Snapshot ELSE settled

Next == Kernel \/ Call \/ Wait

vars == <<kernel!kernelVars, memberVars, calls, settled>>

Spec == Init /\ [][Next]_vars /\ WF_vars(Next)

----------------------------------------------------------------------------
(***************************************************************************)
(* What the modules of the accelerator take for granted: between two       *)
(* advances of time the kernel carries out one clock edge, in which every  *)
(* process sees what the others left before it, a thread sees what the     *)
(* methods of its own module have just done, and END_REDUCER has settled   *)
(* when time goes on; whatever the order in which processes are queued     *)
(* (main.cpp:43, sc_simcontext.cpp:463, sc_clock.h:178).                   *)
(***************************************************************************)
edges == INSTANCE Dispatch WITH
  layer_size <- settled.layer_size, ctrl <- settled.ctrl,
  gen_end <- settled.gen_end, gen_address <- settled.gen_address,
  gen_data <- settled.gen_data, gen_write <- settled.gen_write,
  gen_state <- settled.gen_state, gen_counter <- settled.gen_counter,
  gen_pc <- settled.gen_pc, gen_size <- settled.gen_size,
  contr_empty <- settled.contr_empty, is_working <- settled.is_working,
  queue <- settled.queue, unit <- settled.unit, number <- settled.number,
  cycle_ended <- settled.cycle_ended

EdgeByEdge == edges!Safety

(***************************************************************************)
(* The two methods of the clock keep one another going: the clock rises    *)
(* and falls for ever, and between two edges the dispatch comes to rest    *)
(* (sc_clock.h:178-194).                                                   *)
(***************************************************************************)
ClockRuns == \A v \in 0 .. 1 : []<>(phase = "advance" /\ Shown("clk") = v)
=============================================================================
