------------------------------ MODULE SimContext ------------------------------
(***************************************************************************)
(* sc_simcontext and what it works with: the queues of runnable processes  *)
(* (sc_runnable), the notifications of events (sc_event), the signals and  *)
(* their list of updates (sc_signal, sc_prim_channel), in the vendored     *)
(* systemc-2.3.3.  Variables keep the names of the members; positions in   *)
(* m_delta_events are those of the C++ vector, from 0, with -1 for none.   *)
(*                                                                         *)
(* A process is run by curr until it waits or returns; the lower-case      *)
(* operators are what it can call meanwhile, to be combined into the       *)
(* actions of a program by the modules that extend this one.               *)
(***************************************************************************)
EXTENDS Integers, SequencesExt

CONSTANTS Methods, Threads,     \* the processes, by kind
          Events, Signals, Values, InitialValue,
          Static,        \* the processes sensitive to an event, as registered
          Announced,     \* the events a signal notifies when it takes a value
          ManyWriters,   \* the signals with the policy SC_MANY_WRITERS
          Initialized,   \* the processes without dont_initialize
          Nobody, NoEvent,
          MAX_DELAY      \* bound on the times events are notified for

Procs == Methods \union Threads

ASSUME KernelAssumption ==
  /\ Methods \intersect Threads = {} /\ IsFiniteSet(Procs)
  /\ Nobody \notin Procs /\ NoEvent \notin Events
  /\ InitialValue \in [Signals -> Values]
  /\ Static \in [Events -> Seq(Procs)]
  /\ \A e \in Events : IsInjective(Static[e])      \* add_static_event
  /\ Announced \in [Signals -> [Values -> Seq(Events)]]
  /\ \A s \in Signals, v \in Values : IsInjective(Announced[s][v])
  /\ ManyWriters \subseteq Signals /\ Initialized \subseteq Procs
  /\ MAX_DELAY \in Nat

VARIABLES
  m_methods_push, m_methods_pop, m_threads_push, m_threads_pop, curr,
  m_notify_type, m_delta_event_index, m_timed,   \* members of each event
  m_delta_events, m_timed_events,
  m_cur_val, m_new_val, m_writer_p,              \* members of each signal
  m_update_list, m_forced_stop,
  phase,       \* where crunch() and simulate() are
  i            \* how many of m_delta_events are still to be triggered

queueVars  == <<m_methods_push, m_methods_pop, m_threads_push, m_threads_pop>>
noteVars   == <<m_notify_type, m_delta_event_index, m_timed, m_delta_events>>
signalVars == <<m_cur_val, m_new_val, m_writer_p, m_update_list>>

kernelVars == <<queueVars, curr, noteVars, m_timed_events, signalVars, m_forced_stop,
                phase, i>>

Never == MAX_DELAY + 1       \* m_timed is a null pointer

(***************************************************************************)
(* An entry of the timed queue; a cancelled one stays in it, without       *)
(* event.  Times are counted from m_curr_time, which only ever grows.      *)
(***************************************************************************)
Entry(e, t) == [event |-> e, notify_time |-> t]

(* prepare_to_simulate: the processes are pushed in the order of a table.  *)
Init ==
  /\ m_methods_push \in SetToSeqs(Initialized \intersect Methods)
  /\ m_threads_push \in SetToSeqs(Initialized \intersect Threads)
  /\ m_methods_pop = << >>
  /\ m_threads_pop = << >>
  /\ curr = Nobody
  /\ m_notify_type = [e \in Events |-> "NONE"]
  /\ m_delta_event_index = [e \in Events |-> -1]
  /\ m_timed = [e \in Events |-> Never]
  /\ m_delta_events = << >>
  /\ m_timed_events = {}
  /\ m_cur_val = InitialValue
  /\ m_new_val = m_cur_val
  /\ m_writer_p = [s \in Signals |-> Nobody]
  /\ m_update_list = << >>
  /\ m_forced_stop = FALSE
  /\ phase = "evaluate"
  /\ i = 0

----------------------------------------------------------------------------
(* sc_runnable                                                             *)

Queues == {m_methods_push, m_methods_pop, m_threads_push, m_threads_pop}

is_runnable(p) == \E q \in Queues : p \in Range(q)
is_empty       == \A q \in Queues : q = << >>

(* The elements of s that are in S, in their order.                        *)
Those(s, S) ==
  LET first[k \in 0 .. Len(s)] ==      \* of the first k of s
        IF k = 0 THEN << >>
        ELSE IF s[k] \in S THEN Append(first[k - 1], s[k]) ELSE first[k - 1]
  IN  first[Len(s)]

(***************************************************************************)
(* trigger_static of every process sensitive to e, from the last one       *)
(* registered to the first: a process queued already, or running now, is   *)
(* passed over.                                                            *)
(***************************************************************************)
Woken(e, kind) ==
  Those(Reverse(Static[e]), {p \in kind : ~is_runnable(p) /\ p # curr})

(* Variant with a bug: methods join the pass that is under way.            *)
wake_at_once(e) ==
  /\ m_methods_pop' = m_methods_pop \o Woken(e, Methods)
  /\ m_threads_push' = m_threads_push \o Woken(e, Threads)
  /\ UNCHANGED <<m_methods_push, m_threads_pop>>

wake(e) ==
  /\ m_methods_push' = m_methods_push \o Woken(e, Methods)
  /\ m_threads_push' = m_threads_push \o Woken(e, Threads)
  /\ UNCHANGED <<m_methods_pop, m_threads_pop>>

----------------------------------------------------------------------------
(* sc_event                                                                *)

add_delta_event(e) ==
  /\ m_delta_events' = Append(m_delta_events, e)
  /\ m_delta_event_index' = [m_delta_event_index EXCEPT ![e] = Len(m_delta_events)]
  /\ m_notify_type' = [m_notify_type EXCEPT ![e] = "DELTA"]

(* Variant with a bug: the element that moves is not told its new index.   *)
remove_delta_event_silent(e) ==
  LET k    == m_delta_event_index[e] + 1
      last == Len(m_delta_events)
  IN  /\ m_delta_events' = SubSeq([m_delta_events EXCEPT ![k] = m_delta_events[last]],
                                  1, last - 1)
      /\ m_delta_event_index' = [m_delta_event_index EXCEPT ![e] = -1]

(* The last element is moved into the place of e.                          *)
remove_delta_event(e) ==
  LET k    == m_delta_event_index[e] + 1
      last == Len(m_delta_events)
  IN  /\ m_delta_events' = SubSeq([m_delta_events EXCEPT ![k] = m_delta_events[last]],
                                  1, last - 1)
      /\ m_delta_event_index' =
           [f \in Events |-> IF f = e THEN -1
                             ELSE IF f = m_delta_events[last] THEN k - 1
                             ELSE m_delta_event_index[f]]

(* The entry of e is left in the queue without its event.                  *)
Buried(e) ==
  IF m_notify_type[e] # "TIMED" THEN m_timed_events
  ELSE (m_timed_events \ {Entry(e, m_timed[e])}) \union {Entry(NoEvent, m_timed[e])}

cancel(e) ==
  /\ \/ /\ m_notify_type[e] = "DELTA"
        /\ remove_delta_event(e)
     \/ /\ m_notify_type[e] # "DELTA"
        /\ UNCHANGED <<m_delta_events, m_delta_event_index>>
  /\ m_timed_events' = Buried(e)
  /\ m_timed' = [m_timed EXCEPT ![e] = Never]
  /\ m_notify_type' = [m_notify_type EXCEPT ![e] = "NONE"]

notify_now(e) == cancel(e) /\ wake(e)

(* Variant with a bug: the last notification asked for counts.             *)
IsLast(e, t) == TRUE

IsEarlier(e, t) == m_notify_type[e] = "TIMED" => t < m_timed[e]

notify(e, t) ==
  \/ /\ m_notify_type[e] = "DELTA" \/ (t > 0 /\ ~IsEarlier(e, t))
     /\ UNCHANGED <<noteVars, m_timed_events>>
  \/ /\ m_notify_type[e] # "DELTA" /\ t = 0
     /\ m_timed_events' = Buried(e)
     /\ m_timed' = [m_timed EXCEPT ![e] = Never]
     /\ add_delta_event(e)
  \/ /\ m_notify_type[e] # "DELTA" /\ t > 0 /\ IsEarlier(e, t)
     /\ m_timed_events' = Buried(e) \union {Entry(e, t)}
     /\ m_timed' = [m_timed EXCEPT ![e] = t]
     /\ m_notify_type' = [m_notify_type EXCEPT ![e] = "TIMED"]
     /\ UNCHANGED <<m_delta_events, m_delta_event_index>>

(* The notification of e has come.                                         *)
trigger(e) ==
  /\ m_notify_type' = [m_notify_type EXCEPT ![e] = "NONE"]
  /\ m_delta_event_index' = [m_delta_event_index EXCEPT ![e] = -1]
  /\ m_timed' = [m_timed EXCEPT ![e] = Never]
  /\ wake(e)

----------------------------------------------------------------------------
(* sc_signal                                                               *)

(* check_write: the first writer is remembered.                            *)
may_write(s) == m_writer_p[s] \in {Nobody, curr}

(* Variants with a bug: a signal requests its update for every write, or   *)
(* only for a new value, though others wait for its writer to be forgotten. *)
RequestsAlways(s, v) == TRUE
RequestsChanged(s, v) == v # m_new_val[s] /\ s \notin Range(m_update_list)

Requests(s, v) ==
  /\ v # m_new_val[s] \/ s \in ManyWriters
  /\ s \notin Range(m_update_list)

(* The running process writes; the list of updates grows at its head.      *)
write(s, v) ==
  /\ m_new_val' = [m_new_val EXCEPT ![s] = v]
  /\ m_writer_p' = [m_writer_p EXCEPT ![s] = curr]
  /\ m_update_list' = (IF Requests(s, v) THEN <<s>> ELSE << >>) \o m_update_list
  /\ UNCHANGED m_cur_val

----------------------------------------------------------------------------
(* crunch: evaluation.  All the methods that are queued run, then all the  *)
(* threads; what they queue is for the next pass.                          *)

toggle(push, pop) == IF pop = << >> THEN pop' = push /\ push' = << >>
                                    ELSE UNCHANGED <<push, pop>>

BeginPass ==
  /\ phase = "evaluate" /\ phase' = "methods"
  /\ toggle(m_methods_push, m_methods_pop)
  /\ UNCHANGED <<m_threads_push, m_threads_pop, curr, noteVars, m_timed_events,
                 signalVars, m_forced_stop, i>>

PopMethod ==
  /\ phase = "methods" /\ curr = Nobody
  /\ m_methods_pop # << >>
  /\ curr' = Head(m_methods_pop)
  /\ m_methods_pop' = Tail(m_methods_pop)
  /\ UNCHANGED <<m_methods_push, m_threads_push, m_threads_pop, noteVars,
                 m_timed_events, signalVars, m_forced_stop, phase, i>>

EndMethods ==
  /\ phase = "methods" /\ curr = Nobody
  /\ m_methods_pop = << >>
  /\ phase' = "threads"
  /\ toggle(m_threads_push, m_threads_pop)
  /\ UNCHANGED <<m_methods_push, m_methods_pop, curr, noteVars, m_timed_events,
                 signalVars, m_forced_stop, i>>

PopThread ==
  /\ phase = "threads" /\ curr = Nobody
  /\ m_threads_pop # << >>
  /\ curr' = Head(m_threads_pop)
  /\ m_threads_pop' = Tail(m_threads_pop)
  /\ UNCHANGED <<m_methods_push, m_methods_pop, m_threads_push, noteVars,
                 m_timed_events, signalVars, m_forced_stop, phase, i>>

EndPass ==
  /\ phase = "threads" /\ curr = Nobody
  /\ m_threads_pop = << >>
  /\ phase' = IF is_empty THEN "update" ELSE "evaluate"
  /\ UNCHANGED <<queueVars, curr, noteVars, m_timed_events, signalVars, m_forced_stop, i>>

Running == phase \in {"methods", "threads"} /\ curr # Nobody

(* A method returns, or a thread waits for its static sensitivity.         *)
yields == Running /\ curr' = Nobody

----------------------------------------------------------------------------
(* crunch: update and notification                                         *)

(***************************************************************************)
(* The update of one signal.  notify_next_delta is an error if the event   *)
(* has a notification already: there is no step then.                      *)
(***************************************************************************)
Update ==
  /\ phase = "update" /\ m_update_list # << >>
  /\ LET s == Head(m_update_list)
         changed == IF m_new_val[s] = m_cur_val[s] THEN << >>
                    ELSE Announced[s][m_new_val[s]]
     IN  /\ \A e \in Range(changed) : m_notify_type[e] = "NONE"
         /\ m_writer_p' = [m_writer_p EXCEPT ![s] = IF s \in ManyWriters THEN Nobody ELSE @]
         /\ m_cur_val' = [m_cur_val EXCEPT ![s] = m_new_val[s]]
         /\ m_delta_events' = m_delta_events \o changed
         /\ m_delta_event_index' = [e \in Events |->
              IF e \in Range(changed)
                THEN Len(m_delta_events) + (CHOOSE k \in DOMAIN changed : changed[k] = e) - 1
                ELSE m_delta_event_index[e]]
         /\ m_notify_type' = [e \in Events |->
              IF e \in Range(changed) THEN "DELTA" ELSE m_notify_type[e]]
  /\ m_update_list' = Tail(m_update_list)
  /\ UNCHANGED <<queueVars, curr, m_timed, m_timed_events, m_new_val, m_forced_stop,
                 phase, i>>

EndUpdate ==
  /\ phase = "update" /\ m_update_list = << >>
  /\ phase' = IF m_forced_stop THEN "over" ELSE "notify"
  /\ i' = Len(m_delta_events)
  /\ UNCHANGED <<queueVars, curr, noteVars, m_timed_events, signalVars, m_forced_stop>>

(* From the last to the first.                                             *)
NotifyDelta ==
  /\ phase = "notify" /\ i > 0
  /\ trigger(m_delta_events[i])
  /\ i' = i - 1
  /\ UNCHANGED <<curr, m_delta_events, m_timed_events, signalVars, m_forced_stop, phase>>

EndNotify ==
  /\ phase = "notify" /\ i = 0
  /\ m_delta_events' = << >>
  /\ phase' = IF is_empty THEN "advance" ELSE "evaluate"
  /\ UNCHANGED <<queueVars, curr, m_notify_type, m_delta_event_index, m_timed,
                 m_timed_events, signalVars, m_forced_stop, i>>

----------------------------------------------------------------------------
(* simulate: the passing of time                                           *)

Live == {x \in m_timed_events : x.event # NoEvent}

(***************************************************************************)
(* do_timestep, to the first entry that is alive; next_time drops the      *)
(* cancelled ones before it.                                               *)
(***************************************************************************)
Advance ==
  /\ phase = "advance"
  /\ \E first \in Live :
       LET step == first.notify_time
       IN  /\ \A x \in Live : step <= x.notify_time
           /\ m_timed_events' =
                {Entry(x.event, x.notify_time - step) :
                   x \in {y \in m_timed_events : y.notify_time >= step}}
           /\ m_timed' = [e \in Events |->
                IF m_notify_type[e] = "TIMED" THEN m_timed[e] - step ELSE m_timed[e]]
  /\ phase' = "fire"
  /\ UNCHANGED <<queueVars, curr, m_notify_type, m_delta_event_index, m_delta_events,
                 signalVars, m_forced_stop, i>>

Fire(x) ==
  /\ phase = "fire" /\ x.notify_time = 0
  /\ m_timed_events' = m_timed_events \ {x}
  /\ IF x.event = NoEvent THEN UNCHANGED <<queueVars, noteVars>>
                          ELSE trigger(x.event) /\ UNCHANGED m_delta_events
  /\ UNCHANGED <<curr, signalVars, m_forced_stop, phase, i>>

EndFire ==
  /\ phase = "fire"
  /\ \A x \in m_timed_events : x.notify_time # 0
  /\ phase' = IF is_empty THEN "advance" ELSE "evaluate"
  /\ UNCHANGED <<queueVars, curr, noteVars, m_timed_events, signalVars, m_forced_stop, i>>

(* No notification is left: sc_start() returns.                            *)
Starve ==
  /\ phase = "advance" /\ Live = {}
  /\ m_timed_events' = {}
  /\ phase' = "over"
  /\ UNCHANGED <<queueVars, curr, noteVars, signalVars, m_forced_stop, i>>

(* What the kernel does by itself, in its order.                           *)
KernelStep ==
  \/ BeginPass \/ PopMethod \/ EndMethods \/ PopThread \/ EndPass
  \/ Update \/ EndUpdate \/ NotifyDelta \/ EndNotify
  \/ Advance \/ (\E x \in m_timed_events : Fire(x)) \/ EndFire \/ Starve

Over == phase = "over" /\ UNCHANGED kernelVars
=============================================================================
