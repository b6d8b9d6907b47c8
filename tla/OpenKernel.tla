------------------------------ MODULE OpenKernel ------------------------------
(***************************************************************************)
(* The kernel with a program of which nothing is known: whenever a process *)
(* runs it may notify or cancel any event that is not a signal's own,      *)
(* write any signal, ask for the end of the simulation, or wait, as often  *)
(* and in any order it likes.                                              *)
(***************************************************************************)
EXTENDS SimContext

SignalEvents == UNION {Range(Announced[s][v]) : s \in Signals, v \in Values}
UserEvents   == Events \ SignalEvents

callVars == <<curr, m_forced_stop, phase, i>>

NotifyNow(e) ==
  /\ Running
  /\ notify_now(e)
  /\ UNCHANGED <<callVars, signalVars>>

Notify(e, t) ==
  /\ Running
  /\ notify(e, t)
  /\ UNCHANGED <<callVars, queueVars, signalVars>>

Cancel(e) ==
  /\ Running
  /\ cancel(e)
  /\ UNCHANGED <<callVars, queueVars, signalVars>>

Write(s, v) ==
  /\ Running
  /\ may_write(s)
  /\ write(s, v)
  /\ UNCHANGED <<callVars, queueVars, noteVars, m_timed_events>>

(* sc_signal_invalid_writer: the error ends the simulation.                *)
Fail(s) ==
  /\ Running
  /\ ~may_write(s)
  /\ phase' = "over" /\ curr' = Nobody
  /\ UNCHANGED <<queueVars, noteVars, m_timed_events, signalVars, m_forced_stop, i>>

Stop ==
  /\ Running
  /\ m_forced_stop' = TRUE
  /\ UNCHANGED <<queueVars, curr, noteVars, m_timed_events, signalVars, phase, i>>

Wait ==
  /\ yields
  /\ UNCHANGED <<queueVars, noteVars, m_timed_events, signalVars, m_forced_stop, phase, i>>

Call ==
  \/ \E e \in UserEvents :
       NotifyNow(e) \/ Cancel(e) \/ \E t \in 0 .. MAX_DELAY : Notify(e, t)
  \/ \E s \in Signals : Fail(s) \/ \E v \in Values : Write(s, v)
  \/ Stop

Next == KernelStep \/ Call \/ Wait \/ Over

(* The kernel does not rest, and no process runs for ever without waiting. *)
Spec == Init /\ [][Next]_kernelVars /\ WF_kernelVars(KernelStep) /\ WF_kernelVars(Wait)

----------------------------------------------------------------------------
Times == 0 .. MAX_DELAY

TypeOK ==
  /\ m_methods_push \in Seq(Methods) /\ m_methods_pop \in Seq(Methods)
  /\ m_threads_push \in Seq(Threads) /\ m_threads_pop \in Seq(Threads)
  /\ curr \in Procs \union {Nobody}
  /\ m_notify_type \in [Events -> {"NONE", "DELTA", "TIMED"}]
  /\ m_delta_event_index \in [Events -> Int]
  /\ m_timed \in [Events -> Times \union {Never}]
  /\ m_delta_events \in Seq(Events)
  /\ m_timed_events \subseteq
       [event : Events \union {NoEvent}, notify_time : Times]
  /\ m_cur_val \in [Signals -> Values] /\ m_new_val \in [Signals -> Values]
  /\ m_writer_p \in [Signals -> Procs \union {Nobody}]
  /\ m_update_list \in Seq(Signals)
  /\ m_forced_stop \in BOOLEAN
  /\ phase \in {"evaluate", "methods", "threads", "update", "notify", "advance",
                "fire", "over"}
  /\ i \in Nat

(* What is left of the records, queues and phases for who only sees what   *)
(* the processes are promised.                                             *)
due == [e \in Events |-> CASE m_notify_type[e] = "NONE"  -> Never
                           [] m_notify_type[e] = "DELTA" -> 0
                           [] m_notify_type[e] = "TIMED" -> m_timed[e]]

ready   == {p \in Procs : is_runnable(p)}
writers == [s \in Signals |-> {m_writer_p[s]} \ {Nobody}]

stage == CASE phase \in {"evaluate", "methods", "threads"} -> "evaluate"
           [] phase \in {"notify", "advance", "fire"}      -> "notify"
           [] OTHER                                        -> phase

scheduler == INSTANCE Scheduler WITH
  Sensitive <- [e \in Events |-> Range(Static[e])],
  Announced <- [s \in Signals |-> [v \in Values |-> Range(Announced[s][v])]],
  running <- curr, value <- m_cur_val, next_value <- m_new_val, stopping <- m_forced_stop

(***************************************************************************)
(* The kernel implements the scheduling semantics: no notification is lost *)
(* or acted on twice, whatever was cancelled, made earlier or overtaken by *)
(* another; no process is started twice for one notification or forgotten; *)
(* no value is seen before the update phase or missed by it; and time does *)
(* not pass while something is left to do.                                 *)
(***************************************************************************)
ImplementsScheduler == scheduler!Spec

(***************************************************************************)
(* The three records an event's notification leaves agree: its type, its   *)
(* index in the list of delta notifications (which moves when another one  *)
(* is cancelled), and its entry in the timed queue, of which it never has  *)
(* more than one that is alive (sc_event.cpp:65-170).                      *)
(***************************************************************************)
Pending == IF phase = "notify" THEN i ELSE Len(m_delta_events)

NotificationsAgree ==
  /\ \A e \in Events :
       /\ m_notify_type[e] = "DELTA" =>
            /\ m_delta_event_index[e] \in 0 .. Pending - 1
            /\ m_delta_events[m_delta_event_index[e] + 1] = e
       /\ m_notify_type[e] = "TIMED" => Entry(e, m_timed[e]) \in m_timed_events
       /\ m_notify_type[e] # "TIMED" => m_timed[e] = Never
  /\ \A k \in 1 .. Pending :
       LET e == m_delta_events[k]
       IN  m_notify_type[e] = "DELTA" /\ m_delta_event_index[e] = k - 1
  /\ \A x \in Live :
       m_notify_type[x.event] = "TIMED" /\ m_timed[x.event] = x.notify_time
  /\ \A x \in Live : x.notify_time > 0 \/ (x.notify_time = 0 /\ phase = "fire")

(***************************************************************************)
(* The lists that are linked through one pointer per element hold no       *)
(* element twice, nor one process in two queues or running and queued: its *)
(* pointer would be overwritten and the rest of a queue cut off.           *)
(***************************************************************************)
ListsSound ==
  /\ IsInjective(m_methods_push \o m_methods_pop \o m_threads_push \o m_threads_pop)
  /\ ~is_runnable(curr)
  /\ IsInjective(m_update_list)
  /\ \A s \in Signals : m_new_val[s] # m_cur_val[s] => s \in Range(m_update_list)

(***************************************************************************)
(* A process that has been queued gets to run, though others may notify    *)
(* one another immediately for ever: they are queued for a later pass.     *)
(***************************************************************************)
QueuedRuns == \A p \in Procs : is_runnable(p) ~> (curr = p \/ phase = "over")
=============================================================================
