------------------------------ MODULE Scheduler ------------------------------
(***************************************************************************)
(* What the SystemC kernel promises the processes it runs, without queues, *)
(* lists or indices: one process runs at a time, until it waits; a written *)
(* value is seen after all processes that were ready have run; an event    *)
(* has at most one notification outstanding, the earliest asked for, and   *)
(* when that is due everything sensitive to it becomes ready, once; time   *)
(* goes on, to the next notification, only when nothing is left to do now. *)
(*                                                                         *)
(* due[e] is the time left until e's notification, or Never; a delta       *)
(* notification is one that is due now.                                    *)
(***************************************************************************)
EXTENDS Integers, FiniteSets

CONSTANTS Procs, Events, Signals, Values, InitialValue,
          Sensitive,     \* the processes sensitive to each event
          Announced,     \* the events a signal notifies when it takes a value
          ManyWriters,   \* signals any process may write, one in a delta cycle
          Initialized,   \* processes that run once at the start
          Nobody, MAX_DELAY

VARIABLES due, ready, running, value, next_value, writers, stopping, stage

vars == <<due, ready, running, value, next_value, writers, stopping, stage>>

Never == MAX_DELAY + 1

Init ==
  /\ due = [e \in Events |-> Never]
  /\ ready = Initialized
  /\ running = Nobody
  /\ value = InitialValue
  /\ next_value = value
  /\ writers = [s \in Signals |-> {}]
  /\ stopping = FALSE
  /\ stage = "evaluate"

----------------------------------------------------------------------------
(* Evaluation                                                              *)

Run(p) ==
  /\ stage = "evaluate" /\ running = Nobody
  /\ p \in ready
  /\ running' = p
  /\ ready' = ready \ {p}
  /\ UNCHANGED <<due, value, next_value, writers, stopping, stage>>

(* What the running process may do; it goes on until it waits.             *)
Acts == stage = "evaluate" /\ running # Nobody

NotifyNow(e) ==
  /\ Acts
  /\ ready' = ready \union (Sensitive[e] \ {running})
  /\ due' = [due EXCEPT ![e] = Never]
  /\ UNCHANGED <<running, value, next_value, writers, stopping, stage>>

Notify(e, t) ==
  /\ Acts
  /\ due' = [due EXCEPT ![e] = IF t < @ THEN t ELSE @]
  /\ UNCHANGED <<ready, running, value, next_value, writers, stopping, stage>>

Cancel(e) ==
  /\ Acts
  /\ due' = [due EXCEPT ![e] = Never]
  /\ UNCHANGED <<ready, running, value, next_value, writers, stopping, stage>>

Write(s, v) ==
  /\ Acts
  /\ writers[s] \subseteq {running}
  /\ writers' = [writers EXCEPT ![s] = {running}]
  /\ next_value' = [next_value EXCEPT ![s] = v]
  /\ UNCHANGED <<due, ready, running, value, stopping, stage>>

(* A second writer: the simulation ends with an error.                     *)
Fail(s) ==
  /\ Acts
  /\ ~(writers[s] \subseteq {running})
  /\ stage' = "over"
  /\ running' = Nobody
  /\ UNCHANGED <<due, ready, value, next_value, writers, stopping>>

Stop ==
  /\ Acts
  /\ stopping' = TRUE
  /\ UNCHANGED <<due, ready, running, value, next_value, writers, stage>>

Wait ==
  /\ Acts
  /\ running' = Nobody
  /\ UNCHANGED <<due, ready, value, next_value, writers, stopping, stage>>

EndEvaluate ==
  /\ stage = "evaluate" /\ running = Nobody /\ ready = {}
  /\ stage' = "update"
  /\ UNCHANGED <<due, ready, running, value, next_value, writers, stopping>>

----------------------------------------------------------------------------
(* Update                                                                  *)

Commit(s) ==
  /\ stage = "update"
  /\ value[s] # next_value[s]
  /\ value' = [value EXCEPT ![s] = next_value[s]]
  /\ due' = [e \in Events |-> IF e \in Announced[s][next_value[s]] THEN 0 ELSE due[e]]
  /\ UNCHANGED <<ready, running, next_value, stopping, stage>>
  /\ writers' = [writers EXCEPT ![s] = IF s \in ManyWriters THEN {} ELSE @]

(* Nothing to update, but next time another process may write.             *)
Release(s) ==
  /\ stage = "update"
  /\ value[s] = next_value[s] /\ s \in ManyWriters
  /\ writers' = [writers EXCEPT ![s] = {}]
  /\ UNCHANGED <<due, ready, running, value, next_value, stopping, stage>>

EndUpdate ==
  /\ stage = "update"
  /\ value = next_value
  /\ \A s \in ManyWriters : writers[s] = {}
  /\ stage' = IF stopping THEN "over" ELSE "notify"
  /\ UNCHANGED <<due, ready, running, value, next_value, writers, stopping>>

----------------------------------------------------------------------------
(* Notification                                                            *)

Trigger(e) ==
  /\ stage = "notify"
  /\ due[e] = 0
  /\ due' = [due EXCEPT ![e] = Never]
  /\ ready' = ready \union Sensitive[e]
  /\ UNCHANGED <<running, value, next_value, writers, stopping, stage>>

NothingDue == \A e \in Events : due[e] # 0

Resume ==
  /\ stage = "notify" /\ NothingDue
  /\ ready # {}
  /\ stage' = "evaluate"
  /\ UNCHANGED <<due, ready, running, value, next_value, writers, stopping>>

Advance ==
  /\ stage = "notify" /\ NothingDue
  /\ ready = {}
  /\ \E e \in Events :
       /\ due[e] # Never
       /\ \A f \in Events : due[e] <= due[f]
       /\ due' = [f \in Events |-> IF due[f] = Never THEN Never ELSE due[f] - due[e]]
  /\ UNCHANGED <<ready, running, value, next_value, writers, stopping, stage>>

(* No notification is left: sc_start() returns.                            *)
Starve ==
  /\ stage = "notify"
  /\ ready = {}
  /\ \A e \in Events : due[e] = Never
  /\ stage' = "over"
  /\ UNCHANGED <<due, ready, running, value, next_value, writers, stopping>>

Next ==
  \/ \E p \in Procs : Run(p)
  \/ \E e \in Events : NotifyNow(e) \/ Cancel(e) \/ \E t \in 0 .. MAX_DELAY : Notify(e, t)
  \/ \E s \in Signals : Fail(s) \/ \E v \in Values : Write(s, v)
  \/ Stop \/ Wait \/ EndEvaluate
  \/ \E s \in Signals : Commit(s) \/ Release(s)
  \/ EndUpdate
  \/ \E e \in Events : Trigger(e)
  \/ Resume \/ Advance \/ Starve

Spec == Init /\ [][Next]_vars
=============================================================================
