----------------------------- MODULE KernelProofs -----------------------------
(***************************************************************************)
(* Whatever the program does, and however many processes, events and       *)
(* signals it has: the records of notifications agree, the queues of       *)
(* processes and the list of updates are sound, and the kernel implements  *)
(* the scheduling semantics.                                               *)
(***************************************************************************)
EXTENDS OpenKernel, RecursionProofs, SequenceTheorems, FiniteSetTheorems

(* What the proof needs of the types of the variables it is about.         *)
NoteTypes ==
  /\ m_notify_type \in [Events -> {"NONE", "DELTA", "TIMED"}]
  /\ m_delta_event_index \in [Events -> Int]
  /\ m_timed \in [Events -> Int]
  /\ m_delta_events \in Seq(Events)
  /\ m_timed_events \subseteq [event : Events \union {NoEvent}, notify_time : Int]
  /\ i \in Nat
  /\ phase = "notify" => i <= Len(m_delta_events)
  /\ m_new_val \in [Signals -> Values]
  /\ m_update_list \in Seq(Signals)

(* The parts of NotificationsAgree: of each event, the list and the queue. *)
RecordOf(e) ==
  /\ m_notify_type[e] = "DELTA" =>
       /\ m_delta_event_index[e] \in 0 .. Pending - 1
       /\ m_delta_events[m_delta_event_index[e] + 1] = e
  /\ m_notify_type[e] = "TIMED" => Entry(e, m_timed[e]) \in m_timed_events
  /\ m_notify_type[e] # "TIMED" => m_timed[e] = Never

ListAgrees ==
  \A k \in 1 .. Pending :
    /\ m_notify_type[m_delta_events[k]] = "DELTA"
    /\ m_delta_event_index[m_delta_events[k]] = k - 1

QueueAgrees ==
  \A x \in Live :
    /\ m_notify_type[x.event] = "TIMED"
    /\ m_timed[x.event] = x.notify_time
    /\ x.notify_time > 0 \/ (x.notify_time = 0 /\ phase = "fire")

NoteInv ==
  /\ NoteTypes
  /\ \A e \in Events : RecordOf(e)
  /\ ListAgrees
  /\ QueueAgrees

LEMMA NoteInvImplies == NoteInv => NotificationsAgree
BY DEF NoteInv, NotificationsAgree, RecordOf, ListAgrees, QueueAgrees

LEMMA NoteInit == Init => NoteInv
<1> SUFFICES ASSUME Init PROVE NoteInv
  OBVIOUS
<1> USE DEF Init
<1>1. NoteTypes
  BY KernelAssumption DEF NoteTypes, Never
<1>2. Pending = 0 /\ Live = {}
  BY DEF Pending, Live
<1>3. ASSUME NEW e \in Events
      PROVE  RecordOf(e)
  BY DEF RecordOf
<1> QED BY <1>1, <1>2, <1>3 DEF NoteInv, ListAgrees, QueueAgrees

(* The events' records are untouched by all that concerns only processes,  *)
(* signals or the phases of an evaluation.                                 *)
LEMMA NoteUnchanged ==
  ASSUME NoteInv, UNCHANGED <<noteVars, m_timed_events, i, m_new_val, m_update_list>>,
         phase' = phase \/ (phase # "notify" /\ phase # "fire" /\ phase' # "notify")
  PROVE  NoteInv'
<1> USE DEF NoteInv, noteVars
<1>1. NoteTypes'
  BY DEF NoteTypes
<1>2. Pending' = Pending
  BY DEF Pending
<1>3. Live' = Live
  BY DEF Live
<1>4. ASSUME NEW e \in Events
      PROVE  RecordOf(e)'
  <2>1. RecordOf(e)
    OBVIOUS
  <2> QED BY <1>2, <2>1 DEF RecordOf
<1>5. ListAgrees'
  BY <1>2 DEF ListAgrees
<1>6. QueueAgrees'
  BY <1>3 DEF QueueAgrees
<1> QED BY <1>1, <1>4, <1>5, <1>6

----------------------------------------------------------------------------
(* The list of delta notifications after the removal of one: the last one  *)
(* in its place, the others where they were.                               *)
LEMMA RemovedList ==
  ASSUME NEW S, NEW l \in Seq(S), NEW k \in 1 .. Len(l), NEW r,
         r = SubSeq([l EXCEPT ![k] = l[Len(l)]], 1, Len(l) - 1)
  PROVE  /\ r \in Seq(S)
         /\ Len(r) = Len(l) - 1
         /\ \A j \in 1 .. Len(l) - 1 : r[j] = IF j = k THEN l[Len(l)] ELSE l[j]
<1> DEFINE m == [l EXCEPT ![k] = l[Len(l)]]
<1>1. Len(l) \in Nat /\ l \in [1 .. Len(l) -> S]
  OBVIOUS
<1>2. l[Len(l)] \in S
  BY <1>1
<1>3. m \in Seq(S) /\ Len(m) = Len(l)
  BY <1>2, ExceptSeq
<1>4. \A j \in 1 .. Len(l) : m[j] = IF j = k THEN l[Len(l)] ELSE l[j]
  BY <1>1
<1> HIDE DEF m
<1>5. r = SubSeq(m, 1, Len(l) - 1)
  BY DEF m
<1>6. /\ r \in Seq(S)
      /\ Len(r) = Len(l) - 1
      /\ \A j \in 1 .. Len(l) - 1 : r[j] = m[j]
  BY <1>1, <1>3, <1>5
<1> QED BY <1>1, <1>4, <1>6

(* remove_delta_event keeps list and indices in agreement.                 *)
LEMMA RemoveKeeps ==
  ASSUME NoteInv, NEW e \in Events, m_notify_type[e] = "DELTA", Pending = Len(m_delta_events),
         remove_delta_event(e)
  PROVE  /\ m_delta_events' \in Seq(Events \ {e})
         /\ m_delta_event_index' \in [Events -> Int]
         /\ m_delta_event_index'[e] = -1
         /\ \A k \in 1 .. Len(m_delta_events') :
              /\ m_notify_type[m_delta_events'[k]] = "DELTA"
              /\ m_delta_event_index'[m_delta_events'[k]] = k - 1
         /\ \A f \in Events \ {e} : m_notify_type[f] = "DELTA" =>
              /\ m_delta_event_index'[f] \in 0 .. Len(m_delta_events') - 1
              /\ m_delta_events'[m_delta_event_index'[f] + 1] = f
<1> DEFINE l == m_delta_events
           n == Len(l)
           k == m_delta_event_index[e] + 1
<1>1. /\ l \in Seq(Events)
      /\ n \in Nat
      /\ m_delta_event_index \in [Events -> Int]
  BY DEF NoteInv, NoteTypes
<1>2. \A f \in Events : m_notify_type[f] = "DELTA" =>
        m_delta_event_index[f] \in 0 .. n - 1 /\ l[m_delta_event_index[f] + 1] = f
  BY DEF NoteInv, RecordOf
<1>3. \A j \in 1 .. n : /\ l[j] \in Events
                        /\ m_notify_type[l[j]] = "DELTA"
                        /\ m_delta_event_index[l[j]] = j - 1
  BY <1>1 DEF NoteInv, ListAgrees
<1>4. k \in 1 .. n /\ l[k] = e
  BY <1>1, <1>2
<1>5. /\ l' \in Seq(Events)
      /\ Len(l') = n - 1
      /\ \A j \in 1 .. n - 1 : l'[j] = IF j = k THEN l[n] ELSE l[j]
  BY <1>1, <1>4, RemovedList DEF remove_delta_event
<1>6. \A f \in Events : m_delta_event_index'[f] =
        IF f = e THEN -1 ELSE IF f = l[n] THEN k - 1 ELSE m_delta_event_index[f]
  BY DEF remove_delta_event
<1>7. m_delta_event_index' \in [Events -> Int] /\ m_delta_event_index'[e] = -1
  BY <1>1, <1>4 DEF remove_delta_event
<1> k \in Int /\ m_delta_event_index[e] = k - 1
  BY <1>1
<1> HIDE DEF k
<1>8. \A j \in 1 .. n - 1 : l'[j] # e
  <2> SUFFICES ASSUME NEW j \in 1 .. n - 1, l'[j] = e PROVE FALSE
    OBVIOUS
  <2>1. n \in 1 .. n /\ j \in 1 .. n
    BY <1>1
  <2>2. m_delta_event_index[l[n]] = n - 1 /\ m_delta_event_index[l[j]] = j - 1
    BY <1>3, <2>1
  <2>3. l'[j] = IF j = k THEN l[n] ELSE l[j]
    BY <1>5
  <2> QED BY <1>1, <2>2, <2>3
<1>9. l' \in Seq(Events \ {e})
  <2>1. Len(l') \in Nat /\ \A j \in 1 .. Len(l') : l'[j] \in Events \ {e}
    BY <1>1, <1>5, <1>8
  <2> QED BY <1>5, <2>1
<1>10. ASSUME NEW j \in 1 .. n - 1
       PROVE  m_notify_type[l'[j]] = "DELTA" /\ m_delta_event_index'[l'[j]] = j - 1
  <2>1. /\ n \in 1 .. n /\ l[n] \in Events
        /\ m_notify_type[l[n]] = "DELTA" /\ m_delta_event_index[l[n]] = n - 1
    BY <1>1, <1>3
  <2>2. /\ j \in 1 .. n /\ l[j] \in Events
        /\ m_notify_type[l[j]] = "DELTA" /\ m_delta_event_index[l[j]] = j - 1
    BY <1>1, <1>3
  <2>3. l'[j] # e
    BY <1>8
  <2>4. CASE j = k
    <3>1. l'[j] = l[n]
      BY <1>5, <2>4
    <3>2. m_delta_event_index'[l[n]] = k - 1
      BY <1>6, <2>1, <2>3, <3>1
    <3> QED BY <2>1, <2>4, <3>1, <3>2
  <2>5. CASE j # k
    <3>1. l'[j] = l[j]
      BY <1>5, <2>5
    <3>2. l[j] # l[n]
      BY <1>1, <2>1, <2>2
    <3>3. m_delta_event_index'[l[j]] = j - 1
      BY <1>6, <2>2, <2>3, <3>1, <3>2
    <3> QED BY <2>2, <3>1, <3>3
  <2> QED BY <2>4, <2>5
<1>11. ASSUME NEW f \in Events \ {e}, m_notify_type[f] = "DELTA"
       PROVE  /\ m_delta_event_index'[f] \in 0 .. n - 2
              /\ l'[m_delta_event_index'[f] + 1] = f
  <2>1. CASE f = l[n]
    <3>1. m_delta_event_index'[f] = k - 1
      BY <1>6, <2>1
    <3>2. k # n
      BY <1>4, <2>1
    <3> QED BY <1>1, <1>4, <1>5, <2>1, <3>1, <3>2
  <2>2. CASE f # l[n]
    <3> DEFINE j == m_delta_event_index[f]
    <3>1. m_delta_event_index'[f] = j /\ j \in 0 .. n - 1 /\ l[j + 1] = f
      BY <1>2, <1>6, <1>11, <2>2
    <3>2. j + 1 # n /\ j + 1 # k
      BY <1>4, <2>2, <3>1
    <3> HIDE DEF j
    <3> QED BY <1>1, <1>5, <3>1, <3>2
  <2> QED BY <2>1, <2>2
<1>12. \A j \in 1 .. Len(l') :
         m_notify_type[l'[j]] = "DELTA" /\ m_delta_event_index'[l'[j]] = j - 1
  BY <1>5, <1>10
<1>13. \A f \in Events \ {e} : m_notify_type[f] = "DELTA" =>
         /\ m_delta_event_index'[f] \in 0 .. Len(l') - 1
         /\ l'[m_delta_event_index'[f] + 1] = f
  BY <1>1, <1>5, <1>11
<1> QED BY <1>7, <1>9, <1>12, <1>13

----------------------------------------------------------------------------
(* The entries of the timed queue after the one of e has been buried.      *)
LEMMA BuriedEntries ==
  ASSUME NoteInv, NEW e \in Events
  PROVE  /\ Buried(e) \subseteq [event : Events \union {NoEvent}, notify_time : Int]
         /\ \A x \in Buried(e) : x.event # NoEvent => x \in Live /\ x.event # e
         /\ \A f \in Events \ {e} : m_notify_type[f] = "TIMED" =>
              Entry(f, m_timed[f]) \in Buried(e)
<1>1. /\ m_timed[e] \in Int
      /\ m_timed_events \subseteq [event : Events \union {NoEvent}, notify_time : Int]
  BY DEF NoteInv, NoteTypes
<1>2. Buried(e) \subseteq [event : Events \union {NoEvent}, notify_time : Int]
  BY <1>1 DEF Buried, Entry
<1>3. ASSUME NEW x \in Buried(e), x.event # NoEvent
      PROVE  x \in Live /\ x.event # e
  <2>1. x \in m_timed_events
    BY <1>3 DEF Buried, Entry
  <2>2. x \in Live
    BY <1>3, <2>1 DEF Live
  <2>3. x.event = e => m_notify_type[e] = "TIMED" /\ x = Entry(e, m_timed[e])
    BY <1>1, <2>1, <2>2 DEF NoteInv, QueueAgrees, Entry
  <2>4. m_notify_type[e] = "TIMED" => x # Entry(e, m_timed[e])
    BY <1>3 DEF Buried, Entry
  <2> QED BY <2>2, <2>3, <2>4
<1>4. ASSUME NEW f \in Events \ {e}, m_notify_type[f] = "TIMED"
      PROVE  Entry(f, m_timed[f]) \in Buried(e)
  <2>1. Entry(f, m_timed[f]) \in m_timed_events
    BY <1>4 DEF NoteInv, RecordOf
  <2>2. Entry(f, m_timed[f]).event = f /\ Entry(e, m_timed[e]).event = e
    BY DEF Entry
  <2> QED BY <2>1, <2>2 DEF Buried
<1> QED BY <1>2, <1>3, <1>4

(* cancel() keeps the records in agreement.                                *)
LEMMA CancelKeeps ==
  ASSUME NoteInv, phase \notin {"notify", "fire"}, NEW e \in Events, cancel(e),
         UNCHANGED <<phase, i, m_new_val, m_update_list>>
  PROVE  NoteInv'
<1>1. Pending = Len(m_delta_events) /\ Pending' = Len(m_delta_events')
  BY DEF Pending
<1>2. /\ m_timed_events' = Buried(e)
      /\ m_timed' = [m_timed EXCEPT ![e] = Never]
      /\ m_notify_type' = [m_notify_type EXCEPT ![e] = "NONE"]
  BY DEF cancel
<1>3. /\ m_notify_type \in [Events -> {"NONE", "DELTA", "TIMED"}]
      /\ m_timed \in [Events -> Int] /\ Never \in Int
      /\ m_delta_events \in Seq(Events)
  BY KernelAssumption DEF NoteInv, NoteTypes, Never
<1>4. /\ m_delta_events' \in Seq(Events \ {e})
      /\ m_delta_event_index' \in [Events -> Int]
      /\ \A k \in 1 .. Len(m_delta_events') :
           /\ m_notify_type[m_delta_events'[k]] = "DELTA"
           /\ m_delta_event_index'[m_delta_events'[k]] = k - 1
      /\ \A f \in Events \ {e} : m_notify_type[f] = "DELTA" =>
           /\ m_delta_event_index'[f] \in 0 .. Len(m_delta_events') - 1
           /\ m_delta_events'[m_delta_event_index'[f] + 1] = f
  <2>1. CASE m_notify_type[e] = "DELTA"
    <3>1. remove_delta_event(e)
      BY <2>1 DEF cancel
    <3> QED BY <1>1, <2>1, <3>1, RemoveKeeps
  <2>2. CASE m_notify_type[e] # "DELTA"
    <3>1. UNCHANGED <<m_delta_events, m_delta_event_index>>
      BY <2>2 DEF cancel
    <3>2. \A k \in 1 .. Len(m_delta_events) :
            /\ m_delta_events[k] \in Events \ {e}
            /\ m_notify_type[m_delta_events[k]] = "DELTA"
            /\ m_delta_event_index[m_delta_events[k]] = k - 1
      BY <1>1, <1>3, <2>2 DEF NoteInv, ListAgrees
    <3>3. m_delta_events \in Seq(Events \ {e})
      BY <1>3, <3>2
    <3> QED BY <1>1, <3>1, <3>2, <3>3 DEF NoteInv, NoteTypes, RecordOf
  <2> QED BY <2>1, <2>2
<1>5. NoteTypes'
  BY <1>2, <1>3, <1>4, BuriedEntries DEF NoteInv, NoteTypes
<1>6. ASSUME NEW f \in Events
      PROVE  RecordOf(f)'
  <2>1. CASE f = e
    BY <1>2, <1>3, <2>1 DEF RecordOf
  <2>2. CASE f # e
    <3>1. m_notify_type'[f] = m_notify_type[f] /\ m_timed'[f] = m_timed[f]
      BY <1>2, <1>3, <2>2
    <3>2. m_notify_type[f] = "TIMED" => Entry(f, m_timed[f]) \in Buried(e)
      BY <2>2, BuriedEntries
    <3>3. m_notify_type[f] # "TIMED" => m_timed[f] = Never
      BY DEF NoteInv, RecordOf
    <3> QED BY <1>1, <1>2, <1>4, <2>2, <3>1, <3>2, <3>3 DEF RecordOf, Entry
  <2> QED BY <2>1, <2>2
<1>7. ListAgrees'
  <2>1. \A k \in 1 .. Len(m_delta_events') : m_delta_events'[k] \in Events \ {e}
    BY <1>4
  <2> QED BY <1>1, <1>2, <1>3, <1>4, <2>1 DEF ListAgrees
<1>8. QueueAgrees'
  <2> SUFFICES ASSUME NEW x \in Live'
               PROVE  /\ m_notify_type'[x.event] = "TIMED"
                      /\ m_timed'[x.event] = x.notify_time
                      /\ x.notify_time > 0 \/ (x.notify_time = 0 /\ phase' = "fire")
    BY DEF QueueAgrees
  <2>1. x \in Buried(e) /\ x.event # NoEvent
    BY <1>2 DEF Live
  <2>2. x \in Live /\ x.event \in Events \ {e}
    BY <2>1, BuriedEntries DEF NoteInv, NoteTypes
  <2>3. m_notify_type'[x.event] = m_notify_type[x.event] /\ m_timed'[x.event] = m_timed[x.event]
    BY <1>2, <1>3, <2>2
  <2> QED BY <2>2, <2>3 DEF NoteInv, QueueAgrees
<1> QED BY <1>5, <1>6, <1>7, <1>8 DEF NoteInv

(* notify(t) keeps the records in agreement.                               *)
LEMMA NotifyKeeps ==
  ASSUME NoteInv, phase \notin {"notify", "fire"}, NEW e \in Events, NEW t \in Nat,
         notify(e, t), UNCHANGED <<phase, i, m_new_val, m_update_list>>
  PROVE  NoteInv'
<1>1. Pending = Len(m_delta_events) /\ Pending' = Len(m_delta_events')
  BY DEF Pending
<1>2. /\ m_notify_type \in [Events -> {"NONE", "DELTA", "TIMED"}]
      /\ m_timed \in [Events -> Int] /\ Never \in Int
      /\ m_delta_events \in Seq(Events) /\ Len(m_delta_events) \in Nat
      /\ m_delta_event_index \in [Events -> Int]
      BY KernelAssumption DEF NoteInv, NoteTypes, Never
<1>3. \A f \in Events : RecordOf(f)
  BY DEF NoteInv
<1>4. \A k \in 1 .. Len(m_delta_events) :
        /\ m_delta_events[k] \in Events
        /\ m_notify_type[m_delta_events[k]] = "DELTA"
        /\ m_delta_event_index[m_delta_events[k]] = k - 1
  BY <1>1, <1>2 DEF NoteInv, ListAgrees
<1>5. CASE UNCHANGED <<noteVars, m_timed_events>>
  BY <1>5, NoteUnchanged 
<1>6. ASSUME m_notify_type[e] # "DELTA",
             m_timed_events' = Buried(e),
             m_timed' = [m_timed EXCEPT ![e] = Never],
             add_delta_event(e)
      PROVE  NoteInv'
  <2> DEFINE n == Len(m_delta_events)
  <2>1. /\ m_delta_events' = Append(m_delta_events, e)
        /\ m_delta_event_index' = [m_delta_event_index EXCEPT ![e] = n]
        /\ m_notify_type' = [m_notify_type EXCEPT ![e] = "DELTA"]
    BY <1>6 DEF add_delta_event
  <2>2. /\ Len(m_delta_events') = n + 1
        /\ m_delta_events'[n + 1] = e
        /\ \A k \in 1 .. n : m_delta_events'[k] = m_delta_events[k]
    BY <1>2, <2>1
  <2>3. NoteTypes'
    BY <1>2, <1>6, <2>1, BuriedEntries DEF NoteInv, NoteTypes
  <2>4. ASSUME NEW f \in Events
        PROVE  RecordOf(f)'
    <3>1. CASE f = e
      BY <1>1, <1>2, <1>6, <2>1, <2>2, <3>1 DEF RecordOf
    <3>2. CASE f # e
      <4>1. /\ m_notify_type'[f] = m_notify_type[f]
            /\ m_timed'[f] = m_timed[f]
            /\ m_delta_event_index'[f] = m_delta_event_index[f]
        BY <1>2, <1>6, <2>1, <3>2
      <4>2. m_notify_type[f] = "TIMED" => Entry(f, m_timed[f]) \in m_timed_events'
        BY <1>6, <3>2, BuriedEntries
      <4>3. m_notify_type[f] = "DELTA" =>
              /\ m_delta_event_index[f] \in 0 .. n - 1
              /\ m_delta_events[m_delta_event_index[f] + 1] = f
        BY <1>1, <1>3 DEF RecordOf
      <4>4. m_notify_type[f] = "DELTA" =>
              /\ m_delta_event_index[f] \in 0 .. Pending' - 1
              /\ m_delta_events'[m_delta_event_index[f] + 1] = f
        <5> SUFFICES ASSUME m_notify_type[f] = "DELTA"
                     PROVE  /\ m_delta_event_index[f] \in 0 .. Pending' - 1
                            /\ m_delta_events'[m_delta_event_index[f] + 1] = f
          OBVIOUS
        <5>1. n \in Nat /\ Pending' = n + 1
          BY <1>1, <1>2, <2>2
        <5> HIDE DEF n
        <5>2. m_delta_event_index[f] + 1 \in 1 .. n
          BY <4>3, <5>1
        <5> QED BY <2>2, <4>3, <5>1, <5>2
      <4> QED BY <1>3, <4>1, <4>2, <4>4 DEF RecordOf, Entry
    <3> QED BY <3>1, <3>2
  <2>5. ListAgrees'
    <3> SUFFICES ASSUME NEW k \in 1 .. n + 1
                 PROVE  /\ m_notify_type'[m_delta_events'[k]] = "DELTA"
                        /\ m_delta_event_index'[m_delta_events'[k]] = k - 1
      BY <1>1, <2>2 DEF ListAgrees
    <3>1. CASE k = n + 1
      BY <1>2, <2>1, <2>2, <3>1
    <3>2. CASE k # n + 1
      <4>1. k \in 1 .. n
        BY <1>2, <3>2
      <4>2. m_delta_events'[k] = m_delta_events[k] /\ m_delta_events[k] # e
        BY <1>4, <1>6, <2>2, <4>1
      <4> QED BY <1>2, <1>4, <2>1, <4>1, <4>2
    <3> QED BY <3>1, <3>2
  <2>6. QueueAgrees'
    <3> SUFFICES ASSUME NEW x \in Live'
                 PROVE  /\ m_notify_type'[x.event] = "TIMED"
                        /\ m_timed'[x.event] = x.notify_time
                        /\ x.notify_time > 0 \/ (x.notify_time = 0 /\ phase' = "fire")
      BY DEF QueueAgrees
    <3>1. x \in Live /\ x.event \in Events \ {e}
      BY <1>6, BuriedEntries DEF Live, NoteInv, NoteTypes
    <3>2. m_notify_type'[x.event] = m_notify_type[x.event] /\ m_timed'[x.event] = m_timed[x.event]
      BY <1>2, <1>6, <2>1, <3>1
    <3> QED BY <3>1, <3>2 DEF NoteInv, QueueAgrees
  <2> QED BY <2>3, <2>4, <2>5, <2>6 DEF NoteInv
<1>7. ASSUME m_notify_type[e] # "DELTA", t > 0,
             m_timed_events' = Buried(e) \union {Entry(e, t)},
             m_timed' = [m_timed EXCEPT ![e] = t],
             m_notify_type' = [m_notify_type EXCEPT ![e] = "TIMED"],
             UNCHANGED <<m_delta_events, m_delta_event_index>>
      PROVE  NoteInv'
  <2>1. NoteTypes'
    <3>1. Entry(e, t) \in [event : Events \union {NoEvent}, notify_time : Int]
      BY <1>2 DEF Entry
    <3> QED BY <1>2, <1>7, <3>1, BuriedEntries DEF NoteInv, NoteTypes
  <2>2. ASSUME NEW f \in Events
        PROVE  RecordOf(f)'
    <3>1. CASE f = e
      BY <1>2, <1>7, <3>1 DEF RecordOf, Entry
    <3>2. CASE f # e
      <4>1. m_notify_type'[f] = m_notify_type[f] /\ m_timed'[f] = m_timed[f]
        BY <1>2, <1>7, <3>2
      <4>2. m_notify_type[f] = "TIMED" => Entry(f, m_timed[f]) \in m_timed_events'
        BY <1>7, <3>2, BuriedEntries
      <4> QED BY <1>1, <1>3, <1>7, <4>1, <4>2 DEF RecordOf, Entry
    <3> QED BY <3>1, <3>2
  <2>3. ListAgrees'
    <3>1. \A k \in 1 .. Len(m_delta_events) : m_delta_events[k] # e
      BY <1>4, <1>7
    <3> QED BY <1>1, <1>2, <1>4, <1>7, <3>1 DEF ListAgrees
  <2>4. QueueAgrees'
    <3> SUFFICES ASSUME NEW x \in Live'
                 PROVE  /\ m_notify_type'[x.event] = "TIMED"
                        /\ m_timed'[x.event] = x.notify_time
                        /\ x.notify_time > 0 \/ (x.notify_time = 0 /\ phase' = "fire")
      BY DEF QueueAgrees
    <3>1. CASE x = Entry(e, t)
      <4>1. x.event = e /\ x.notify_time = t
        BY <3>1 DEF Entry
      <4> QED BY <1>2, <1>7, <4>1
    <3>2. CASE x # Entry(e, t)
      <4>1. x \in Live /\ x.event \in Events \ {e}
        BY <1>7, <3>2, BuriedEntries DEF Live, NoteInv, NoteTypes
      <4>2. m_notify_type'[x.event] = m_notify_type[x.event] /\ m_timed'[x.event] = m_timed[x.event]
        BY <1>2, <1>7, <4>1
      <4> QED BY <4>1, <4>2 DEF NoteInv, QueueAgrees
    <3> QED BY <3>1, <3>2
  <2> QED BY <2>1, <2>2, <2>3, <2>4 DEF NoteInv
<1> QED BY <1>5, <1>6, <1>7 DEF notify

----------------------------------------------------------------------------
(* The triggering of a delta notification.                                 *)
LEMMA NotifyDeltaKeeps ==
  ASSUME NoteInv, NotifyDelta
  PROVE  NoteInv'
<1> DEFINE e == m_delta_events[i]
<1>1. /\ phase = "notify" /\ phase' = "notify"
      /\ i > 0 /\ i' = i - 1
      /\ UNCHANGED <<m_delta_events, m_timed_events, m_new_val, m_update_list>>
      /\ m_notify_type' = [m_notify_type EXCEPT ![e] = "NONE"]
      /\ m_delta_event_index' = [m_delta_event_index EXCEPT ![e] = -1]
      /\ m_timed' = [m_timed EXCEPT ![e] = Never]
  BY DEF NotifyDelta, trigger, signalVars
<1>2. Pending = i /\ Pending' = i - 1
  BY <1>1 DEF Pending
<1>3. /\ m_notify_type \in [Events -> {"NONE", "DELTA", "TIMED"}]
      /\ m_timed \in [Events -> Int] /\ Never \in Int
      /\ m_delta_events \in Seq(Events)
      /\ m_delta_event_index \in [Events -> Int]
      /\ i \in 1 .. Len(m_delta_events)
  <2>1. /\ m_notify_type \in [Events -> {"NONE", "DELTA", "TIMED"}]
        /\ m_timed \in [Events -> Int]
        /\ m_delta_events \in Seq(Events)
        /\ m_delta_event_index \in [Events -> Int]
    BY DEF NoteInv, NoteTypes
  <2>2. Never \in Int
    BY KernelAssumption DEF Never
  <2>3. i \in Nat /\ i <= Len(m_delta_events)
    BY <1>1 DEF NoteInv, NoteTypes
  <2> QED BY <1>1, <2>1, <2>2, <2>3
<1>4. \A k \in 1 .. i :
        /\ m_delta_events[k] \in Events
        /\ m_notify_type[m_delta_events[k]] = "DELTA"
        /\ m_delta_event_index[m_delta_events[k]] = k - 1
  BY <1>2, <1>3 DEF NoteInv, ListAgrees
<1>5. e \in Events /\ m_notify_type[e] = "DELTA" /\ m_delta_event_index[e] = i - 1
  BY <1>3, <1>4
<1> HIDE DEF e
<1>6. NoteTypes'
  <2>1. /\ m_notify_type' \in [Events -> {"NONE", "DELTA", "TIMED"}]
        /\ m_timed' \in [Events -> Int]
        /\ m_delta_event_index' \in [Events -> Int]
    BY <1>1, <1>3, <1>5
  <2>2. /\ m_timed_events' \subseteq [event : Events \union {NoEvent}, notify_time : Int]
        /\ m_new_val' \in [Signals -> Values]
        /\ m_update_list' \in Seq(Signals)
    BY <1>1 DEF NoteInv, NoteTypes
  <2>3. /\ m_delta_events' \in Seq(Events)
        /\ i' \in Nat
        /\ i' <= Len(m_delta_events')
    BY <1>1, <1>3
  <2> QED BY <2>1, <2>2, <2>3 DEF NoteTypes
<1>7. ASSUME NEW f \in Events
      PROVE  RecordOf(f)'
  <2>1. RecordOf(f)
    BY DEF NoteInv
  <2>2. CASE f = e
    BY <1>1, <1>3, <2>2 DEF RecordOf
  <2>3. CASE f # e
    <3>1. /\ m_notify_type'[f] = m_notify_type[f]
          /\ m_timed'[f] = m_timed[f]
          /\ m_delta_event_index'[f] = m_delta_event_index[f]
      BY <1>1, <1>3, <1>5, <2>3
    <3>2. m_notify_type[f] = "DELTA" =>
            /\ m_delta_event_index[f] \in 0 .. i - 1
            /\ m_delta_events[m_delta_event_index[f] + 1] = f
      BY <1>2, <2>1 DEF RecordOf
    <3>3. m_notify_type[f] = "DELTA" => m_delta_event_index[f] # i - 1
      <4>1. m_delta_event_index[f] = i - 1 => m_delta_event_index[f] + 1 = i
        BY <1>3
      <4> QED BY <2>3, <3>2, <4>1 DEF e
    <3>4. m_notify_type[f] = "DELTA" => m_delta_event_index[f] \in 0 .. (i - 1) - 1
      BY <1>3, <3>2, <3>3
    <3> QED BY <1>1, <1>2, <2>1, <3>1, <3>2, <3>4 DEF RecordOf, Entry
  <2> QED BY <2>2, <2>3
<1>8. ListAgrees'
  <2>1. ASSUME NEW k \in 1 .. i - 1
        PROVE  m_delta_events[k] # e
    <3>1. k \in 1 .. i /\ k - 1 # i - 1
      BY <1>3
    <3>2. m_delta_event_index[m_delta_events[k]] = k - 1
      BY <1>4, <3>1
    <3> QED BY <1>5, <3>1, <3>2
  <2> QED BY <1>1, <1>2, <1>3, <1>4, <2>1 DEF ListAgrees
<1>9. QueueAgrees'
  <2>1. Live' = Live
    BY <1>1 DEF Live
  <2>2. \A x \in Live : x.event \in Events \ {e}
    BY <1>5 DEF Live, NoteInv, NoteTypes, QueueAgrees
  <2> QED BY <1>1, <1>3, <2>1, <2>2 DEF NoteInv, QueueAgrees
<1> QED BY <1>6, <1>7, <1>8, <1>9 DEF NoteInv

(* The triggering of a timed one, or the disposal of a cancelled entry.    *)
LEMMA FireKeeps ==
  ASSUME NoteInv, NEW x \in m_timed_events, Fire(x)
  PROVE  NoteInv'
<1>1. /\ phase = "fire" /\ phase' = "fire"
      /\ m_timed_events' = m_timed_events \ {x}
      /\ UNCHANGED <<m_delta_events, i, m_new_val, m_update_list>>
  BY DEF Fire, noteVars, signalVars
<1>2. Pending = Len(m_delta_events) /\ Pending' = Pending
  BY <1>1 DEF Pending
<1>3. Live' = Live \ {x}
  BY <1>1 DEF Live
<1>4. /\ m_notify_type \in [Events -> {"NONE", "DELTA", "TIMED"}]
      /\ m_timed \in [Events -> Int] /\ Never \in Int
      /\ m_delta_events \in Seq(Events)
      /\ m_delta_event_index \in [Events -> Int]
      /\ x.event \in Events \union {NoEvent}
  BY KernelAssumption DEF NoteInv, NoteTypes, Never
<1>5. \A k \in 1 .. Pending :
        /\ m_delta_events[k] \in Events
        /\ m_notify_type[m_delta_events[k]] = "DELTA"
        /\ m_delta_event_index[m_delta_events[k]] = k - 1
  BY <1>2, <1>4 DEF NoteInv, ListAgrees
<1>6. \A f \in Events : RecordOf(f)
  BY DEF NoteInv
<1>7. CASE x.event = NoEvent
  <2>1. UNCHANGED <<m_notify_type, m_delta_event_index, m_timed>>
    BY <1>7 DEF Fire, noteVars
  <2>2. \A f \in Events : Entry(f, m_timed[f]) # x
    BY <1>7, KernelAssumption DEF Entry
  <2>3. NoteTypes'
    BY <1>1, <2>1 DEF NoteInv, NoteTypes
  <2>4. \A f \in Events : RecordOf(f)'
    BY <1>1, <1>2, <1>6, <2>1, <2>2 DEF RecordOf, Entry
  <2>5. ListAgrees' /\ QueueAgrees'
    BY <1>1, <1>2, <1>3, <2>1 DEF NoteInv, ListAgrees, QueueAgrees
  <2> QED BY <2>3, <2>4, <2>5 DEF NoteInv
<1>8. CASE x.event # NoEvent
  <2> DEFINE e == x.event
  <2>1. e \in Events /\ x \in Live
    BY <1>4, <1>8 DEF Live
  <2>2. m_notify_type[e] = "TIMED" /\ m_timed[e] = x.notify_time
    BY <2>1 DEF NoteInv, QueueAgrees
  <2>3. /\ m_notify_type' = [m_notify_type EXCEPT ![e] = "NONE"]
        /\ m_delta_event_index' = [m_delta_event_index EXCEPT ![e] = -1]
        /\ m_timed' = [m_timed EXCEPT ![e] = Never]
    BY <1>8 DEF Fire, trigger
  <2>4. \A y \in Live \ {x} : y.event \in Events \ {e}
    <3> SUFFICES ASSUME NEW y \in Live \ {x}, y.event = e PROVE FALSE
      BY DEF Live, NoteInv, NoteTypes
    <3>1. y.notify_time = x.notify_time
      BY <2>2 DEF NoteInv, QueueAgrees
    <3>2. /\ x \in [event : Events \union {NoEvent}, notify_time : Int]
          /\ y \in [event : Events \union {NoEvent}, notify_time : Int]
      BY DEF NoteInv, NoteTypes, Live
    <3> QED BY <3>1, <3>2
  <2> HIDE DEF e
  <2>5. NoteTypes'
    BY <1>1, <1>4, <2>1, <2>3 DEF NoteInv, NoteTypes
  <2>6. ASSUME NEW f \in Events
        PROVE  RecordOf(f)'
    <3>1. CASE f = e
      BY <1>1, <1>4, <2>3, <3>1 DEF RecordOf
    <3>2. CASE f # e
      <4>1. /\ m_notify_type'[f] = m_notify_type[f]
            /\ m_timed'[f] = m_timed[f]
            /\ m_delta_event_index'[f] = m_delta_event_index[f]
        BY <1>4, <2>1, <2>3, <3>2
      <4>2. Entry(f, m_timed[f]) # x
        BY <3>2 DEF Entry, e
      <4> QED BY <1>1, <1>2, <1>6, <4>1, <4>2 DEF RecordOf, Entry
    <3> QED BY <3>1, <3>2
  <2>7. ListAgrees'
    <3>1. \A k \in 1 .. Pending : m_delta_events[k] # e
      BY <1>5, <2>2 DEF e
    <3> QED BY <1>1, <1>2, <1>4, <1>5, <2>3, <3>1 DEF ListAgrees
  <2>8. QueueAgrees'
    BY <1>1, <1>3, <1>4, <2>3, <2>4 DEF NoteInv, QueueAgrees
  <2> QED BY <2>5, <2>6, <2>7, <2>8 DEF NoteInv
<1> QED BY <1>7, <1>8

----------------------------------------------------------------------------
(* The update of a signal notifies its events one behind the other.        *)
LEMMA UpdateKeeps ==
  ASSUME NoteInv, Update
  PROVE  NoteInv'
<1> DEFINE s == Head(m_update_list)
           changed == IF m_new_val[s] = m_cur_val[s] THEN << >>
                      ELSE Announced[s][m_new_val[s]]
           n == Len(m_delta_events)
           At(e) == CHOOSE k \in DOMAIN changed : changed[k] = e
<1>1. /\ phase = "update" /\ phase' = "update"
      /\ \A e \in Range(changed) : m_notify_type[e] = "NONE"
      /\ m_delta_events' = m_delta_events \o changed
      /\ m_delta_event_index' = [e \in Events |->
           IF e \in Range(changed) THEN n + At(e) - 1 ELSE m_delta_event_index[e]]
      /\ m_notify_type' = [e \in Events |->
           IF e \in Range(changed) THEN "DELTA" ELSE m_notify_type[e]]
      /\ UNCHANGED <<m_timed, m_timed_events, i, m_new_val>>
      /\ m_update_list # << >> /\ m_update_list' = Tail(m_update_list)
  BY DEF Update
<1>2. /\ m_notify_type \in [Events -> {"NONE", "DELTA", "TIMED"}]
      /\ m_timed \in [Events -> Int]
      /\ m_delta_events \in Seq(Events) /\ n \in Nat
      /\ m_delta_event_index \in [Events -> Int]
      /\ m_update_list \in Seq(Signals)
      /\ m_new_val \in [Signals -> Values]
  BY DEF NoteInv, NoteTypes
<1>3. changed \in Seq(Events) /\ IsInjective(changed)
  <2>1. s \in Signals /\ m_new_val[s] \in Values
    BY <1>1, <1>2
  <2>2. << >> \in Seq(Events) /\ IsInjective(<< >>)
    BY DEF IsInjective
  <2> QED BY <2>1, <2>2, KernelAssumption
<1> HIDE DEF s, changed
<1>4. /\ Len(changed) \in Nat /\ DOMAIN changed = 1 .. Len(changed)
      /\ Range(changed) = {changed[k] : k \in 1 .. Len(changed)}
      /\ \A k \in 1 .. Len(changed) : changed[k] \in Events
  BY <1>3 DEF Range
<1>5. \A k \in 1 .. Len(changed) : At(changed[k]) = k
  BY <1>3, <1>4 DEF IsInjective
<1> HIDE DEF At
<1>6. \A e \in Range(changed) : At(e) \in 1 .. Len(changed) /\ changed[At(e)] = e
  BY <1>4, <1>5
<1>7. /\ m_delta_events' \in Seq(Events)
      /\ Len(m_delta_events') = n + Len(changed)
      /\ \A k \in 1 .. n : m_delta_events'[k] = m_delta_events[k]
      /\ \A k \in 1 .. Len(changed) : m_delta_events'[n + k] = changed[k]
  BY <1>1, <1>2, <1>3, <1>4
<1>8. Pending = n /\ Pending' = n + Len(changed)
  BY <1>1, <1>7 DEF Pending
<1>9. NoteTypes'
  <2>1. m_update_list' \in Seq(Signals)
    BY <1>1, <1>2
  <2>2. m_delta_event_index' \in [Events -> Int]
    <3>1. \A e \in Events : e \in Range(changed) => n + At(e) - 1 \in Int
      BY <1>2, <1>4, <1>6
    <3> QED BY <1>1, <1>2, <3>1
  <2>3. m_notify_type' \in [Events -> {"NONE", "DELTA", "TIMED"}]
    BY <1>1, <1>2
  <2> QED BY <1>1, <1>2, <1>7, <2>1, <2>2, <2>3 DEF NoteInv, NoteTypes
<1>10. ASSUME NEW e \in Events
       PROVE  RecordOf(e)'
  <2>1. RecordOf(e)
    BY DEF NoteInv
  <2>2. CASE e \in Range(changed)
    <3>1. m_notify_type'[e] = "DELTA" /\ m_delta_event_index'[e] = n + At(e) - 1
      BY <1>1, <2>2
    <3>2. At(e) \in 1 .. Len(changed) /\ changed[At(e)] = e
      BY <1>6, <2>2
    <3>3. m_delta_event_index'[e] + 1 = n + At(e)
      BY <1>2, <1>4, <3>1, <3>2
    <3>4. m_delta_event_index'[e] \in 0 .. Pending' - 1
      BY <1>2, <1>4, <1>8, <3>1, <3>2
    <3>5. m_delta_events'[m_delta_event_index'[e] + 1] = e
      BY <1>7, <3>2, <3>3
    <3>6. m_timed'[e] = Never
      BY <1>1, <2>1, <2>2 DEF RecordOf
    <3> QED BY <3>1, <3>4, <3>5, <3>6 DEF RecordOf, Never
  <2>3. CASE e \notin Range(changed)
    <3>1. /\ m_notify_type'[e] = m_notify_type[e]
          /\ m_delta_event_index'[e] = m_delta_event_index[e]
      BY <1>1, <2>3
    <3>2. m_notify_type[e] = "DELTA" =>
            /\ m_delta_event_index[e] \in 0 .. n + Len(changed) - 1
            /\ m_delta_events'[m_delta_event_index[e] + 1] = e
      <4> SUFFICES ASSUME m_notify_type[e] = "DELTA"
                   PROVE  /\ m_delta_event_index[e] \in 0 .. n + Len(changed) - 1
                          /\ m_delta_events'[m_delta_event_index[e] + 1] = e
        OBVIOUS
      <4>1. /\ m_delta_event_index[e] \in 0 .. n - 1
            /\ m_delta_events[m_delta_event_index[e] + 1] = e
        BY <1>8, <2>1 DEF RecordOf
      <4>2. m_delta_event_index[e] + 1 \in 1 .. n
        BY <1>2, <4>1
      <4>3. m_delta_event_index[e] \in 0 .. n + Len(changed) - 1
        BY <1>2, <1>4, <4>1
      <4> QED BY <1>7, <4>1, <4>2, <4>3
    <3> QED BY <1>1, <1>8, <2>1, <3>1, <3>2 DEF RecordOf, Entry
  <2> QED BY <2>2, <2>3
<1>11. ListAgrees'
  <2> SUFFICES ASSUME NEW k \in 1 .. n + Len(changed)
               PROVE  /\ m_notify_type'[m_delta_events'[k]] = "DELTA"
                      /\ m_delta_event_index'[m_delta_events'[k]] = k - 1
    BY <1>8 DEF ListAgrees
  <2>1. CASE k \in 1 .. n
    <3>1. /\ m_delta_events'[k] = m_delta_events[k]
          /\ m_delta_events[k] \in Events
          /\ m_notify_type[m_delta_events[k]] = "DELTA"
          /\ m_delta_event_index[m_delta_events[k]] = k - 1
      BY <1>2, <1>7, <1>8, <2>1 DEF NoteInv, ListAgrees
    <3>2. m_delta_events[k] \notin Range(changed)
      BY <1>1, <3>1
    <3> QED BY <1>1, <3>1, <3>2
  <2>2. CASE k \notin 1 .. n
    <3> DEFINE j == k - n
    <3>1. j \in 1 .. Len(changed) /\ k = n + j
      BY <1>2, <1>4, <2>2
    <3> HIDE DEF j
    <3>2. m_delta_events'[k] = changed[j] /\ changed[j] \in Range(changed)
      BY <1>4, <1>7, <3>1
    <3>3. changed[j] \in Events /\ At(changed[j]) = j
      BY <1>4, <1>5, <3>1
    <3>4. /\ m_notify_type'[changed[j]] = "DELTA"
          /\ m_delta_event_index'[changed[j]] = n + j - 1
      BY <1>1, <3>2, <3>3
    <3> QED BY <3>1, <3>2, <3>4
  <2> QED BY <2>1, <2>2
<1>12. QueueAgrees'
  <2>1. Live' = Live
    BY <1>1 DEF Live
  <2>2. \A x \in Live : x.event \in Events /\ x.event \notin Range(changed)
    BY <1>1 DEF Live, NoteInv, NoteTypes, QueueAgrees
  <2> QED BY <1>1, <2>1, <2>2 DEF NoteInv, QueueAgrees
<1> QED BY <1>9, <1>10, <1>11, <1>12 DEF NoteInv

----------------------------------------------------------------------------
(* The steps that end a phase or let time pass.                            *)
LEMMA TimeKeeps ==
  ASSUME NoteInv, EndUpdate \/ EndNotify \/ Advance \/ EndFire \/ Starve
  PROVE  NoteInv'
<1> USE DEF NoteInv
<1>1. CASE EndUpdate
  <2>1. /\ phase = "update" /\ phase' \in {"over", "notify"}
        /\ i' = Len(m_delta_events)
        /\ UNCHANGED <<noteVars, m_timed_events, m_new_val, m_update_list>>
    BY <1>1 DEF EndUpdate, signalVars
  <2>2. Pending' = Pending /\ Live' = Live
    BY <2>1 DEF Pending, Live, noteVars
  <2>3. NoteTypes'
    BY <2>1 DEF NoteTypes, noteVars
  <2> QED BY <2>1, <2>2, <2>3 DEF RecordOf, ListAgrees, QueueAgrees, noteVars
<1>2. CASE EndNotify
  <2>1. /\ phase = "notify" /\ phase' \in {"advance", "evaluate"} /\ i = 0
        /\ m_delta_events' = << >>
        /\ UNCHANGED <<m_notify_type, m_delta_event_index, m_timed, m_timed_events, i,
                       m_new_val, m_update_list>>
    BY <1>2 DEF EndNotify, signalVars
  <2>2. Pending = 0 /\ Pending' = 0 /\ Live' = Live
    BY <2>1 DEF Pending, Live
  <2>3. NoteTypes'
    BY <2>1 DEF NoteTypes
  <2>4. \A e \in Events : m_notify_type[e] # "DELTA"
    BY <2>2 DEF RecordOf
  <2> QED BY <2>1, <2>2, <2>3, <2>4 DEF RecordOf, ListAgrees, QueueAgrees
<1>3. CASE Advance
  <2>1. /\ phase = "advance" /\ phase' = "fire"
        /\ UNCHANGED <<m_notify_type, m_delta_event_index, m_delta_events, i,
                       m_new_val, m_update_list>>
    BY <1>3 DEF Advance, signalVars
  <2>2. PICK first \in Live :
          /\ \A x \in Live : first.notify_time <= x.notify_time
          /\ m_timed_events' =
               {Entry(x.event, x.notify_time - first.notify_time) :
                  x \in {y \in m_timed_events : y.notify_time >= first.notify_time}}
          /\ m_timed' = [e \in Events |->
               IF m_notify_type[e] = "TIMED" THEN m_timed[e] - first.notify_time
                                             ELSE m_timed[e]]
    BY <1>3 DEF Advance
  <2> DEFINE step == first.notify_time
  <2>3. \A x \in m_timed_events : x.event \in Events \union {NoEvent} /\ x.notify_time \in Int
    BY DEF NoteTypes
  <2>4. step \in Int /\ first \in m_timed_events
    BY <2>3 DEF Live
  <2> HIDE DEF step
  <2>5. Pending' = Pending
    BY <2>1 DEF Pending
  <2>6. NoteTypes'
    <3>1. m_timed_events' \subseteq [event : Events \union {NoEvent}, notify_time : Int]
      BY <2>2, <2>3, <2>4 DEF Entry, step
    <3>2. m_timed' \in [Events -> Int]
      BY <2>2, <2>4 DEF NoteTypes, step
    <3> QED BY <2>1, <3>1, <3>2 DEF NoteTypes
  <2>7. ASSUME NEW e \in Events
        PROVE  RecordOf(e)'
    <3>1. ASSUME m_notify_type[e] = "TIMED"
          PROVE  Entry(e, m_timed'[e]) \in m_timed_events'
      <4> DEFINE x == Entry(e, m_timed[e])
      <4>1. x.event = e /\ x.notify_time = m_timed[e]
        BY DEF Entry
      <4>2. x \in m_timed_events
        BY <3>1 DEF RecordOf
      <4>3. x \in Live
        BY <4>1, <4>2, KernelAssumption DEF Live
      <4> HIDE DEF x
      <4>4. x \in {y \in m_timed_events : y.notify_time >= step}
        BY <2>2, <2>3, <2>4, <4>2, <4>3 DEF step
      <4>5. m_timed'[e] = x.notify_time - step
        BY <2>2, <3>1, <4>1 DEF step
      <4> QED BY <2>2, <4>1, <4>4, <4>5 DEF step
    <3>2. m_notify_type[e] # "TIMED" => m_timed'[e] = m_timed[e]
      BY <2>2
    <3> QED BY <2>1, <2>5, <3>1, <3>2 DEF RecordOf
  <2>8. ListAgrees'
    BY <2>1, <2>5 DEF ListAgrees
  <2>9. QueueAgrees'
    <3> SUFFICES ASSUME NEW y \in Live'
                 PROVE  /\ m_notify_type'[y.event] = "TIMED"
                        /\ m_timed'[y.event] = y.notify_time
                        /\ y.notify_time > 0 \/ (y.notify_time = 0 /\ phase' = "fire")
      BY DEF QueueAgrees
    <3>1. PICK x \in m_timed_events : /\ x.notify_time >= step
                                     /\ y = Entry(x.event, x.notify_time - step)
      BY <2>2 DEF Live, step
    <3>2. y.event = x.event /\ y.notify_time = x.notify_time - step
      BY <3>1 DEF Entry
    <3>3. x \in Live
      BY <3>1, <3>2 DEF Live
    <3>4. x.event \in Events /\ m_notify_type[x.event] = "TIMED" /\ m_timed[x.event] = x.notify_time
      BY <2>3, <3>1, <3>3 DEF QueueAgrees, Live
    <3>5. m_timed'[x.event] = x.notify_time - step
      BY <2>2, <3>4 DEF step
    <3> QED BY <2>1, <2>3, <2>4, <3>1, <3>2, <3>4, <3>5
  <2> QED BY <2>6, <2>7, <2>8, <2>9
<1>4. CASE EndFire
  <2>1. /\ phase = "fire" /\ phase' \in {"advance", "evaluate"}
        /\ \A x \in m_timed_events : x.notify_time # 0
        /\ UNCHANGED <<noteVars, m_timed_events, i, m_new_val, m_update_list>>
    BY <1>4 DEF EndFire, signalVars
  <2>2. Pending' = Pending /\ Live' = Live /\ Live \subseteq m_timed_events
    BY <2>1 DEF Pending, Live, noteVars
  <2>3. NoteTypes'
    BY <2>1 DEF NoteTypes, noteVars
  <2> QED BY <2>1, <2>2, <2>3 DEF RecordOf, ListAgrees, QueueAgrees, noteVars
<1>5. CASE Starve
  <2>1. /\ phase = "advance" /\ phase' = "over"
        /\ Live = {} /\ m_timed_events' = {}
        /\ UNCHANGED <<noteVars, i, m_new_val, m_update_list>>
    BY <1>5 DEF Starve, signalVars
  <2>2. Pending' = Pending /\ Live' = {}
    BY <2>1 DEF Pending, Live, noteVars
  <2>3. NoteTypes'
    BY <2>1 DEF NoteTypes, noteVars
  <2>4. \A e \in Events : m_notify_type[e] # "TIMED"
    <3>1. \A e \in Events : m_notify_type[e] = "TIMED" => Entry(e, m_timed[e]) \in Live
      BY KernelAssumption DEF RecordOf, Live, Entry
    <3> QED BY <2>1, <3>1
  <2> QED BY <2>1, <2>2, <2>3, <2>4 DEF RecordOf, ListAgrees, QueueAgrees, noteVars
<1> QED BY <1>1, <1>2, <1>3, <1>4, <1>5

(* What remains concerns only processes, signals and evaluation.           *)
LEMMA NoteStep ==
  ASSUME NoteInv, [Next]_kernelVars
  PROVE  NoteInv'
<1> USE DEF signalVars
<1>1. CASE BeginPass \/ PopMethod \/ EndMethods \/ PopThread \/ EndPass
  <2>1. /\ UNCHANGED <<noteVars, m_timed_events, i, m_new_val, m_update_list>>
        /\ phase \notin {"notify", "fire"} /\ phase' # "notify"
    BY <1>1 DEF BeginPass, PopMethod, EndMethods, PopThread, EndPass
  <2> QED BY <2>1, NoteUnchanged
<1>2. CASE Update
  BY <1>2, UpdateKeeps
<1>3. CASE NotifyDelta
  BY <1>3, NotifyDeltaKeeps
<1>4. CASE \E x \in m_timed_events : Fire(x)
  BY <1>4, FireKeeps
<1>5. CASE EndUpdate \/ EndNotify \/ Advance \/ EndFire \/ Starve
  BY <1>5, TimeKeeps
<1>6. ASSUME NEW e \in UserEvents, NotifyNow(e) \/ Cancel(e)
      PROVE  NoteInv'
  <2>1. e \in Events
    BY DEF UserEvents
  <2>2. /\ phase \notin {"notify", "fire"} /\ cancel(e)
        /\ UNCHANGED <<phase, i, m_new_val, m_update_list>>
    BY <1>6 DEF NotifyNow, Cancel, notify_now, Running, callVars
  <2> QED BY <2>1, <2>2, CancelKeeps
<1>7. ASSUME NEW e \in UserEvents, NEW t \in 0 .. MAX_DELAY, Notify(e, t)
      PROVE  NoteInv'
  <2>1. e \in Events /\ t \in Nat
    BY KernelAssumption DEF UserEvents
  <2>2. /\ phase \notin {"notify", "fire"} /\ notify(e, t)
        /\ UNCHANGED <<phase, i, m_new_val, m_update_list>>
    BY <1>7 DEF Notify, Running, callVars
  <2> QED BY <2>1, <2>2, NotifyKeeps
<1>8. ASSUME NEW s \in Signals, NEW v \in Values, Write(s, v)
      PROVE  NoteInv'
  <2>1. /\ UNCHANGED <<noteVars, m_timed_events, i, phase>>
        /\ m_new_val' = [m_new_val EXCEPT ![s] = v]
        /\ m_update_list' = (IF Requests(s, v) THEN <<s>> ELSE << >>) \o m_update_list
    BY <1>8 DEF Write, write, callVars
  <2>2. Pending' = Pending /\ Live' = Live
    BY <2>1 DEF Pending, Live, noteVars
  <2>3. m_new_val' \in [Signals -> Values] /\ m_update_list' \in Seq(Signals)
    <3>1. m_update_list \in Seq(Signals) /\ m_new_val \in [Signals -> Values]
      BY DEF NoteInv, NoteTypes
    <3>2. (IF Requests(s, v) THEN <<s>> ELSE << >>) \in Seq(Signals)
      OBVIOUS
    <3> QED BY <2>1, <3>1, <3>2
  <2>4. NoteTypes'
    BY <2>1, <2>3 DEF NoteInv, NoteTypes, noteVars
  <2> QED BY <2>1, <2>2, <2>4 DEF NoteInv, RecordOf, ListAgrees, QueueAgrees, noteVars
<1>9. CASE Stop \/ Wait \/ (\E s \in Signals : Fail(s)) \/ Over \/ UNCHANGED kernelVars
  <2>1. /\ UNCHANGED <<noteVars, m_timed_events, i, m_new_val, m_update_list>>
        /\ phase' = phase \/ (phase \notin {"notify", "fire"} /\ phase' # "notify")
    BY <1>9 DEF Stop, Wait, Fail, Over, kernelVars, Running
  <2> QED BY <2>1, NoteUnchanged
<1> QED BY <1>1, <1>2, <1>3, <1>4, <1>5, <1>6, <1>7, <1>8, <1>9 DEF Next, KernelStep, Call

(***************************************************************************)
(* Whatever processes call, an event's type of notification, its index in  *)
(* the list of delta notifications and its entry in the timed queue agree  *)
(* (sc_event.cpp:65-170), for any number of events, processes and signals  *)
(* and any simulated time.                                                 *)
(***************************************************************************)
THEOREM RecordsAgree == Spec => []NotificationsAgree
<1> QED BY NoteInit, NoteStep, NoteInvImplies, PTL DEF Spec

----------------------------------------------------------------------------
(* The queues of processes                                                 *)

(* A sequence, one longer.                                                 *)
LEMMA AppendElements ==
  ASSUME NEW T, NEW q \in Seq(T), NEW x \in T
  PROVE  /\ Append(q, x) \in Seq(T)
         /\ Range(Append(q, x)) = Range(q) \union {x}
         /\ IsInjective(q) /\ x \notin Range(q) => IsInjective(Append(q, x))
<1> DEFINE a == Append(q, x)
<1>1. /\ a \in Seq(T) /\ DOMAIN a = 1 .. Len(q) + 1 /\ Len(q) \in Nat
      /\ DOMAIN q = 1 .. Len(q)
      /\ \A k \in 1 .. Len(q) : a[k] = q[k]
      /\ a[Len(q) + 1] = x
  OBVIOUS
<1> HIDE DEF a
<1>2. Range(a) = Range(q) \union {x}
  <2>1. \A k \in 1 .. Len(q) + 1 : k \in 1 .. Len(q) \/ k = Len(q) + 1
    BY <1>1
  <2>2. Len(q) + 1 \in 1 .. Len(q) + 1 /\ 1 .. Len(q) \subseteq 1 .. Len(q) + 1
    BY <1>1
  <2> QED BY <1>1, <2>1, <2>2 DEF Range
<1>3. ASSUME IsInjective(q), x \notin Range(q)
      PROVE  IsInjective(a)
  <2> SUFFICES ASSUME NEW j \in 1 .. Len(q) + 1, NEW k \in 1 .. Len(q) + 1, a[j] = a[k]
               PROVE  j = k
    BY <1>1 DEF IsInjective
  <2>1. \A m \in 1 .. Len(q) : a[m] \in Range(q) /\ a[m] # x
    BY <1>1, <1>3 DEF Range
  <2> QED BY <1>1, <1>3, <2>1 DEF IsInjective
<1> QED BY <1>1, <1>2, <1>3 DEF a

(* What is selected from a sequence.                                       *)
LEMMA ThoseElements ==
  ASSUME NEW T, NEW s \in Seq(T), NEW S
  PROVE  /\ Those(s, S) \in Seq(T)
         /\ Range(Those(s, S)) = Range(s) \intersect S
         /\ IsInjective(s) => IsInjective(Those(s, S))
<1> DEFINE n == Len(s)
           Next1(k, q) == IF s[k] \in S THEN Append(q, s[k]) ELSE q
           Is(f) == f = [k \in 0 .. n |-> IF k = 0 THEN << >> ELSE Next1(k, f[k - 1])]
           first == CHOOSE f : Is(f)
<1>1. n \in Nat /\ DOMAIN s = 1 .. n /\ \A k \in 1 .. n : s[k] \in T
  OBVIOUS
<1>2. \E f : Is(f)
  <2> DEFINE step == [k \in Nat |-> [q \in Seq(T) |->
                        IF k + 1 \in 1 .. n THEN Next1(k + 1, q) ELSE q]]
  <2>1. \A k \in 1 .. n, q \in Seq(T) : Next1(k, q) \in Seq(T)
    BY <1>1
  <2>2. IsStep(step, Seq(T))
    <3> HIDE DEF Next1
    <3> QED BY <2>1 DEF IsStep
  <2>3. << >> \in Seq(T)
    OBVIOUS
  <2> HIDE DEF step
  <2>4. PICK f : Defined(f, Seq(T), << >>, step)
    BY <2>2, <2>3, Recursion
  <2> DEFINE g == [k \in 0 .. n |-> f[k]]
  <2>5. ASSUME NEW k \in 1 .. n
        PROVE  g[k] = Next1(k, g[k - 1])
    <3>1. k - 1 \in Nat /\ k - 1 \in 0 .. n /\ k \in 0 .. n /\ (k - 1) + 1 = k
      BY <1>1
    <3>2. f[k - 1] \in Seq(T) /\ f[(k - 1) + 1] = step[k - 1][f[k - 1]]
      BY <2>4, <3>1 DEF Defined
    <3>3. step[k - 1][f[k - 1]] = Next1((k - 1) + 1, f[k - 1])
      <4> HIDE DEF Next1
      <4> QED BY <3>1, <3>2 DEF step
    <3> HIDE DEF Next1
    <3> QED BY <3>1, <3>2, <3>3
  <2>6. g[0] = << >>
    BY <1>1, <2>4 DEF Defined
  <2> HIDE DEF Next1
  <2>7. g = [k \in 0 .. n |-> g[k]]
    OBVIOUS
  <2> HIDE DEF g
  <2>8. \A k \in 0 .. n : g[k] = IF k = 0 THEN << >> ELSE Next1(k, g[k - 1])
    BY <1>1, <2>5, <2>6
  <2>9. Is(g)
    BY <2>7, <2>8
  <2> QED BY <2>9
<1>3. Is(first)
  <2> HIDE DEF Is
  <2> QED BY <1>2
<1>4. Those(s, S) = first[n]
  BY DEF Those
<1> HIDE DEF first
<1>5. first[0] = << >> /\ \A k \in 1 .. n : first[k] = Next1(k, first[k - 1])
  <2> HIDE DEF Next1
  <2>1. \A k \in 0 .. n : first[k] = IF k = 0 THEN << >> ELSE Next1(k, first[k - 1])
    BY <1>3
  <2> QED BY <1>1, <2>1
<1> DEFINE Upto(k) == {s[j] : j \in 1 .. k} \intersect S
           Right(k) == /\ first[k] \in Seq(T)
                       /\ Range(first[k]) = Upto(k)
                       /\ IsInjective(s) => IsInjective(first[k])
           N == {k \in Nat : k <= n => Right(k)}
<1>6. 0 \in N
  <2>1. << >> \in Seq(T) /\ Range(<< >>) = {} /\ IsInjective(<< >>) /\ Upto(0) = {}
    BY DEF Range, IsInjective
  <2>2. Right(0)
    BY <1>5, <2>1
  <2> HIDE DEF Right
  <2> QED BY <2>2
<1>7. ASSUME NEW k \in N PROVE k + 1 \in N
  <2> SUFFICES ASSUME k + 1 <= n PROVE Right(k + 1)
    OBVIOUS
  <2>1. k \in Nat /\ k + 1 \in 1 .. n /\ (k + 1) - 1 = k /\ k <= n /\ s[k + 1] \in T
    BY <1>1
  <2>2. Right(k)
    BY <2>1
  <2>3. {s[j] : j \in 1 .. k + 1} = {s[j] : j \in 1 .. k} \union {s[k + 1]}
    <3>1. \A j \in 1 .. k + 1 : j \in 1 .. k \/ j = k + 1
      BY <2>1
    <3>2. 1 .. k \subseteq 1 .. k + 1 /\ k + 1 \in 1 .. k + 1
      BY <2>1
    <3> QED BY <3>1, <3>2
  <2>4. first[k + 1] = Next1(k + 1, first[k])
    BY <1>5, <2>1
  <2>5. CASE s[k + 1] \in S
    <3>1. first[k + 1] = Append(first[k], s[k + 1])
      BY <2>4, <2>5
    <3>2. Upto(k + 1) = Upto(k) \union {s[k + 1]}
      BY <2>3, <2>5
    <3>3. IsInjective(s) => s[k + 1] \notin {s[j] : j \in 1 .. k}
      BY <1>1, <2>1 DEF IsInjective
    <3> QED BY <2>1, <2>2, <3>1, <3>2, <3>3, AppendElements
  <2>6. CASE s[k + 1] \notin S
    <3>1. first[k + 1] = first[k] /\ Upto(k + 1) = Upto(k)
      BY <2>3, <2>4, <2>6
    <3> QED BY <2>2, <3>1
  <2> QED BY <2>5, <2>6
<1>8. n \in N
  <2>1. N \subseteq Nat
    OBVIOUS
  <2> HIDE DEF N
  <2> QED BY <1>1, <1>6, <1>7, <2>1, Induction
<1>9. Upto(n) = Range(s) \intersect S
  BY <1>1 DEF Range
<1> QED BY <1>4, <1>8, <1>9

(* A sequence and its reverse have the same elements.                      *)
LEMMA ReverseElements ==
  ASSUME NEW T, NEW s \in Seq(T)
  PROVE  /\ Reverse(s) \in Seq(T)
         /\ Range(Reverse(s)) = Range(s)
         /\ IsInjective(s) => IsInjective(Reverse(s))
<1> DEFINE r == Reverse(s)
           n == Len(s)
<1>1. n \in Nat /\ DOMAIN s = 1 .. n /\ \A k \in 1 .. n : s[k] \in T
  OBVIOUS
<1>2. r = [k \in 1 .. n |-> s[(n - k) + 1]]
  BY DEF Reverse
<1>3. \A k \in 1 .. n : (n - k) + 1 \in 1 .. n /\ (n - ((n - k) + 1)) + 1 = k
  BY <1>1
<1> HIDE DEF r
<1>4. r \in Seq(T)
  BY <1>1, <1>2, <1>3
<1>5. Range(r) = Range(s)
  BY <1>1, <1>2, <1>3 DEF Range
<1>6. IsInjective(s) => IsInjective(r)
  BY <1>1, <1>2, <1>3 DEF IsInjective
<1> QED BY <1>4, <1>5, <1>6 DEF r

(* One sequence behind another.                                            *)
LEMMA ConcatElements ==
  ASSUME NEW T, NEW q \in Seq(T), NEW r \in Seq(T)
  PROVE  /\ q \o r \in Seq(T)
         /\ Range(q \o r) = Range(q) \union Range(r)
         /\ IsInjective(q) /\ IsInjective(r) /\ Range(q) \intersect Range(r) = {} =>
              IsInjective(q \o r)
<1> DEFINE c == q \o r
           m == Len(q)
           n == Len(r)
<1>1. /\ m \in Nat /\ n \in Nat /\ c \in Seq(T) /\ DOMAIN c = 1 .. m + n
      /\ DOMAIN q = 1 .. m /\ DOMAIN r = 1 .. n
      /\ \A k \in 1 .. m + n : c[k] = IF k <= m THEN q[k] ELSE r[k - m]
  OBVIOUS
<1> HIDE DEF c, m, n
<1>2. \A k \in 1 .. m + n : /\ k <= m => k \in 1 .. m
                            /\ ~(k <= m) => k - m \in 1 .. n /\ k = m + (k - m)
  BY <1>1
<1>3. \A k \in 1 .. n : m + k \in 1 .. m + n /\ ~(m + k <= m) /\ (m + k) - m = k
  BY <1>1
<1>4. \A k \in 1 .. m : k \in 1 .. m + n /\ k <= m
  BY <1>1
<1>5. Range(c) = Range(q) \union Range(r)
  <2>1. \A x \in Range(c) : x \in Range(q) \union Range(r)
    BY <1>1, <1>2 DEF Range
  <2>2. \A x \in Range(q) : x \in Range(c)
    BY <1>1, <1>4 DEF Range
  <2>3. \A k \in 1 .. n : c[m + k] = r[k]
    BY <1>1, <1>3
  <2>4. \A x \in Range(r) : x \in Range(c)
    <3> SUFFICES ASSUME NEW k \in 1 .. n PROVE r[k] \in Range(c)
      BY <1>1 DEF Range
    <3>1. m + k \in DOMAIN c /\ c[m + k] = r[k]
      BY <1>1, <1>3, <2>3
    <3> QED BY <3>1 DEF Range
  <2> QED BY <2>1, <2>2, <2>4
<1>6. ASSUME IsInjective(q), IsInjective(r), Range(q) \intersect Range(r) = {}
      PROVE  IsInjective(c)
  <2> SUFFICES ASSUME NEW j \in 1 .. m + n, NEW k \in 1 .. m + n, c[j] = c[k]
               PROVE  j = k
    BY <1>1 DEF IsInjective
  <2>1. \A a \in 1 .. m, b \in 1 .. n : q[a] # r[b]
    BY <1>1, <1>6 DEF Range
  <2>2. CASE j <= m /\ k <= m
    BY <1>1, <1>2, <1>6, <2>2 DEF IsInjective
  <2>3. CASE ~(j <= m) /\ ~(k <= m)
    <3>1. j - m \in 1 .. n /\ k - m \in 1 .. n /\ r[j - m] = r[k - m]
      BY <1>1, <1>2, <2>3
    <3>2. j - m = k - m
      BY <1>1, <1>6, <3>1 DEF IsInjective
    <3> QED BY <1>1, <3>2
  <2>4. CASE j <= m /\ ~(k <= m)
    BY <1>1, <1>2, <2>1, <2>4
  <2>5. CASE ~(j <= m) /\ k <= m
    BY <1>1, <1>2, <2>1, <2>5
  <2> QED BY <2>2, <2>3, <2>4, <2>5
<1> QED BY <1>1, <1>5, <1>6 DEF c

(* A sequence without its first element.                                   *)
LEMMA TailElements ==
  ASSUME NEW T, NEW q \in Seq(T), q # << >>
  PROVE  /\ Head(q) \in T /\ Head(q) \in Range(q)
         /\ Tail(q) \in Seq(T)
         /\ Range(q) = Range(Tail(q)) \union {Head(q)}
         /\ IsInjective(q) => IsInjective(Tail(q)) /\ Head(q) \notin Range(Tail(q))
<1> DEFINE t == Tail(q)
           n == Len(q)
<1>1. /\ n \in Nat /\ n > 0 /\ t \in Seq(T) /\ DOMAIN t = 1 .. n - 1
      /\ DOMAIN q = 1 .. n /\ Head(q) = q[1] /\ \A k \in 1 .. n : q[k] \in T
      /\ \A k \in 1 .. n - 1 : t[k] = q[k + 1]
  OBVIOUS
<1> HIDE DEF t, n
<1>2. \A k \in 1 .. n - 1 : k + 1 \in 1 .. n /\ k + 1 # 1
  BY <1>1
<1>3. \A k \in 1 .. n : k = 1 \/ (k - 1 \in 1 .. n - 1 /\ (k - 1) + 1 = k)
  BY <1>1
<1>4. 1 \in 1 .. n
  BY <1>1
<1>5. Range(q) = Range(t) \union {q[1]}
  <2>1. Range(q) = {q[k] : k \in 1 .. n} /\ Range(t) = {t[k] : k \in 1 .. n - 1}
    BY <1>1 DEF Range
  <2>2. \A k \in 1 .. n : q[k] = q[1] \/ q[k] \in Range(t)
    <3> SUFFICES ASSUME NEW k \in 1 .. n, k # 1 PROVE q[k] \in Range(t)
      OBVIOUS
    <3>1. t[k - 1] = q[(k - 1) + 1] /\ (k - 1) + 1 = k /\ k - 1 \in 1 .. n - 1
      BY <1>1, <1>3
    <3>2. t[k - 1] = q[k]
      BY <3>1
    <3> QED BY <2>1, <3>1, <3>2
  <2>3. \A k \in 1 .. n - 1 : t[k] \in Range(q)
    BY <1>1, <1>2, <2>1
  <2> QED BY <1>4, <2>1, <2>2, <2>3
<1>6. ASSUME IsInjective(q)
      PROVE  IsInjective(t) /\ q[1] \notin Range(t)
  <2>1. \A j, k \in 1 .. n : q[j] = q[k] => j = k
    BY <1>1, <1>6 DEF IsInjective
  <2>2. \A j, k \in 1 .. n - 1 : t[j] = t[k] => j = k
    BY <1>1, <1>2, <2>1
  <2>3. \A k \in 1 .. n - 1 : t[k] # q[1]
    BY <1>1, <1>2, <1>4, <2>1
  <2> QED BY <1>1, <2>2, <2>3 DEF IsInjective, Range
<1> QED BY <1>1, <1>4, <1>5, <1>6 DEF t, Range

(* A set, put into a sequence.                                             *)
LEMMA SequenceOfSet ==
  ASSUME NEW S, IsFiniteSet(S), NEW q \in SetToSeqs(S)
  PROVE  q \in Seq(S) /\ Range(q) = S /\ IsInjective(q)
<1> DEFINE D == 1 .. Cardinality(S)
<1>1. Cardinality(S) \in Nat
  BY FS_CardinalityType
<1>2. q \in [D -> S] /\ IsInjective(q)
  BY DEF SetToSeqs, IsInjective
<1>3. q \in Injection(D, S)
  BY <1>2 DEF Injection
<1>4. Cardinality(D) = Cardinality(S)
  BY <1>1, FS_Interval
<1>5. q \in Surjection(D, S)
  BY <1>3, <1>4, FS_Injection
<1>6. Range(q) = S
  BY <1>2, <1>5 DEF Surjection, Range
<1> QED BY <1>1, <1>2, <1>6

----------------------------------------------------------------------------
Ready == Range(m_methods_push) \union Range(m_methods_pop)
           \union Range(m_threads_push) \union Range(m_threads_pop)

Apart(q, r) == Range(q) \intersect Range(r) = {}

(* Every process is in one place at most.                                  *)
QueueInv ==
  /\ m_methods_push \in Seq(Methods) /\ m_methods_pop \in Seq(Methods)
  /\ m_threads_push \in Seq(Threads) /\ m_threads_pop \in Seq(Threads)
  /\ curr \in Procs \union {Nobody}
  /\ IsInjective(m_methods_push) /\ IsInjective(m_methods_pop)
  /\ IsInjective(m_threads_push) /\ IsInjective(m_threads_pop)
  /\ Apart(m_methods_push, m_methods_pop) /\ Apart(m_threads_push, m_threads_pop)
  /\ curr \notin Ready

LEMMA ReadyQueues == \A p : is_runnable(p) <=> p \in Ready
BY DEF is_runnable, Queues, Ready

LEMMA EmptyQueues ==
  ASSUME QueueInv
  PROVE  is_empty <=> Ready = {}
<1>1. \A T : \A q \in Seq(T) : q = << >> <=> Range(q) = {}
  <2> SUFFICES ASSUME NEW T, NEW q \in Seq(T)
               PROVE  q = << >> <=> Range(q) = {}
    OBVIOUS
  <2>1. Range(<< >>) = {}
    BY DEF Range
  <2>2. q # << >> => Head(q) \in Range(q)
    BY TailElements
  <2> QED BY <2>1, <2>2
<1>2. /\ m_methods_push = << >> <=> Range(m_methods_push) = {}
      /\ m_methods_pop = << >> <=> Range(m_methods_pop) = {}
      /\ m_threads_push = << >> <=> Range(m_threads_push) = {}
      /\ m_threads_pop = << >> <=> Range(m_threads_pop) = {}
  BY <1>1 DEF QueueInv
<1> QED BY <1>2 DEF is_empty, Queues, Ready

LEMMA ReadyProcs ==
  ASSUME QueueInv
  PROVE  /\ Range(m_methods_push) \subseteq Methods /\ Range(m_methods_pop) \subseteq Methods
         /\ Range(m_threads_push) \subseteq Threads /\ Range(m_threads_pop) \subseteq Threads
         /\ Ready \subseteq Procs
BY DEF QueueInv, Ready, Range, Procs

(* The processes sensitive to an event become ready, but the one running.  *)
LEMMA WakeReady ==
  ASSUME QueueInv, NEW e \in Events, wake(e), curr' = curr
  PROVE  QueueInv' /\ Ready' = Ready \union (Range(Static[e]) \ {curr})
<1> DEFINE s == Reverse(Static[e])
           Idle(kind) == {p \in kind : ~is_runnable(p) /\ p # curr}
<1>1. Static[e] \in Seq(Procs) /\ IsInjective(Static[e])
  BY KernelAssumption
<1>2. s \in Seq(Procs) /\ Range(s) = Range(Static[e]) /\ IsInjective(s)
  BY <1>1, ReverseElements
<1>3. Range(s) \subseteq Methods \union Threads
  BY <1>2 DEF Range, Procs
<1> HIDE DEF s
<1>4. ASSUME NEW kind
      PROVE  /\ Woken(e, kind) \in Seq(Procs) /\ IsInjective(Woken(e, kind))
             /\ Range(Woken(e, kind)) = Range(s) \intersect Idle(kind)
  <2>1. Woken(e, kind) = Those(s, Idle(kind))
    BY DEF Woken, s
  <2> HIDE DEF Idle
  <2> QED BY <1>2, <2>1, ThoseElements
<1>5. ASSUME NEW kind
      PROVE  Woken(e, kind) \in Seq(kind)
  <2>1. Range(Woken(e, kind)) \subseteq kind /\ Woken(e, kind) \in Seq(Procs)
    BY <1>4
  <2> HIDE DEF Idle
  <2> QED BY <2>1 DEF Range
<1> DEFINE M == Woken(e, Methods)
           H == Woken(e, Threads)
<1>6. /\ M \in Seq(Methods) /\ IsInjective(M) /\ Range(M) = Range(s) \intersect Idle(Methods)
      /\ H \in Seq(Threads) /\ IsInjective(H) /\ Range(H) = Range(s) \intersect Idle(Threads)
  BY <1>4, <1>5
<1>7. /\ m_methods_push' = m_methods_push \o M /\ m_threads_push' = m_threads_push \o H
      /\ m_methods_pop' = m_methods_pop /\ m_threads_pop' = m_threads_pop
  BY DEF wake
<1> HIDE DEF M, H
<1>8. \A k : Idle(k) \intersect Ready = {} /\ curr \notin Idle(k)
  BY ReadyQueues
<1>9. Range(s) \intersect (Idle(Methods) \union Idle(Threads)) = (Range(s) \ {curr}) \ Ready
  BY <1>3, ReadyQueues
<1> HIDE DEF Idle
<1>10. Apart(m_methods_push, M) /\ Apart(m_methods_pop, M)
  BY <1>6, <1>8 DEF Apart, Ready
<1>11. Apart(m_threads_push, H) /\ Apart(m_threads_pop, H)
  BY <1>6, <1>8 DEF Apart, Ready
<1>12. /\ m_methods_push' \in Seq(Methods) /\ IsInjective(m_methods_push')
       /\ Range(m_methods_push') = Range(m_methods_push) \union Range(M)
  BY <1>6, <1>7, <1>10, ConcatElements DEF QueueInv, Apart
<1>13. /\ m_threads_push' \in Seq(Threads) /\ IsInjective(m_threads_push')
       /\ Range(m_threads_push') = Range(m_threads_push) \union Range(H)
  BY <1>6, <1>7, <1>11, ConcatElements DEF QueueInv, Apart
<1>14. Ready' = Ready \union (Range(s) \intersect (Idle(Methods) \union Idle(Threads)))
  BY <1>6, <1>7, <1>12, <1>13 DEF Ready
<1>15. Ready' = Ready \union (Range(Static[e]) \ {curr})
  BY <1>2, <1>9, <1>14
<1>16. Apart(m_methods_push, m_methods_pop)' /\ Apart(m_threads_push, m_threads_pop)'
  BY <1>7, <1>10, <1>11, <1>12, <1>13 DEF Apart, QueueInv
<1>17. curr \notin Ready'
  BY <1>15 DEF QueueInv
<1> QED BY <1>7, <1>12, <1>13, <1>15, <1>16, <1>17 DEF QueueInv

LEMMA QueuesUnchanged ==
  ASSUME QueueInv, UNCHANGED queueVars, curr' \in {curr, Nobody}
  PROVE  QueueInv' /\ Ready' = Ready
<1>1. UNCHANGED <<m_methods_push, m_methods_pop, m_threads_push, m_threads_pop>>
  BY DEF queueVars
<1>2. Ready' = Ready
  BY <1>1 DEF Ready
<1>3. curr' \notin Ready
  BY ReadyProcs, KernelAssumption DEF QueueInv
<1> QED BY <1>1, <1>2, <1>3 DEF QueueInv, Apart

(* At the start of a pass the queue pushed to becomes the one popped from. *)
LEMMA ToggleReady ==
  ASSUME QueueInv, BeginPass \/ EndMethods
  PROVE  QueueInv' /\ Ready' = Ready
<1>1. Range(<< >>) = {} /\ IsInjective(<< >>)
  BY DEF Range, IsInjective
<1>2. CASE BeginPass
  <2>1. /\ UNCHANGED <<m_threads_push, m_threads_pop, curr>>
        /\ toggle(m_methods_push, m_methods_pop)
    BY <1>2 DEF BeginPass
  <2>2. \/ UNCHANGED <<m_methods_push, m_methods_pop>>
        \/ m_methods_pop = << >> /\ m_methods_pop' = m_methods_push /\ m_methods_push' = << >>
    BY <2>1 DEF toggle
  <2>3. Ready' = Ready
    BY <1>1, <2>1, <2>2 DEF Ready
  <2>4. << >> \in Seq(Methods)
    OBVIOUS
  <2> QED BY <1>1, <2>1, <2>2, <2>3, <2>4 DEF QueueInv, Apart
<1>3. CASE EndMethods
  <2>1. /\ UNCHANGED <<m_methods_push, m_methods_pop, curr>>
        /\ toggle(m_threads_push, m_threads_pop)
    BY <1>3 DEF EndMethods
  <2>2. \/ UNCHANGED <<m_threads_push, m_threads_pop>>
        \/ m_threads_pop = << >> /\ m_threads_pop' = m_threads_push /\ m_threads_push' = << >>
    BY <2>1 DEF toggle
  <2>3. Ready' = Ready
    BY <1>1, <2>1, <2>2 DEF Ready
  <2>4. << >> \in Seq(Threads)
    OBVIOUS
  <2> QED BY <1>1, <2>1, <2>2, <2>3, <2>4 DEF QueueInv, Apart
<1> QED BY <1>2, <1>3

(* A process that is run is not queued any more.                           *)
LEMMA PopReady ==
  ASSUME QueueInv, PopMethod \/ PopThread
  PROVE  QueueInv' /\ curr' \in Ready /\ Ready' = Ready \ {curr'}
<1>1. Methods \intersect Threads = {}
  BY KernelAssumption
<1>2. CASE PopMethod
  <2> DEFINE q == m_methods_pop
  <2>1. /\ UNCHANGED <<m_methods_push, m_threads_push, m_threads_pop>>
        /\ q # << >> /\ curr' = Head(q) /\ q' = Tail(q)
    BY <1>2 DEF PopMethod
  <2>2. /\ curr' \in Methods /\ curr' \in Range(q) /\ q' \in Seq(Methods)
        /\ Range(q) = Range(q') \union {curr'}
        /\ IsInjective(q') /\ curr' \notin Range(q')
    BY <2>1, TailElements DEF QueueInv
  <2>3. curr' \notin Range(m_methods_push)
    BY <2>2 DEF QueueInv, Apart
  <2>4. curr' \notin Range(m_threads_push) \union Range(m_threads_pop)
    BY <1>1, <2>2, ReadyProcs
  <2>5. curr' \in Ready /\ Ready' = Ready \ {curr'}
    BY <2>1, <2>2, <2>3, <2>4 DEF Ready
  <2>6. Apart(m_methods_push, m_methods_pop)' /\ Apart(m_threads_push, m_threads_pop)'
    BY <2>1, <2>2 DEF QueueInv, Apart
  <2> QED BY <2>1, <2>2, <2>5, <2>6 DEF QueueInv, Procs
<1>3. CASE PopThread
  <2> DEFINE q == m_threads_pop
  <2>1. /\ UNCHANGED <<m_methods_push, m_methods_pop, m_threads_push>>
        /\ q # << >> /\ curr' = Head(q) /\ q' = Tail(q)
    BY <1>3 DEF PopThread
  <2>2. /\ curr' \in Threads /\ curr' \in Range(q) /\ q' \in Seq(Threads)
        /\ Range(q) = Range(q') \union {curr'}
        /\ IsInjective(q') /\ curr' \notin Range(q')
    BY <2>1, TailElements DEF QueueInv
  <2>3. curr' \notin Range(m_threads_push)
    BY <2>2 DEF QueueInv, Apart
  <2>4. curr' \notin Range(m_methods_push) \union Range(m_methods_pop)
    BY <1>1, <2>2, ReadyProcs
  <2>5. curr' \in Ready /\ Ready' = Ready \ {curr'}
    BY <2>1, <2>2, <2>3, <2>4 DEF Ready
  <2>6. Apart(m_methods_push, m_methods_pop)' /\ Apart(m_threads_push, m_threads_pop)'
    BY <2>1, <2>2 DEF QueueInv, Apart
  <2> QED BY <2>1, <2>2, <2>5, <2>6 DEF QueueInv, Procs
<1> QED BY <1>2, <1>3

(* The event a timed or a delta notification is for.                       *)
LEMMA TriggeredEvent ==
  ASSUME NoteInv
  PROVE  /\ NotifyDelta => m_delta_events[i] \in Events /\ m_notify_type[m_delta_events[i]] = "DELTA"
         /\ \A x \in m_timed_events : Fire(x) /\ x.event # NoEvent =>
              x.event \in Events /\ m_notify_type[x.event] = "TIMED" /\ m_timed[x.event] = 0
<1>1. ASSUME NotifyDelta
      PROVE  m_delta_events[i] \in Events /\ m_notify_type[m_delta_events[i]] = "DELTA"
  <2>1. phase = "notify" /\ i \in 1 .. Pending /\ i \in 1 .. Len(m_delta_events)
    BY <1>1 DEF NotifyDelta, NoteInv, NoteTypes, Pending
  <2> QED BY <2>1 DEF NoteInv, NoteTypes, ListAgrees
<1>2. ASSUME NEW x \in m_timed_events, Fire(x), x.event # NoEvent
      PROVE  x.event \in Events /\ m_notify_type[x.event] = "TIMED" /\ m_timed[x.event] = 0
  <2>1. x \in Live /\ x.notify_time = 0
    BY <1>2 DEF Live, Fire
  <2> QED BY <1>2, <2>1 DEF NoteInv, NoteTypes, QueueAgrees
<1> QED BY <1>1, <1>2

LEMMA QueueStep ==
  ASSUME NoteInv, QueueInv, [Next]_kernelVars
  PROVE  QueueInv'
<1>1. CASE BeginPass \/ EndMethods
  BY <1>1, ToggleReady
<1>2. CASE PopMethod \/ PopThread
  BY <1>2, PopReady
<1>3. CASE NotifyDelta
  <2>1. wake(m_delta_events[i]) /\ curr' = curr
    BY <1>3 DEF NotifyDelta, trigger
  <2> QED BY <1>3, <2>1, TriggeredEvent, WakeReady
<1>4. ASSUME NEW x \in m_timed_events, Fire(x)
      PROVE  QueueInv'
  <2>1. CASE x.event = NoEvent
    BY <1>4, <2>1, QueuesUnchanged DEF Fire
  <2>2. CASE x.event # NoEvent
    <3>1. wake(x.event) /\ curr' = curr
      BY <1>4, <2>2 DEF Fire, trigger
    <3> QED BY <1>4, <2>2, <3>1, TriggeredEvent, WakeReady
  <2> QED BY <2>1, <2>2
<1>5. ASSUME NEW e \in UserEvents, NotifyNow(e)
      PROVE  QueueInv'
  <2>1. e \in Events /\ wake(e) /\ curr' = curr
    BY <1>5 DEF UserEvents, NotifyNow, notify_now, callVars
  <2> QED BY <2>1, WakeReady
<1>6. CASE EndPass \/ Update \/ EndUpdate \/ EndNotify \/ Advance \/ EndFire \/ Starve
  <2>1. UNCHANGED queueVars /\ curr' = curr
    BY <1>6 DEF EndPass, Update, EndUpdate, EndNotify, Advance, EndFire, Starve
  <2> QED BY <2>1, QueuesUnchanged
<1>7. CASE \/ \E e \in UserEvents : Cancel(e) \/ \E t \in 0 .. MAX_DELAY : Notify(e, t)
           \/ \E s \in Signals : Fail(s) \/ \E v \in Values : Write(s, v)
           \/ Stop \/ Wait \/ Over \/ UNCHANGED kernelVars
  <2>1. UNCHANGED queueVars /\ curr' \in {curr, Nobody}
    BY <1>7 DEF Cancel, Notify, Fail, Write, Stop, Wait, yields, Over, kernelVars, callVars
  <2> QED BY <2>1, QueuesUnchanged
<1> QED BY <1>1, <1>2, <1>3, <1>4, <1>5, <1>6, <1>7 DEF Next, KernelStep, Call

----------------------------------------------------------------------------
(* The list of updates                                                     *)

SignalInv ==
  /\ m_cur_val \in [Signals -> Values] /\ m_new_val \in [Signals -> Values]
  /\ m_writer_p \in [Signals -> Procs \union {Nobody}]
  /\ m_update_list \in Seq(Signals) /\ IsInjective(m_update_list)
  /\ \A s \in Signals : m_new_val[s] # m_cur_val[s] => s \in Range(m_update_list)
  /\ \A s \in ManyWriters : m_writer_p[s] # Nobody => s \in Range(m_update_list)

(* A signal with many writers requests an update for each first write of a *)
(* delta cycle, the others only when their value is to change.             *)
LEMMA WriteSignals ==
  ASSUME SignalInv, QueueInv, NEW s \in Signals, NEW v \in Values, Write(s, v)
  PROVE  SignalInv'
<1> DEFINE head == IF Requests(s, v) THEN <<s>> ELSE << >>
<1>1. /\ m_new_val' = [m_new_val EXCEPT ![s] = v]
      /\ m_writer_p' = [m_writer_p EXCEPT ![s] = curr]
      /\ m_update_list' = head \o m_update_list
      /\ m_cur_val' = m_cur_val
  BY DEF Write, write
<1>2. /\ head \in Seq(Signals) /\ IsInjective(head)
      /\ Range(head) = IF Requests(s, v) THEN {s} ELSE {}
  BY DEF IsInjective, Range
<1>3. Requests(s, v) <=> (v # m_new_val[s] \/ s \in ManyWriters) /\ s \notin Range(m_update_list)
  BY DEF Requests
<1> HIDE DEF head
<1>4. /\ m_update_list' \in Seq(Signals) /\ IsInjective(m_update_list')
      /\ Range(m_update_list') = Range(head) \union Range(m_update_list)
  BY <1>1, <1>2, <1>3, ConcatElements DEF SignalInv
<1>5. \A r \in Signals : m_new_val'[r] # m_cur_val'[r] => r \in Range(m_update_list')
  BY <1>1, <1>2, <1>3, <1>4 DEF SignalInv
<1>6. \A r \in ManyWriters : m_writer_p'[r] # Nobody => r \in Range(m_update_list')
  BY <1>1, <1>2, <1>3, <1>4, KernelAssumption DEF SignalInv
<1> QED BY <1>1, <1>4, <1>5, <1>6 DEF SignalInv, QueueInv

LEMMA UpdateSignals ==
  ASSUME SignalInv, Update
  PROVE  SignalInv'
<1> DEFINE s == Head(m_update_list)
<1>1. /\ m_update_list # << >> /\ m_update_list' = Tail(m_update_list)
      /\ m_writer_p' = [m_writer_p EXCEPT ![s] = IF s \in ManyWriters THEN Nobody ELSE @]
      /\ m_cur_val' = [m_cur_val EXCEPT ![s] = m_new_val[s]]
      /\ m_new_val' = m_new_val
  BY DEF Update
<1>2. /\ s \in Signals /\ m_update_list' \in Seq(Signals) /\ IsInjective(m_update_list')
      /\ Range(m_update_list) = Range(m_update_list') \union {s}
  BY <1>1, TailElements DEF SignalInv
<1> HIDE DEF s
<1>3. \A r \in ManyWriters : r \in Signals
  BY KernelAssumption
<1>4. \A r \in Signals : m_new_val'[r] # m_cur_val'[r] => r \in Range(m_update_list')
  BY <1>1, <1>2 DEF SignalInv
<1>5. \A r \in ManyWriters : m_writer_p'[r] # Nobody => r \in Range(m_update_list')
  BY <1>1, <1>2, <1>3 DEF SignalInv
<1> QED BY <1>1, <1>2, <1>4, <1>5 DEF SignalInv

LEMMA SignalStep ==
  ASSUME SignalInv, QueueInv, [Next]_kernelVars
  PROVE  SignalInv'
<1>1. CASE Update
  BY <1>1, UpdateSignals
<1>2. ASSUME NEW s \in Signals, NEW v \in Values, Write(s, v)
      PROVE  SignalInv'
  BY <1>2, WriteSignals
<1>3. CASE UNCHANGED signalVars
  BY <1>3 DEF SignalInv, signalVars
<1>4. CASE \/ BeginPass \/ PopMethod \/ EndMethods \/ PopThread \/ EndPass
           \/ EndUpdate \/ NotifyDelta \/ EndNotify
           \/ Advance \/ (\E x \in m_timed_events : Fire(x)) \/ EndFire \/ Starve
  <2>1. UNCHANGED signalVars
    BY <1>4 DEF BeginPass, PopMethod, EndMethods, PopThread, EndPass, EndUpdate,
                NotifyDelta, EndNotify, Advance, Fire, EndFire, Starve
  <2> QED BY <1>3, <2>1
<1>5. CASE \/ \E e \in UserEvents :
                NotifyNow(e) \/ Cancel(e) \/ \E t \in 0 .. MAX_DELAY : Notify(e, t)
           \/ (\E s \in Signals : Fail(s)) \/ Stop \/ Wait \/ Over \/ UNCHANGED kernelVars
  <2>1. UNCHANGED signalVars
    BY <1>5 DEF NotifyNow, Cancel, Notify, Fail, Stop, Wait, Over, kernelVars
  <2> QED BY <1>3, <2>1
<1> QED BY <1>1, <1>2, <1>4, <1>5 DEF Next, KernelStep, Call

----------------------------------------------------------------------------
(* The phases                                                              *)

StageInv ==
  /\ phase \in {"evaluate", "methods", "threads", "update", "notify", "advance",
                "fire", "over"}
  /\ curr # Nobody => phase \in {"methods", "threads"}
  /\ phase \in {"update", "advance"} => Ready = {}
  /\ phase \in {"advance", "fire"} => m_delta_events = << >>
  /\ \A x \in m_timed_events : x.notify_time <= MAX_DELAY

KernelInv == NoteInv /\ QueueInv /\ SignalInv /\ StageInv

(* What is buried keeps its time.                                          *)
LEMMA BuriedTimes ==
  ASSUME NoteInv, StageInv, NEW e \in Events
  PROVE  \A x \in Buried(e) : x.notify_time <= MAX_DELAY
<1>1. m_notify_type[e] = "TIMED" => Entry(e, m_timed[e]) \in m_timed_events
  BY DEF NoteInv, RecordOf
<1> QED BY <1>1 DEF Buried, StageInv, Entry

LEMMA StageStep ==
  ASSUME KernelInv, [Next]_kernelVars
  PROVE  StageInv'
<1> USE DEF KernelInv
<1>1. CASE BeginPass \/ EndMethods
  <2>1. /\ phase \in {"evaluate", "methods"} /\ phase' \in {"methods", "threads"}
        /\ curr' = curr /\ UNCHANGED <<m_timed_events, m_delta_events>>
    BY <1>1 DEF BeginPass, EndMethods, noteVars
  <2> QED BY <2>1 DEF StageInv
<1>2. CASE PopMethod \/ PopThread
  <2>1. /\ phase \in {"methods", "threads"} /\ phase' = phase
        /\ UNCHANGED m_timed_events
    BY <1>2 DEF PopMethod, PopThread
  <2> QED BY <2>1 DEF StageInv
<1>3. CASE EndPass
  <2>1. /\ curr = Nobody /\ phase' = (IF is_empty THEN "update" ELSE "evaluate")
        /\ UNCHANGED <<queueVars, curr, m_timed_events>>
    BY <1>3 DEF EndPass
  <2>2. Ready' = Ready
    BY <2>1, QueuesUnchanged
  <2>3. is_empty <=> Ready = {}
    BY EmptyQueues
  <2> QED BY <2>1, <2>2, <2>3 DEF StageInv
<1>4. CASE Update
  <2>1. phase = "update" /\ UNCHANGED <<queueVars, curr, phase, m_timed_events>>
    BY <1>4 DEF Update
  <2>2. Ready' = Ready
    BY <2>1, QueuesUnchanged
  <2> QED BY <2>1, <2>2 DEF StageInv
<1>5. CASE EndUpdate
  <2>1. /\ phase = "update" /\ phase' \in {"over", "notify"}
        /\ UNCHANGED <<curr, m_timed_events>>
    BY <1>5 DEF EndUpdate
  <2> QED BY <2>1 DEF StageInv
<1>6. CASE NotifyDelta
  <2>1. phase = "notify" /\ UNCHANGED <<phase, curr, m_timed_events>>
    BY <1>6 DEF NotifyDelta
  <2> QED BY <2>1 DEF StageInv
<1>7. CASE EndNotify
  <2>1. /\ phase = "notify" /\ phase' = (IF is_empty THEN "advance" ELSE "evaluate")
        /\ m_delta_events' = << >>
        /\ UNCHANGED <<queueVars, curr, m_timed_events>>
    BY <1>7 DEF EndNotify
  <2>2. Ready' = Ready
    BY <2>1, QueuesUnchanged
  <2>3. is_empty <=> Ready = {}
    BY EmptyQueues
  <2> QED BY <2>1, <2>2, <2>3 DEF StageInv
<1>8. CASE Advance
  <2>1. /\ phase = "advance" /\ phase' = "fire" /\ UNCHANGED <<curr, m_delta_events>>
    BY <1>8 DEF Advance
  <2>2. PICK first \in Live :
          m_timed_events' =
            {Entry(x.event, x.notify_time - first.notify_time) :
               x \in {y \in m_timed_events : y.notify_time >= first.notify_time}}
    BY <1>8 DEF Advance
  <2>3. /\ first.notify_time \in Int /\ first.notify_time >= 0
        /\ \A x \in m_timed_events : x.notify_time \in Int
    <3>1. \A x \in m_timed_events : x.notify_time \in Int
      BY DEF NoteInv, NoteTypes
    <3>2. first \in m_timed_events
      BY DEF Live
    <3>3. first.notify_time > 0 \/ first.notify_time = 0
      BY DEF NoteInv, QueueAgrees
    <3>4. first.notify_time \in Int
      BY <3>1, <3>2
    <3>5. first.notify_time >= 0
      BY <3>3, <3>4
    <3> QED BY <3>1, <3>4, <3>5
  <2>4. ASSUME NEW y \in m_timed_events'
        PROVE  y.notify_time <= MAX_DELAY
    <3>1. PICK x \in m_timed_events : y = Entry(x.event, x.notify_time - first.notify_time)
      BY <2>2
    <3>2. x.notify_time <= MAX_DELAY /\ y.notify_time = x.notify_time - first.notify_time
      BY <3>1 DEF StageInv, Entry
    <3> QED BY <2>3, <3>2, KernelAssumption
  <2> QED BY <2>1, <2>4 DEF StageInv
<1>9. ASSUME NEW x \in m_timed_events, Fire(x)
      PROVE  StageInv'
  <2>1. /\ phase = "fire" /\ UNCHANGED <<phase, curr, m_delta_events>>
        /\ m_timed_events' \subseteq m_timed_events
    BY <1>9 DEF Fire, noteVars
  <2> QED BY <2>1 DEF StageInv
<1>10. CASE EndFire
  <2>1. /\ phase = "fire" /\ phase' = (IF is_empty THEN "advance" ELSE "evaluate")
        /\ UNCHANGED <<queueVars, curr, m_timed_events, m_delta_events>>
    BY <1>10 DEF EndFire, noteVars
  <2>2. Ready' = Ready
    BY <2>1, QueuesUnchanged
  <2>3. is_empty <=> Ready = {}
    BY EmptyQueues
  <2> QED BY <2>1, <2>2, <2>3 DEF StageInv
<1>11. CASE Starve
  <2>1. phase = "advance" /\ phase' = "over" /\ curr' = curr /\ m_timed_events' = {}
    BY <1>11 DEF Starve
  <2> QED BY <2>1 DEF StageInv
<1>12. ASSUME NEW e \in UserEvents, NotifyNow(e) \/ Cancel(e)
       PROVE  StageInv'
  <2>1. /\ Running /\ UNCHANGED <<phase, curr>> /\ m_timed_events' = Buried(e) /\ e \in Events
    BY <1>12 DEF UserEvents, NotifyNow, Cancel, notify_now, cancel, callVars
  <2>2. \A x \in m_timed_events' : x.notify_time <= MAX_DELAY
    BY <2>1, BuriedTimes
  <2> QED BY <2>1, <2>2 DEF StageInv, Running
<1>13. ASSUME NEW e \in UserEvents, NEW t \in 0 .. MAX_DELAY, Notify(e, t)
       PROVE  StageInv'
  <2>1. /\ Running /\ UNCHANGED <<phase, curr>> /\ e \in Events
        /\ m_timed_events' \subseteq m_timed_events \union Buried(e) \union {Entry(e, t)}
    BY <1>13 DEF UserEvents, Notify, notify, callVars
  <2>2. \A x \in m_timed_events' : x.notify_time <= MAX_DELAY
    BY <2>1, BuriedTimes, KernelAssumption DEF StageInv, Entry
  <2> QED BY <2>1, <2>2 DEF StageInv, Running
<1>14. CASE \/ \E s \in Signals : \E v \in Values : Write(s, v)
            \/ Stop
  <2>1. Running /\ UNCHANGED <<phase, curr, m_timed_events>>
    BY <1>14 DEF Write, Stop, callVars
  <2> QED BY <2>1 DEF StageInv, Running
<1>15. CASE Wait \/ \E s \in Signals : Fail(s)
  <2>1. Running /\ curr' = Nobody /\ phase' \in {phase, "over"} /\ UNCHANGED m_timed_events
    BY <1>15 DEF Wait, yields, Fail
  <2> QED BY <2>1 DEF StageInv, Running
<1>16. CASE Over \/ UNCHANGED kernelVars
  <2>1. UNCHANGED <<queueVars, phase, curr, m_timed_events, m_delta_events>>
    BY <1>16 DEF Over, kernelVars, noteVars
  <2>2. Ready' = Ready
    BY <2>1, QueuesUnchanged
  <2> QED BY <2>1, <2>2 DEF StageInv
<1> QED BY <1>1, <1>2, <1>3, <1>4, <1>5, <1>6, <1>7, <1>8, <1>9, <1>10, <1>11, <1>12,
           <1>13, <1>14, <1>15, <1>16 DEF Next, KernelStep, Call

LEMMA KernelInit == Init => KernelInv /\ Ready = Initialized
<1> SUFFICES ASSUME Init PROVE KernelInv /\ Ready = Initialized
  OBVIOUS
<1>1. NoteInv
  BY NoteInit
<1>2. /\ IsFiniteSet(Initialized \intersect Methods)
      /\ IsFiniteSet(Initialized \intersect Threads)
  <2>1. Initialized \intersect Methods \in SUBSET Procs
    BY KernelAssumption
  <2>2. Initialized \intersect Threads \in SUBSET Procs
    BY KernelAssumption
  <2> QED BY <2>1, <2>2, FS_Subset, KernelAssumption
<1>3. /\ m_methods_push \in Seq(Initialized \intersect Methods)
      /\ Range(m_methods_push) = Initialized \intersect Methods
      /\ IsInjective(m_methods_push)
  BY <1>2, SequenceOfSet DEF Init
<1>4. /\ m_threads_push \in Seq(Initialized \intersect Threads)
      /\ Range(m_threads_push) = Initialized \intersect Threads
      /\ IsInjective(m_threads_push)
  BY <1>2, SequenceOfSet DEF Init
<1>5. /\ m_methods_pop = << >> /\ m_threads_pop = << >> /\ curr = Nobody
      /\ Range(<< >>) = {} /\ IsInjective(<< >>)
  BY DEF Init, Range, IsInjective
<1>6. Ready = Initialized
  BY <1>3, <1>4, <1>5, KernelAssumption DEF Ready, Procs
<1>7. QueueInv
  <2>1. m_methods_push \in Seq(Methods) /\ m_threads_push \in Seq(Threads)
    BY <1>3, <1>4
  <2>2. << >> \in Seq(Methods) /\ << >> \in Seq(Threads)
    OBVIOUS
  <2> QED BY <1>3, <1>4, <1>5, <1>6, <2>1, <2>2, KernelAssumption DEF QueueInv, Apart
<1>8. SignalInv
  BY <1>5, KernelAssumption DEF Init, SignalInv
<1>9. StageInv
  BY DEF Init, StageInv
<1> QED BY <1>1, <1>6, <1>7, <1>8, <1>9 DEF KernelInv

(***************************************************************************)
(* The inductive invariant of the kernel: what its records, queues, list   *)
(* of updates and phases have to do with one another.                      *)
(***************************************************************************)
THEOREM KernelInvariant == Spec => []KernelInv
<1>1. KernelInv /\ [Next]_kernelVars => KernelInv'
  BY NoteStep, QueueStep, SignalStep, StageStep DEF KernelInv
<1> QED BY <1>1, KernelInit, PTL DEF Spec

(***************************************************************************)
(* No list that is linked through its elements holds one of them twice,    *)
(* no process is queued while it runs, and no update of a signal is missed *)
(* (sc_runnable_int.h:195, sc_prim_channel.cpp), for any number of         *)
(* processes, signals and events, whatever the processes call.             *)
(***************************************************************************)
THEOREM ListsAreSound == Spec => []ListsSound
<1>1. ASSUME KernelInv
      PROVE  ListsSound
  <2>0. QueueInv /\ SignalInv
    BY <1>1 DEF KernelInv
  <2>1. /\ m_methods_push \in Seq(Procs) /\ m_methods_pop \in Seq(Procs)
        /\ m_threads_push \in Seq(Procs) /\ m_threads_pop \in Seq(Procs)
    BY <2>0 DEF QueueInv, Procs
  <2>2. (Range(m_methods_push) \union Range(m_methods_pop))
           \intersect (Range(m_threads_push) \union Range(m_threads_pop)) = {}
    BY <2>0, ReadyProcs, KernelAssumption
  <2> DEFINE a == m_methods_push \o m_methods_pop
             b == a \o m_threads_push
  <2>3. a \in Seq(Procs) /\ IsInjective(a)
        /\ Range(a) = Range(m_methods_push) \union Range(m_methods_pop)
    BY <2>0, <2>1, ConcatElements DEF QueueInv, Apart
  <2> HIDE DEF a
  <2>4. b \in Seq(Procs) /\ IsInjective(b) /\ Range(b) = Range(a) \union Range(m_threads_push)
    BY <2>0, <2>1, <2>2, <2>3, ConcatElements DEF QueueInv, Apart
  <2> HIDE DEF b
  <2>5. IsInjective(b \o m_threads_pop)
    BY <2>0, <2>1, <2>2, <2>3, <2>4, ConcatElements DEF QueueInv, Apart
  <2>6. IsInjective(m_methods_push \o m_methods_pop \o m_threads_push \o m_threads_pop)
    BY <2>5 DEF a, b
  <2>7. ~is_runnable(curr)
    BY <2>0, ReadyQueues DEF QueueInv
  <2> QED BY <2>0, <2>6, <2>7 DEF ListsSound, SignalInv
<1> QED BY <1>1, KernelInvariant, PTL
----------------------------------------------------------------------------
(* The scheduling semantics                                                *)

(* The time left to a notification, whatever its type.                     *)
DueKnown ==
  /\ due \in [Events -> Int] /\ Never = MAX_DELAY + 1 /\ MAX_DELAY \in Nat
  /\ \A e \in Events :
       /\ m_notify_type[e] = "NONE" => due[e] = Never
       /\ m_notify_type[e] = "DELTA" => due[e] = 0
       /\ m_notify_type[e] = "TIMED" =>
            /\ due[e] = m_timed[e] /\ Entry(e, m_timed[e]) \in Live
            /\ due[e] \in 0 .. MAX_DELAY
            /\ due[e] = 0 => phase = "fire"
       /\ m_notify_type[e] \in {"NONE", "DELTA", "TIMED"}

LEMMA DueTimes ==
  /\ KernelInv => DueKnown
  /\ KernelInv' => DueKnown'
<1>1. ASSUME NoteInv, StageInv
      PROVE  DueKnown
  <2>1. MAX_DELAY \in Nat /\ Never = MAX_DELAY + 1
    BY KernelAssumption DEF Never
  <2>2. /\ m_notify_type \in [Events -> {"NONE", "DELTA", "TIMED"}]
        /\ m_timed \in [Events -> Int]
    BY <1>1 DEF NoteInv, NoteTypes
  <2>3. ASSUME NEW e \in Events, m_notify_type[e] = "TIMED"
        PROVE  /\ Entry(e, m_timed[e]) \in Live
               /\ m_timed[e] \in 0 .. MAX_DELAY
               /\ m_timed[e] = 0 => phase = "fire"
    <3>1. Entry(e, m_timed[e]) \in m_timed_events
      BY <1>1, <2>3 DEF NoteInv, RecordOf
    <3>2. /\ Entry(e, m_timed[e]).event = e
          /\ Entry(e, m_timed[e]).notify_time = m_timed[e]
      BY DEF Entry
    <3>3. Entry(e, m_timed[e]) \in Live
      BY <3>1, <3>2, KernelAssumption DEF Live
    <3>4. m_timed[e] <= MAX_DELAY
      BY <1>1, <3>1, <3>2 DEF StageInv
    <3>5. m_timed[e] > 0 \/ (m_timed[e] = 0 /\ phase = "fire")
      BY <1>1, <3>2, <3>3 DEF NoteInv, QueueAgrees
    <3> QED BY <2>1, <2>2, <3>3, <3>4, <3>5
  <2>4. ASSUME NEW e \in Events
        PROVE  /\ due[e] \in Int
               /\ m_notify_type[e] = "NONE" => due[e] = Never
               /\ m_notify_type[e] = "DELTA" => due[e] = 0
               /\ m_notify_type[e] = "TIMED" => due[e] = m_timed[e]
    BY <2>1, <2>2 DEF due
  <2>5. due \in [Events -> Int]
    BY <2>4 DEF due
  <2> QED BY <2>1, <2>2, <2>3, <2>4, <2>5 DEF DueKnown
<1>2. KernelInv => DueKnown
  BY <1>1 DEF KernelInv
<1>3. KernelInv' => DueKnown'
  BY <1>2, PTL
<1> QED BY <1>2, <1>3

(* What an action leaves alone it leaves alone in this view, too.          *)
LEMMA ViewKept ==
  /\ UNCHANGED <<m_notify_type, m_timed>> => due' = due
  /\ UNCHANGED noteVars => due' = due
  /\ UNCHANGED m_writer_p => writers' = writers
  /\ UNCHANGED signalVars => writers' = writers /\ UNCHANGED <<m_cur_val, m_new_val>>
  /\ UNCHANGED phase => stage' = stage
<1>1. ASSUME UNCHANGED <<m_notify_type, m_timed>>
      PROVE  due' = due
  BY <1>1 DEF due
<1>2. UNCHANGED m_writer_p => writers' = writers
  BY DEF writers
<1>3. UNCHANGED phase => stage' = stage
  BY DEF stage
<1> QED BY <1>1, <1>2, <1>3 DEF noteVars, signalVars

LEMMA ReadyView ==
  /\ QueueInv => ready = Ready
  /\ QueueInv' => ready' = Ready'
<1>1. QueueInv => ready = Ready
  BY ReadyQueues, ReadyProcs DEF ready
<1>2. QueueInv' => (ready = Ready)'
  BY <1>1, PTL
<1> QED BY <1>1, <1>2

LEMMA ReadyKept ==
  ASSUME KernelInv, QueueInv', UNCHANGED queueVars, curr' \in {curr, Nobody}
  PROVE  ready' = ready
<1>1. Ready' = Ready
  BY QueuesUnchanged DEF KernelInv
<1>2. ready = Ready
  BY ReadyView DEF KernelInv
<1>3. ready' = Ready'
  BY ReadyView
<1> QED BY <1>1, <1>2, <1>3

LEMMA EvaluateSteps ==
  ASSUME KernelInv, QueueInv',
         BeginPass \/ EndMethods \/ PopMethod \/ PopThread \/ EndPass
  PROVE  [scheduler!Next]_scheduler!vars
<1>1. ready = Ready /\ Ready \subseteq Procs
  BY ReadyView, ReadyProcs DEF KernelInv
<1>2. ready' = Ready'
  BY ReadyView
<1>3. UNCHANGED <<due, m_cur_val, m_new_val, writers, m_forced_stop>>
  <2>1. UNCHANGED <<noteVars, signalVars, m_forced_stop>>
    BY DEF BeginPass, EndMethods, PopMethod, PopThread, EndPass
  <2> QED BY <2>1, ViewKept
<1>4. CASE BeginPass \/ EndMethods
  <2>1. Ready' = Ready
    BY <1>4, ToggleReady DEF KernelInv
  <2>2. stage' = stage /\ curr' = curr
    BY <1>4 DEF BeginPass, EndMethods, stage
  <2> QED BY <1>1, <1>2, <1>3, <2>1, <2>2 DEF scheduler!vars
<1>5. CASE PopMethod \/ PopThread
  <2>1. curr' \in Ready /\ Ready' = Ready \ {curr'}
    BY <1>5, PopReady DEF KernelInv
  <2>2. stage = "evaluate" /\ stage' = stage /\ curr = Nobody
    BY <1>5 DEF PopMethod, PopThread, stage
  <2>3. scheduler!Run(curr')
    BY <1>1, <1>2, <1>3, <2>1, <2>2 DEF scheduler!Run
  <2> QED BY <1>1, <2>1, <2>3 DEF scheduler!Next
<1>6. CASE EndPass
  <2>1. UNCHANGED <<queueVars, curr>> /\ curr = Nobody
    BY <1>6 DEF EndPass
  <2>2. Ready' = Ready
    BY <2>1, QueuesUnchanged DEF KernelInv
  <2>3. is_empty <=> Ready = {}
    BY EmptyQueues DEF KernelInv
  <2>4. stage = "evaluate" /\ stage' = (IF is_empty THEN "update" ELSE "evaluate")
    BY <1>6 DEF EndPass, stage
  <2>5. CASE is_empty
    <3>1. scheduler!EndEvaluate
      BY <1>1, <1>2, <1>3, <2>1, <2>2, <2>3, <2>4, <2>5 DEF scheduler!EndEvaluate
    <3> QED BY <3>1 DEF scheduler!Next
  <2>6. CASE ~is_empty
    BY <1>1, <1>2, <1>3, <2>1, <2>2, <2>4, <2>6 DEF scheduler!vars
  <2> QED BY <2>5, <2>6
<1> QED BY <1>4, <1>5, <1>6

(* The update of a signal whose value changes, or is only given free.      *)
LEMMA UpdateStep ==
  ASSUME KernelInv, KernelInv', Update
  PROVE  [scheduler!Next]_scheduler!vars
<1> DEFINE s == Head(m_update_list)
           v == m_new_val[s]
           changed == IF v = m_cur_val[s] THEN << >> ELSE Announced[s][v]
<1>1. /\ phase = "update" /\ m_update_list # << >>
      /\ \A e \in Range(changed) : m_notify_type[e] = "NONE"
      /\ m_writer_p' = [m_writer_p EXCEPT ![s] = IF s \in ManyWriters THEN Nobody ELSE @]
      /\ m_cur_val' = [m_cur_val EXCEPT ![s] = v]
      /\ m_notify_type' = [e \in Events |->
           IF e \in Range(changed) THEN "DELTA" ELSE m_notify_type[e]]
      /\ UNCHANGED <<queueVars, curr, m_timed, m_new_val, m_forced_stop, phase>>
  BY DEF Update
<1>2. /\ s \in Signals /\ v \in Values
      /\ m_cur_val \in [Signals -> Values] /\ m_new_val \in [Signals -> Values]
      /\ m_writer_p \in [Signals -> Procs \union {Nobody}]
  BY <1>1, TailElements DEF KernelInv, SignalInv
<1>3. ready' = ready /\ stage' = stage /\ stage = "update"
  <2>1. QueueInv'
    BY DEF KernelInv
  <2> QED BY <1>1, <2>1, ReadyKept DEF stage
<1>4. writers' = [writers EXCEPT ![s] = IF s \in ManyWriters THEN {} ELSE @]
  BY <1>1, <1>2 DEF writers
<1>5. ASSUME NEW e \in Events
      PROVE  due'[e] = IF e \in Range(changed) THEN 0 ELSE due[e]
  <2>1. /\ m_notify_type'[e] = IF e \in Range(changed) THEN "DELTA" ELSE m_notify_type[e]
        /\ m_timed'[e] = m_timed[e]
    BY <1>1
  <2> HIDE DEF changed
  <2> QED BY <1>2, <2>1, DueTimes DEF DueKnown
<1>6. CASE v # m_cur_val[s]
  <2>1. changed = Announced[s][v]
    BY <1>6
  <2>2. due' = [e \in Events |-> IF e \in Range(Announced[s][v]) THEN 0 ELSE due[e]]
    BY <1>5, <2>1, DueTimes DEF DueKnown
  <2> HIDE DEF changed, s
  <2>3. scheduler!Commit(s)
    BY <1>1, <1>2, <1>3, <1>4, <1>6, <2>2 DEF scheduler!Commit
  <2> QED BY <1>2, <2>3 DEF scheduler!Next
<1>7. CASE v = m_cur_val[s]
  <2>1. Range(changed) = {}
    BY <1>7 DEF Range
  <2>2. due' = due
    BY <1>5, <2>1, DueTimes DEF DueKnown
  <2> HIDE DEF changed, s
  <2>3. m_cur_val' = m_cur_val
    BY <1>1, <1>2, <1>7
  <2>4. CASE s \in ManyWriters
    <3>1. scheduler!Release(s)
      BY <1>1, <1>2, <1>3, <1>4, <1>7, <2>2, <2>3, <2>4 DEF scheduler!Release
    <3> QED BY <1>2, <3>1 DEF scheduler!Next
  <2>5. CASE s \notin ManyWriters
    <3>1. writers' = writers
      BY <1>2, <1>4, <2>5 DEF writers
    <3> QED BY <1>1, <1>3, <2>2, <2>3, <3>1 DEF scheduler!vars
  <2> QED BY <2>4, <2>5
<1> QED BY <1>6, <1>7
LEMMA EndUpdateStep ==
  ASSUME KernelInv, QueueInv', EndUpdate
  PROVE  scheduler!EndUpdate
<1>1. /\ phase = "update" /\ m_update_list = << >>
      /\ phase' = (IF m_forced_stop THEN "over" ELSE "notify")
      /\ UNCHANGED <<queueVars, curr, noteVars, signalVars, m_forced_stop>>
  BY DEF EndUpdate
<1>2. /\ m_cur_val \in [Signals -> Values] /\ m_new_val \in [Signals -> Values]
      /\ \A s \in Signals : m_new_val[s] # m_cur_val[s] => s \in Range(m_update_list)
      /\ \A s \in ManyWriters : m_writer_p[s] # Nobody => s \in Range(m_update_list)
      /\ \A s \in ManyWriters : s \in Signals
  BY KernelAssumption DEF KernelInv, SignalInv
<1>3. Range(m_update_list) = {}
  BY <1>1 DEF Range
<1>4. m_cur_val = m_new_val
  BY <1>2, <1>3
<1>5. \A s \in ManyWriters : writers[s] = {}
  BY <1>2, <1>3 DEF writers
<1>6. stage = "update" /\ stage' = (IF m_forced_stop THEN "over" ELSE "notify")
  BY <1>1 DEF stage
<1> QED BY <1>1, <1>4, <1>5, <1>6, ViewKept, ReadyKept DEF scheduler!EndUpdate

(* An event that is triggered wakes all that is sensitive to it.           *)
LEMMA TriggerStep ==
  ASSUME KernelInv, KernelInv', NEW e \in Events, due[e] = 0, trigger(e),
         phase \in {"notify", "fire"}, UNCHANGED <<curr, signalVars, m_forced_stop, phase>>
  PROVE  scheduler!Trigger(e)
<1>1. /\ m_notify_type' = [m_notify_type EXCEPT ![e] = "NONE"]
      /\ m_timed' = [m_timed EXCEPT ![e] = Never]
      /\ wake(e)
  BY DEF trigger
<1>2. curr = Nobody /\ Nobody \notin Range(Static[e])
  BY KernelAssumption DEF KernelInv, StageInv, Range
<1>3. Ready' = Ready \union Range(Static[e])
  BY <1>1, <1>2, WakeReady DEF KernelInv
<1>4. ready' = ready \union Range(Static[e])
  BY <1>3, ReadyView DEF KernelInv
<1>5. m_notify_type \in [Events -> {"NONE", "DELTA", "TIMED"}] /\ m_timed \in [Events -> Int]
  BY DEF KernelInv, NoteInv, NoteTypes
<1>6. \A f \in Events : due'[f] = IF f = e THEN Never ELSE due[f]
  BY <1>1, <1>5, DueTimes DEF DueKnown
<1>7. due' = [due EXCEPT ![e] = Never]
  BY <1>6, DueTimes DEF DueKnown
<1>8. stage = "notify" /\ stage' = stage
  BY DEF stage
<1> QED BY <1>4, <1>7, <1>8, ViewKept DEF scheduler!Trigger, scheduler!Never, Never

LEMMA NotifySteps ==
  ASSUME KernelInv, KernelInv', NotifyDelta \/ \E x \in m_timed_events : Fire(x)
  PROVE  [scheduler!Next]_scheduler!vars
<1>1. CASE NotifyDelta
  <2> DEFINE e == m_delta_events[i]
  <2>1. e \in Events /\ due[e] = 0
    BY <1>1, TriggeredEvent, DueTimes DEF KernelInv, DueKnown
  <2>2. trigger(e) /\ phase = "notify" /\ UNCHANGED <<curr, signalVars, m_forced_stop, phase>>
    BY <1>1 DEF NotifyDelta
  <2> QED BY <2>1, <2>2, TriggerStep DEF scheduler!Next
<1>2. ASSUME NEW x \in m_timed_events, Fire(x)
      PROVE  [scheduler!Next]_scheduler!vars
  <2>1. phase = "fire" /\ UNCHANGED <<curr, signalVars, m_forced_stop, phase>>
    BY <1>2 DEF Fire
  <2>2. CASE x.event = NoEvent
    <3>1. UNCHANGED <<queueVars, noteVars>>
      BY <1>2, <2>2 DEF Fire
    <3>2. QueueInv'
      BY DEF KernelInv
    <3> QED BY <2>1, <3>1, <3>2, ViewKept, ReadyKept DEF scheduler!vars
  <2>3. CASE x.event # NoEvent
    <3>1. x.event \in Events /\ due[x.event] = 0
      BY <1>2, <2>3, TriggeredEvent, DueTimes DEF KernelInv, DueKnown
    <3>2. trigger(x.event)
      BY <1>2, <2>3 DEF Fire
    <3> QED BY <2>1, <3>1, <3>2, TriggerStep DEF scheduler!Next
  <2> QED BY <2>2, <2>3
<1> QED BY <1>1, <1>2

(* When all has been triggered that is due, no event is.                   *)
LEMMA NoneDue ==
  ASSUME KernelInv,
         \/ phase = "notify" /\ i = 0
         \/ phase = "fire" /\ \A x \in m_timed_events : x.notify_time # 0
         \/ phase = "advance"
  PROVE  /\ scheduler!NothingDue
         /\ \A e \in Events : m_notify_type[e] # "DELTA"
<1>1. Pending = 0
  BY DEF Pending, KernelInv, StageInv
<1>2. \A e \in Events : m_notify_type[e] # "DELTA"
  BY <1>1 DEF KernelInv, NoteInv, RecordOf
<1>3. ASSUME NEW e \in Events
      PROVE  due[e] # 0
  <2>1. CASE m_notify_type[e] = "NONE"
    BY <2>1, DueTimes DEF DueKnown
  <2>2. CASE m_notify_type[e] = "TIMED"
    <3>1. due[e] = 0 => phase = "fire" /\ Entry(e, 0) \in m_timed_events
      BY <2>2, DueTimes DEF DueKnown, Live
    <3>2. Entry(e, 0).notify_time = 0
      BY DEF Entry
    <3> QED BY <3>1, <3>2
  <2> QED BY <1>2, <2>1, <2>2, DueTimes DEF DueKnown
<1> QED BY <1>2, <1>3 DEF scheduler!NothingDue

LEMMA ResumeSteps ==
  ASSUME KernelInv, KernelInv', EndNotify \/ EndFire
  PROVE  [scheduler!Next]_scheduler!vars
<1>1. /\ phase \in {"notify", "fire"} /\ phase' = (IF is_empty THEN "advance" ELSE "evaluate")
      /\ UNCHANGED <<queueVars, curr, m_notify_type, m_timed, signalVars, m_forced_stop>>
  BY DEF EndNotify, EndFire, noteVars
<1>2. scheduler!NothingDue
  BY NoneDue DEF EndNotify, EndFire
<1>3. is_empty <=> ready = {}
  BY EmptyQueues, ReadyView DEF KernelInv
<1>4. UNCHANGED <<due, ready, writers, m_cur_val, m_new_val>>
  BY <1>1, ViewKept, ReadyKept DEF KernelInv
<1>5. stage = "notify" /\ stage' = (IF is_empty THEN "notify" ELSE "evaluate")
  BY <1>1 DEF stage
<1>6. CASE is_empty
  BY <1>1, <1>4, <1>5, <1>6 DEF scheduler!vars
<1>7. CASE ~is_empty
  <2>1. scheduler!Resume
    BY <1>1, <1>2, <1>3, <1>4, <1>5, <1>7 DEF scheduler!Resume
  <2> QED BY <2>1 DEF scheduler!Next
<1> QED BY <1>6, <1>7

LEMMA AdvanceStep ==
  ASSUME KernelInv, KernelInv', Advance
  PROVE  scheduler!Advance
<1>1. /\ phase = "advance" /\ phase' = "fire"
      /\ UNCHANGED <<queueVars, curr, m_notify_type, signalVars, m_forced_stop>>
  BY DEF Advance
<1>2. PICK first \in Live :
        /\ \A x \in Live : first.notify_time <= x.notify_time
        /\ m_timed' = [e \in Events |->
             IF m_notify_type[e] = "TIMED" THEN m_timed[e] - first.notify_time ELSE m_timed[e]]
  BY DEF Advance
<1> DEFINE e == first.event
<1>3. e \in Events /\ m_notify_type[e] = "TIMED" /\ m_timed[e] = first.notify_time
  BY DEF KernelInv, NoteInv, NoteTypes, QueueAgrees, Live
<1>4. due[e] = first.notify_time /\ due[e] \in 0 .. MAX_DELAY
  BY <1>3, DueTimes DEF DueKnown
<1>5. scheduler!NothingDue /\ \A f \in Events : m_notify_type[f] # "DELTA"
  BY <1>1, NoneDue
<1> HIDE DEF e
<1>6. ASSUME NEW f \in Events
      PROVE  /\ due[e] <= due[f]
             /\ due'[f] = IF due[f] = Never THEN Never ELSE due[f] - due[e]
  <2>1. CASE m_notify_type[f] = "NONE"
    BY <1>1, <1>4, <2>1, DueTimes DEF DueKnown
  <2>2. CASE m_notify_type[f] = "TIMED"
    <3>1. Entry(f, m_timed[f]) \in Live /\ Entry(f, m_timed[f]).notify_time = m_timed[f]
      BY <2>2, DueTimes DEF DueKnown, Entry
    <3>2. due[e] <= m_timed[f]
      BY <1>2, <1>4, <3>1
    <3>3. m_timed'[f] = m_timed[f] - due[e]
      BY <1>2, <1>4, <2>2
    <3> QED BY <1>1, <1>4, <2>2, <3>2, <3>3, DueTimes DEF DueKnown
  <2> QED BY <1>5, <2>1, <2>2, DueTimes DEF DueKnown
<1>7. due' = [f \in Events |-> IF due[f] = Never THEN Never ELSE due[f] - due[e]]
  BY <1>6, DueTimes DEF DueKnown
<1>8. due[e] # Never
  BY <1>4, DueTimes DEF DueKnown
<1>9. ready = {}
  BY <1>1, ReadyView DEF KernelInv, StageInv
<1>10. UNCHANGED <<ready, writers, m_cur_val, m_new_val>>
  BY <1>1, ViewKept, ReadyKept DEF KernelInv
<1>11. stage = "notify" /\ stage' = stage
  BY <1>1 DEF stage
<1> QED BY <1>1, <1>3, <1>5, <1>6, <1>7, <1>8, <1>9, <1>10, <1>11
        DEF scheduler!Advance, scheduler!Never, Never

LEMMA StarveStep ==
  ASSUME KernelInv, KernelInv', Starve
  PROVE  scheduler!Starve
<1>1. /\ phase = "advance" /\ phase' = "over" /\ Live = {}
      /\ UNCHANGED <<queueVars, curr, noteVars, signalVars, m_forced_stop>>
  BY DEF Starve
<1>2. \A e \in Events : due[e] = Never
  BY <1>1, NoneDue, DueTimes DEF DueKnown
<1>3. ready = {}
  BY <1>1, ReadyView DEF KernelInv, StageInv
<1>4. UNCHANGED <<due, ready, writers, m_cur_val, m_new_val>>
  BY <1>1, ViewKept, ReadyKept DEF KernelInv
<1>5. stage = "notify" /\ stage' = "over"
  BY <1>1 DEF stage
<1> QED BY <1>1, <1>2, <1>3, <1>4, <1>5 DEF scheduler!Starve, scheduler!Never, Never

----------------------------------------------------------------------------
(* What the running process calls                                          *)

LEMMA NotifySemantics ==
  ASSUME KernelInv, KernelInv', NEW e \in Events, NEW t \in 0 .. MAX_DELAY, Notify(e, t)
  PROVE  scheduler!Notify(e, t)
<1>1. /\ Running /\ notify(e, t)
      /\ UNCHANGED <<curr, m_forced_stop, phase, queueVars, signalVars>>
  BY DEF Notify, callVars
<1>2. /\ m_notify_type \in [Events -> {"NONE", "DELTA", "TIMED"}]
      /\ m_timed \in [Events -> Int] /\ MAX_DELAY \in Nat /\ Never = MAX_DELAY + 1
  BY DueTimes DEF KernelInv, NoteInv, NoteTypes, DueKnown
<1>3. due[e] \in Int /\ (m_notify_type[e] = "TIMED" => due[e] = m_timed[e] /\ due[e] > 0)
  BY <1>1, <1>2, DueTimes DEF DueKnown, Running
<1>4. \A f \in Events : due'[f] = IF f = e /\ t < due[e] THEN t ELSE due[f]
  <2>1. CASE m_notify_type[e] = "DELTA" \/ (t > 0 /\ ~IsEarlier(e, t))
    <3>1. UNCHANGED noteVars
      BY <1>1, <2>1 DEF notify
    <3>2. ~(t < due[e])
      <4>1. m_notify_type[e] = "DELTA" => due[e] = 0
        BY DueTimes DEF DueKnown
      <4> QED BY <1>3, <2>1, <4>1 DEF IsEarlier
    <3> QED BY <3>1, <3>2, ViewKept
  <2>2. CASE m_notify_type[e] # "DELTA" /\ t = 0
    <3>1. /\ m_notify_type' = [m_notify_type EXCEPT ![e] = "DELTA"]
          /\ m_timed' = [m_timed EXCEPT ![e] = Never]
      BY <1>1, <2>2 DEF notify, add_delta_event
    <3>2. t < due[e]
      BY <1>2, <1>3, <2>2, DueTimes DEF DueKnown
    <3>3. \A f \in Events : f # e => /\ m_notify_type'[f] = m_notify_type[f]
                                     /\ m_timed'[f] = m_timed[f]
      BY <1>2, <3>1
    <3>4. m_notify_type'[e] = "DELTA"
      BY <1>2, <3>1
    <3> QED BY <2>2, <3>2, <3>3, <3>4, DueTimes DEF DueKnown
  <2>3. CASE m_notify_type[e] # "DELTA" /\ t > 0 /\ IsEarlier(e, t)
    <3>1. /\ m_notify_type' = [m_notify_type EXCEPT ![e] = "TIMED"]
          /\ m_timed' = [m_timed EXCEPT ![e] = t]
      BY <1>1, <2>3 DEF notify
    <3>2. t < due[e]
      BY <1>2, <1>3, <2>3, DueTimes DEF DueKnown, IsEarlier
    <3>3. \A f \in Events : f # e => /\ m_notify_type'[f] = m_notify_type[f]
                                     /\ m_timed'[f] = m_timed[f]
      BY <1>2, <3>1
    <3>4. m_notify_type'[e] = "TIMED" /\ m_timed'[e] = t
      BY <1>2, <3>1
    <3> QED BY <2>3, <3>2, <3>3, <3>4, DueTimes DEF DueKnown
  <2> QED BY <2>1, <2>2, <2>3
<1>5. due' = [due EXCEPT ![e] = IF t < @ THEN t ELSE @]
  BY <1>4, DueTimes DEF DueKnown
<1>6. UNCHANGED <<ready, writers, stage, m_cur_val, m_new_val>>
  BY <1>1, ViewKept, ReadyKept DEF KernelInv
<1>7. stage = "evaluate" /\ curr # Nobody
  BY <1>1 DEF Running, stage
<1> QED BY <1>1, <1>5, <1>6, <1>7 DEF scheduler!Notify, scheduler!Acts

(* cancel(), and the immediate notification that begins with it.           *)
LEMMA CancelSemantics ==
  ASSUME KernelInv, KernelInv', NEW e \in Events, NotifyNow(e) \/ Cancel(e)
  PROVE  scheduler!NotifyNow(e) \/ scheduler!Cancel(e)
<1>1. Running /\ cancel(e) /\ UNCHANGED <<curr, m_forced_stop, phase, signalVars>>
  BY DEF NotifyNow, Cancel, notify_now, callVars
<1>2. /\ m_notify_type \in [Events -> {"NONE", "DELTA", "TIMED"}]
      /\ m_timed \in [Events -> Int]
  BY DEF KernelInv, NoteInv, NoteTypes
<1>3. /\ m_timed' = [m_timed EXCEPT ![e] = Never]
      /\ m_notify_type' = [m_notify_type EXCEPT ![e] = "NONE"]
  BY <1>1 DEF cancel
<1>4. \A f \in Events : due'[f] = IF f = e THEN Never ELSE due[f]
  BY <1>2, <1>3, DueTimes DEF DueKnown
<1>5. due' = [due EXCEPT ![e] = Never]
  BY <1>4, DueTimes DEF DueKnown
<1>6. UNCHANGED <<writers, stage, m_cur_val, m_new_val>>
  BY <1>1, ViewKept
<1>7. stage = "evaluate" /\ curr # Nobody
  BY <1>1 DEF Running, stage
<1>8. CASE NotifyNow(e)
  <2>1. Ready' = Ready \union (Range(Static[e]) \ {curr})
    BY <1>1, <1>8, WakeReady DEF NotifyNow, notify_now, KernelInv
  <2>2. ready' = ready \union (Range(Static[e]) \ {curr})
    BY <2>1, ReadyView DEF KernelInv
  <2> QED BY <1>1, <1>5, <1>6, <1>7, <2>2
          DEF scheduler!NotifyNow, scheduler!Acts, scheduler!Never, Never
<1>9. CASE Cancel(e)
  <2>1. ready' = ready
    BY <1>1, <1>9, ReadyKept DEF Cancel, KernelInv
  <2> QED BY <1>1, <1>5, <1>6, <1>7, <2>1
          DEF scheduler!Cancel, scheduler!Acts, scheduler!Never, Never
<1> QED BY <1>8, <1>9

LEMMA WriteSemantics ==
  ASSUME KernelInv, KernelInv', NEW s \in Signals
  PROVE  /\ \A v \in Values : Write(s, v) => scheduler!Write(s, v)
         /\ Fail(s) => scheduler!Fail(s)
<1>1. m_writer_p \in [Signals -> Procs \union {Nobody}]
  BY DEF KernelInv, SignalInv
<1>2. writers[s] = {m_writer_p[s]} \ {Nobody}
  BY DEF writers
<1>3. ASSUME NEW v \in Values, Write(s, v)
      PROVE  scheduler!Write(s, v)
  <2>1. /\ Running /\ may_write(s)
        /\ m_new_val' = [m_new_val EXCEPT ![s] = v]
        /\ m_writer_p' = [m_writer_p EXCEPT ![s] = curr]
        /\ UNCHANGED <<curr, m_forced_stop, phase, queueVars, noteVars, m_cur_val>>
    BY <1>3 DEF Write, write, callVars
  <2>2. curr # Nobody /\ stage = "evaluate"
    BY <2>1 DEF Running, stage
  <2>3. writers' = [writers EXCEPT ![s] = {curr}]
    BY <1>1, <2>1, <2>2 DEF writers
  <2>4. writers[s] \subseteq {curr}
    BY <1>2, <2>1 DEF may_write
  <2>5. UNCHANGED <<due, ready, stage>>
    BY <2>1, ViewKept, ReadyKept DEF KernelInv
  <2> QED BY <2>1, <2>2, <2>3, <2>4, <2>5 DEF scheduler!Write, scheduler!Acts
<1>4. ASSUME Fail(s)
      PROVE  scheduler!Fail(s)
  <2>1. /\ Running /\ ~may_write(s) /\ phase' = "over" /\ curr' = Nobody
        /\ UNCHANGED <<queueVars, noteVars, signalVars, m_forced_stop>>
    BY <1>4 DEF Fail
  <2>2. curr # Nobody /\ stage = "evaluate" /\ stage' = "over"
    BY <2>1 DEF Running, stage
  <2>3. ~(writers[s] \subseteq {curr})
    BY <1>2, <2>1 DEF may_write
  <2>4. UNCHANGED <<due, ready, writers, m_cur_val, m_new_val>>
    BY <2>1, ViewKept, ReadyKept DEF KernelInv
  <2> QED BY <2>1, <2>2, <2>3, <2>4 DEF scheduler!Fail, scheduler!Acts
<1> QED BY <1>3, <1>4

LEMMA PlainSteps ==
  ASSUME KernelInv, KernelInv', Stop \/ Wait \/ Over \/ UNCHANGED kernelVars
  PROVE  [scheduler!Next]_scheduler!vars
<1>1. UNCHANGED <<queueVars, noteVars, signalVars, phase>> /\ curr' \in {curr, Nobody}
  BY DEF Stop, Wait, yields, Over, kernelVars
<1>2. UNCHANGED <<due, ready, writers, m_cur_val, m_new_val, stage>>
  BY <1>1, ViewKept, ReadyKept DEF KernelInv
<1>3. CASE Stop
  <2>1. scheduler!Stop
    BY <1>2, <1>3 DEF Stop, Running, stage, scheduler!Stop, scheduler!Acts
  <2> QED BY <2>1 DEF scheduler!Next
<1>4. CASE Wait
  <2>1. scheduler!Wait
    BY <1>2, <1>4 DEF Wait, yields, Running, stage, scheduler!Wait, scheduler!Acts
  <2> QED BY <2>1 DEF scheduler!Next
<1>5. CASE Over \/ UNCHANGED kernelVars
  <2>1. UNCHANGED <<curr, m_forced_stop>>
    BY <1>5 DEF Over, kernelVars
  <2> QED BY <1>2, <2>1 DEF scheduler!vars
<1> QED BY <1>3, <1>4, <1>5

(***************************************************************************)
(* The kernel implements the scheduling semantics, with any processes,     *)
(* events, signals and delays, and whatever the processes call: the two    *)
(* queues of each kind, the list of delta notifications, the timed queue   *)
(* with its cancelled entries and the list of updates (sc_simcontext.cpp,  *)
(* sc_event.cpp, sc_prim_channel.cpp) lose, repeat and delay nothing.      *)
(***************************************************************************)
THEOREM SchedulerImplemented == Spec => ImplementsScheduler
<1>1. Init => scheduler!Init
  <2> SUFFICES ASSUME Init PROVE scheduler!Init
    OBVIOUS
  <2>1. KernelInv /\ Ready = Initialized
    BY KernelInit
  <2>2. ready = Initialized
    BY <2>1, ReadyView DEF KernelInv
  <2>3. /\ m_notify_type = [e \in Events |-> "NONE"] /\ curr = Nobody
        /\ m_cur_val = InitialValue /\ m_new_val = m_cur_val /\ m_forced_stop = FALSE
        /\ m_writer_p = [s \in Signals |-> Nobody] /\ phase = "evaluate"
    BY DEF Init
  <2>4. due = [e \in Events |-> Never]
    BY <2>3 DEF due
  <2>5. writers = [s \in Signals |-> {}] /\ stage = "evaluate"
    BY <2>3 DEF writers, stage
  <2> QED BY <2>2, <2>3, <2>4, <2>5 DEF scheduler!Init, scheduler!Never, Never
<1>2. KernelInv /\ KernelInv' /\ [Next]_kernelVars => [scheduler!Next]_scheduler!vars
  <2> SUFFICES ASSUME KernelInv, KernelInv', [Next]_kernelVars
               PROVE  [scheduler!Next]_scheduler!vars
    OBVIOUS
  <2>1. CASE BeginPass \/ EndMethods \/ PopMethod \/ PopThread \/ EndPass
    BY <2>1, EvaluateSteps DEF KernelInv
  <2>2. CASE Update
    BY <2>2, UpdateStep
  <2>3. CASE EndUpdate
    BY <2>3, EndUpdateStep DEF KernelInv, scheduler!Next
  <2>4. CASE NotifyDelta \/ \E x \in m_timed_events : Fire(x)
    BY <2>4, NotifySteps
  <2>5. CASE EndNotify \/ EndFire
    BY <2>5, ResumeSteps
  <2>6. CASE Advance \/ Starve
    BY <2>6, AdvanceStep, StarveStep DEF scheduler!Next
  <2>7. ASSUME NEW e \in UserEvents, NotifyNow(e) \/ Cancel(e)
        PROVE  scheduler!Next
    <3>1. e \in Events
      BY DEF UserEvents
    <3> QED BY <2>7, <3>1, CancelSemantics DEF scheduler!Next
  <2>8. ASSUME NEW e \in UserEvents, NEW t \in 0 .. MAX_DELAY, Notify(e, t)
        PROVE  scheduler!Next
    <3>1. e \in Events
      BY DEF UserEvents
    <3> QED BY <2>8, <3>1, NotifySemantics DEF scheduler!Next
  <2>9. ASSUME NEW s \in Signals, Fail(s) \/ \E v \in Values : Write(s, v)
        PROVE  scheduler!Next
    BY <2>9, WriteSemantics DEF scheduler!Next
  <2>10. CASE Stop \/ Wait \/ Over \/ UNCHANGED kernelVars
    BY <2>10, PlainSteps
  <2> QED BY <2>1, <2>2, <2>3, <2>4, <2>5, <2>6, <2>7, <2>8, <2>9, <2>10
          DEF Next, KernelStep, Call
<1> QED BY <1>1, <1>2, KernelInvariant, PTL DEF Spec, ImplementsScheduler, scheduler!Spec
=============================================================================
