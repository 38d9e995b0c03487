----------------------- MODULE DurableSupervisor_proofs -----------------------
(***************************************************************************)
(* Proofs about DurableSupervisor, for every number of processes, sessions *)
(* and requests and every bound: first what holds of the tables with any   *)
(* retention policy, then what the supervisor decides as long as nothing is*)
(* pruned: an answer is durable, a verdict is the one its prefix calls for,*)
(* and the tables that processes share, crash over and retry on behave as  *)
(* one log per session with one final verdict for every event (GuardLog).  *)
(***************************************************************************)
EXTENDS DurableSupervisor, FiniteSetTheorems, TLAPS

-----------------------------------------------------------------------------
(* Type correctness *)

(* MAX(next_sequence, sequence + 1) is one of its arguments and not below   *)
(* either of them.                                                          *)
LEMMA MaxOfTwo ==
  ASSUME NEW a \in Nat, NEW b \in Nat
  PROVE  Max({a, b}) \in Nat /\ Max({a, b}) >= a /\ Max({a, b}) >= b
<1>1. PICK m \in {a, b} : \A y \in {a, b} : m >= y
  OBVIOUS
<1>2. Max({a, b}) \in {a, b} /\ \A y \in {a, b} : Max({a, b}) >= y
  BY <1>1 DEF Max
<1> QED
  BY <1>2

(* A step keeps the next sequence of every session a natural number.        *)
LEMMA AdvanceType ==
  ASSUME next \in [Sessions -> Nat], NEW s \in Sessions, NEW q \in Nat
  PROVE  /\ Advance(s, q) \in [Sessions -> Nat]
         /\ Advance(s, q)[s] >= next[s] /\ Advance(s, q)[s] > q
         /\ \A t \in Sessions \ {s} : Advance(s, q)[t] = next[t]
<1>1. next[s] \in Nat /\ q + 1 \in Nat
  OBVIOUS
<1>2. /\ Max({next[s], q + 1}) \in Nat
      /\ Max({next[s], q + 1}) >= next[s] /\ Max({next[s], q + 1}) >= q + 1
  BY <1>1, MaxOfTwo
<1> QED
  BY <1>2 DEF Advance

(* The row a request becomes is well typed, also when the store numbers it. *)
LEMMA NewEventType ==
  ASSUME TypeOK, NEW r \in Requests
  PROVE  NewEvent(r) \in StoredEvents /\ r.session \in Sessions
<1>1. r.id \in Ids /\ r.session \in Sessions /\ r.sequence \in Nat \cup {None}
  BY RequestsAssumption DEF Ids
<1>2. next[r.session] \in Nat
  BY <1>1 DEF TypeOK
<1> QED
  BY <1>1, <1>2 DEF NewEvent, StoredEvents

(* Retention only removes rows.                                             *)
LEMMA RetentionTypes ==
  ASSUME TypeOK, NEW policy, ApplyRetention(events, policy)
  PROVE  /\ events' \subseteq events /\ evidence' \subseteq evidence
         /\ decisions' \subseteq decisions
         /\ next' \in [Sessions -> Nat] /\ sessions' \subseteq Sessions
<1>1. \A row \in events : row.event.session \in Sessions
  BY DEF TypeOK, StoredEvents
<1> QED
  BY <1>1 DEF ApplyRetention, TypeOK

\* The empty store has its types.
LEMMA InitType == Init => TypeOK
BY BoundsAssumption DEF Init, TypeOK, Working

(* Every step keeps the tables, the locals of every process and the         *)
(* counters within their types.                                             *)
LEMMA NextType == TypeOK /\ [Next]_vars => TypeOK'
<1> SUFFICES ASSUME TypeOK, [Next]_vars PROVE TypeOK'
  OBVIOUS
<1>1. ASSUME NEW p \in Procs, Open(p) PROVE TypeOK'
  <2>1. CASE Due
    BY <1>1, <2>1, RetentionTypes DEF Open, TypeOK, Working, Failed, locals, counters
  <2>2. CASE ~Due
    BY <1>1, <2>2 DEF Open, TypeOK, Working, Failed, tables, locals, counters
  <2> QED BY <2>1, <2>2
<1>2. ASSUME NEW p \in Procs, Lookup(p) PROVE TypeOK'
  BY <1>2 DEF Lookup, TypeOK, RowsOf, Working, Failed, tables, counters
<1>3. ASSUME NEW p \in Procs, Fetch(p) PROVE TypeOK'
  BY <1>3 DEF Fetch, Answer, Leave, TypeOK, Working, Failed, tables, counters
<1>4. ASSUME NEW p \in Procs, Prepare(p) PROVE TypeOK'
  <2>1. CASE Insert(p, request[p])
    <3> DEFINE e == NewEvent(request[p])
    <3> HIDE DEF e
    <3>1. request[p] \in Requests
      BY <1>4 DEF Prepare, TypeOK, Working
    <3>2. e \in StoredEvents /\ request[p].session \in Sessions
      BY <3>1, NewEventType DEF e
    <3>3. next' \in [Sessions -> Nat]
      <4>1. e.sequence \in Nat BY <3>2 DEF StoredEvents
      <4>2. next' = Advance(request[p].session, e.sequence) BY <2>1 DEF Insert, e
      <4> QED BY <4>1, <4>2, <3>2, AdvanceType DEF TypeOK
    <3>4. \A row \in events' : row.event \in StoredEvents /\ row.stored_at \in 0..clock'
      <4>1. events' = events \cup {[event |-> e, stored_at |-> clock]} /\ clock' = clock
        BY <1>4, <2>1 DEF Prepare, Insert, e
      <4> QED BY <4>1, <3>2, BoundsAssumption DEF TypeOK
    <3>5. /\ pc' = [pc EXCEPT ![p] = "load"] /\ event' = [event EXCEPT ![p] = e]
          /\ UNCHANGED <<evidence, decisions, request, result, lastRun, clock, calls, faults>>
          /\ sessions' = sessions \cup {request[p].session}
      BY <1>4, <2>1 DEF Prepare, Insert, e, counters
    <3> QED
      BY <3>1, <3>2, <3>3, <3>4, <3>5 DEF TypeOK, Working, Failed
  <2>2. CASE Refuse(p, request[p])
    BY <1>4, <2>2 DEF Prepare, Refuse, Leave, TypeOK, Working, Failed, tables, counters
  <2>3. CASE Reuse(p, request[p])
    BY <1>4, <2>3 DEF Prepare, Reuse, RowsOf, Leave, TypeOK, Working, Failed, tables, counters
  <2> QED BY <1>4, <2>1, <2>2, <2>3 DEF Prepare
<1>5. ASSUME NEW p \in Procs, Load(p) PROVE TypeOK'
  BY <1>5 DEF Load, TypeOK, Working, Failed, tables, counters
<1>6. ASSUME NEW p \in Procs, Record(p) PROVE TypeOK'
  <2> USE <1>6 DEF Record, Leave, TypeOK, Working, Failed, counters
  <2>1. CASE Lose(p) BY <2>1 DEF Lose, tables
  <2>2. CASE Mismatch(p) BY <2>2 DEF Mismatch, tables
  <2>3. CASE Yield(p) BY <2>3 DEF Yield, Answer, tables
  <2>4. CASE Commit(p) BY <2>4 DEF Commit, StoreResult, Answer, StoredEvents
  <2> QED BY <2>1, <2>2, <2>3, <2>4
<1>7. ASSUME NEW p \in Procs, Close(p) PROVE TypeOK'
  BY <1>7 DEF Close, TypeOK, Working, Failed, tables, locals, counters
<1>8. ASSUME NEW p \in Procs, Crash(p) PROVE TypeOK'
  BY <1>8, BoundsAssumption DEF Crash, Leave, TypeOK, Working, Failed, tables
<1>9. ASSUME NEW p \in Procs, StoreFailure(p) PROVE TypeOK'
  BY <1>9, BoundsAssumption DEF StoreFailure, Leave, TypeOK, Working, Failed, tables
<1>10. ASSUME NEW p \in Procs, NEW r \in Requests, Begin(p, r) PROVE TypeOK'
  BY <1>10, BoundsAssumption DEF Begin, TypeOK, Working, Failed, tables
<1>11. ASSUME NEW policy \in ManualPolicies, Prune(policy) PROVE TypeOK'
  BY <1>11, RetentionTypes DEF Prune, TypeOK, Working, Failed, locals, counters
<1>12. ASSUME Tick PROVE TypeOK'
  BY <1>12, BoundsAssumption DEF Tick, TypeOK, Working, Failed, tables, locals, counters
<1>13. ASSUME UNCHANGED vars PROVE TypeOK'
  BY <1>13 DEF vars, TypeOK, Working, Failed, tables, locals, counters
<1> QED
  BY <1>1, <1>2, <1>3, <1>4, <1>5, <1>6, <1>7, <1>8, <1>9, <1>10, <1>11, <1>12, <1>13
  DEF Next, Step

(* The tables and the processes keep their types in every behaviour.        *)
THEOREM TypeCorrect == Spec => []TypeOK
<1> QED BY InitType, NextType, PTL DEF Spec

-----------------------------------------------------------------------------
(* The tables change in three ways only                                     *)

(* Whatever the processes do, a step either leaves the tables alone, or     *)
(* inserts one new event, or records the first decision on a stored event,  *)
(* or applies a retention policy.                                           *)
LEMMA TablesStep ==
  ASSUME TypeOK, [Next]_vars
  PROVE  \/ UNCHANGED tables
         \/ \E p \in Procs : /\ pc[p] = "prepare" /\ request[p] \in Requests
                             /\ RowsOf(request[p].id) = {} /\ Insert(p, request[p])
         \/ \E p \in Procs : pc[p] = "record" /\ event[p] \in StoredEvents /\ Commit(p)
         \/ \E policy : ApplyRetention(events, policy) /\ (AutoPolicy # None \/ ManualPolicies # {})
<1> USE DEF tables
<1>1. ASSUME NEW p \in Procs, Open(p)
      PROVE  \/ UNCHANGED tables
             \/ ApplyRetention(events, AutoPolicy) /\ AutoPolicy # None
  <2>1. CASE Due
    <3>1. ApplyRetention(events, AutoPolicy) BY <1>1, <2>1 DEF Open
    <3>2. AutoPolicy # None BY <2>1 DEF Due
    <3> QED BY <3>1, <3>2
  <2>2. CASE ~Due BY <1>1, <2>2 DEF Open
  <2> QED BY <2>1, <2>2
<1>2. ASSUME NEW p \in Procs, Prepare(p)
      PROVE  \/ UNCHANGED tables
             \/ /\ pc[p] = "prepare" /\ request[p] \in Requests
                /\ RowsOf(request[p].id) = {} /\ Insert(p, request[p])
  <2>1. pc[p] = "prepare" /\ request[p] \in Requests
    BY <1>2 DEF Prepare, TypeOK, Working
  <2> QED BY <1>2, <2>1 DEF Prepare, Refuse, Reuse
<1>3. ASSUME NEW p \in Procs, Record(p)
      PROVE  \/ UNCHANGED tables
             \/ pc[p] = "record" /\ event[p] \in StoredEvents /\ Commit(p)
  <2>1. pc[p] = "record" /\ event[p] \in StoredEvents
    BY <1>3 DEF Record, TypeOK
  <2> QED BY <1>3, <2>1 DEF Record, Lose, Mismatch, Yield
<1>4. ASSUME NEW p \in Procs,
             Lookup(p) \/ Fetch(p) \/ Load(p) \/ Close(p) \/ Crash(p) \/ StoreFailure(p)
      PROVE  UNCHANGED tables
  BY <1>4 DEF Lookup, Fetch, Load, Close, Crash, StoreFailure
<1>5. ASSUME NEW p \in Procs, NEW r \in Requests, Begin(p, r) PROVE UNCHANGED tables
  BY <1>5 DEF Begin
<1>6. ASSUME NEW policy \in ManualPolicies, Prune(policy)
      PROVE  ApplyRetention(events, policy) /\ ManualPolicies # {}
  BY <1>6 DEF Prune
<1>7. ASSUME Tick \/ UNCHANGED vars PROVE UNCHANGED tables
  BY <1>7 DEF Tick, vars
<1> QED
  BY <1>1, <1>2, <1>3, <1>4, <1>5, <1>6, <1>7 DEF Next, Step

-----------------------------------------------------------------------------
(* Sequence numbers *)

\* It reserves nothing.
LEMMA InitSequences == Init => SequencesReserved
BY DEF Init, SequencesReserved

(* A new event takes a number nobody has, because it is refused when the    *)
(* number is taken; the next number moves past it in the same transaction.  *)
LEMMA NextSequences == TypeOK /\ SequencesReserved /\ [Next]_vars => SequencesReserved'
<1> SUFFICES ASSUME TypeOK, SequencesReserved, [Next]_vars PROVE SequencesReserved'
  OBVIOUS
<1>1. CASE UNCHANGED tables
  BY <1>1 DEF tables, SequencesReserved
<1>2. ASSUME NEW p \in Procs, request[p] \in Requests, RowsOf(request[p].id) = {},
             Insert(p, request[p])
      PROVE  SequencesReserved'
  <2> DEFINE e == NewEvent(request[p])
             new == [event |-> e, stored_at |-> clock]
  <2>1. e \in StoredEvents /\ e.session = request[p].session /\ e.id = request[p].id
    BY <1>2, NewEventType DEF NewEvent
  <2>2. e.sequence \in Nat /\ e.session \in Sessions
    BY <2>1 DEF StoredEvents
  <2>3. events' = events \cup {new} /\ new.event = e
    BY <1>2 DEF Insert
  <2>4. /\ next'[e.session] >= next[e.session] /\ next'[e.session] > e.sequence
        /\ \A t \in Sessions \ {e.session} : next'[t] = next[t]
        /\ next' \in [Sessions -> Nat]
    BY <1>2, <2>1, <2>2, AdvanceType DEF Insert, TypeOK
  <2>5. \A row \in events : row.event.id # e.id
    BY <1>2, <2>1 DEF RowsOf
  <2>6. \A row \in events : ~(row.event.session = e.session /\ row.event.sequence = e.sequence)
    BY <1>2 DEF Insert, Taken
  <2>7. ASSUME NEW row \in events' PROVE row.event.sequence < next'[row.event.session]
    <3>1. CASE row = new
      BY <3>1, <2>3, <2>4, <2>2
    <3>2. CASE row \in events
      <4>1. /\ row.event.session \in Sessions /\ row.event.sequence \in Nat
            /\ row.event.sequence < next[row.event.session]
        BY <3>2 DEF TypeOK, StoredEvents, SequencesReserved
      <4> QED BY <4>1, <2>4, <2>2 DEF TypeOK
    <3> QED BY <3>1, <3>2, <2>3
  <2>8. ASSUME NEW x \in events', NEW y \in events',
               x.event.id = y.event.id \/ (x.event.session = y.event.session
                                           /\ x.event.sequence = y.event.sequence)
        PROVE  x = y
    BY <2>3, <2>5, <2>6, <2>8 DEF SequencesReserved
  <2> QED BY <2>7, <2>8 DEF SequencesReserved
<1>3. ASSUME NEW p \in Procs, Commit(p) PROVE SequencesReserved'
  BY <1>3 DEF Commit, StoreResult, SequencesReserved
<1>4. ASSUME NEW policy, ApplyRetention(events, policy) PROVE SequencesReserved'
  <2>1. events' \subseteq events
    BY <1>4, RetentionTypes
  <2>2. \A row \in events' : next'[row.event.session] = next[row.event.session]
    BY <1>4, <2>1 DEF ApplyRetention, TypeOK, StoredEvents
  <2> QED BY <2>1, <2>2 DEF SequencesReserved
<1> QED
  BY <1>1, <1>2, <1>3, <1>4, TablesStep

(* Numbers are unique in a session and below its next one, for every set of *)
(* processes and requests, with crashes, failures and any retention.        *)
THEOREM SequencesAreReserved == Spec => []SequencesReserved
<1>1. Init => TypeOK /\ SequencesReserved
  BY InitType, InitSequences
<1>2. (TypeOK /\ SequencesReserved) /\ [Next]_vars => (TypeOK /\ SequencesReserved)'
  BY NextType, NextSequences
<1> QED BY <1>1, <1>2, PTL DEF Spec

-----------------------------------------------------------------------------
(* Verdicts, evidence and events go together *)

\* It has no orphans.
LEMMA InitOrphans == Init => NoOrphans
BY DEF Init, NoOrphans

\* No step makes an orphan.
LEMMA NextOrphans == TypeOK /\ NoOrphans /\ [Next]_vars => NoOrphans'
<1> SUFFICES ASSUME TypeOK, NoOrphans, [Next]_vars PROVE NoOrphans'
  OBVIOUS
<1>1. CASE UNCHANGED tables
  BY <1>1 DEF tables, NoOrphans
<1>2. ASSUME NEW p \in Procs, request[p] \in Requests, Insert(p, request[p]) PROVE NoOrphans'
  <2>1. /\ events' = events \cup {[event |-> NewEvent(request[p]), stored_at |-> clock]}
        /\ sessions' = sessions \cup {request[p].session}
        /\ UNCHANGED <<evidence, decisions>>
    BY <1>2 DEF Insert
  <2>2. NewEvent(request[p]).session = request[p].session
    BY DEF NewEvent
  <2> DEFINE new == [event |-> NewEvent(request[p]), stored_at |-> clock]
  <2>3. events \subseteq events' /\ sessions' = {row.event.session : row \in events'}
    <3>1. \A row : row \in events' <=> row \in events \/ row = new
      BY <2>1
    <3>2. sessions = {row.event.session : row \in events} /\ new.event = NewEvent(request[p])
      BY DEF NoOrphans
    <3> QED BY <2>1, <2>2, <3>1, <3>2
  <2>4. {d.id : d \in decisions'} \subseteq {row.event.id : row \in events'}
    BY <2>1, <2>3 DEF NoOrphans
  <2> QED BY <2>1, <2>3, <2>4 DEF NoOrphans
<1>3. ASSUME NEW p \in Procs, Commit(p) PROVE NoOrphans'
  <2>1. /\ decisions' = decisions \cup {[id |-> event[p].id, decision |-> result[p].decision]}
        /\ \/ evidence' = evidence
           \/ evidence' = evidence \cup {[id |-> event[p].id, items |-> result[p].evidence]}
        /\ UNCHANGED <<sessions, events>>
    BY <1>3 DEF Commit, StoreResult
  <2>2. event[p].id \in {row.event.id : row \in events}
    BY <1>3 DEF Commit, RowsOf
  <2>3. \A d \in decisions : d.id # event[p].id
    BY <1>3 DEF Commit, Judged
  <2> DEFINE new == [id |-> event[p].id, decision |-> result[p].decision]
  <2>4. \A d : d \in decisions' <=> d \in decisions \/ d = new
    BY <2>1
  <2>5. {d.id : d \in decisions'} \subseteq {row.event.id : row \in events'}
    BY <2>1, <2>2, <2>4 DEF NoOrphans
  <2>6. \A d, f \in decisions' : d.id = f.id => d = f
    BY <2>3, <2>4 DEF NoOrphans
  <2>7. \A x \in evidence' : x \in evidence \/ x.id = event[p].id
    BY <2>1
  <2>8. \A x \in evidence' : \E d \in decisions' : d.id = x.id
    <3>1. new \in decisions' /\ new.id = event[p].id /\ decisions \subseteq decisions'
      BY <2>4
    <3> QED BY <2>7, <3>1 DEF NoOrphans
  <2>9. sessions' = {row.event.session : row \in events'}
    BY <2>1 DEF NoOrphans
  <2>10. {x.id : x \in evidence'} \subseteq {d.id : d \in decisions'}
    BY <2>8
  <2> HIDE DEF new
  <2> QED BY <2>5, <2>6, <2>9, <2>10 DEF NoOrphans
<1>4. ASSUME NEW policy, ApplyRetention(events, policy) PROVE NoOrphans'
  <2> DEFINE ids == {row.event.id : row \in events'}
  <2>1. /\ evidence' = {x \in evidence : x.id \in ids}
        /\ decisions' = {d \in decisions : d.id \in ids}
        /\ sessions' = {row.event.session : row \in events'}
    BY <1>4 DEF ApplyRetention
  <2>2. {x.id : x \in evidence'} \subseteq {d.id : d \in decisions'}
    <3>1. ASSUME NEW x \in evidence' PROVE \E d \in decisions' : d.id = x.id
      <4>1. x \in evidence /\ x.id \in ids BY <2>1
      <4>2. PICK d \in decisions : d.id = x.id BY <4>1 DEF NoOrphans
      <4> QED BY <2>1, <4>1, <4>2
    <3> QED BY <3>1
  <2>3. \A d, f \in decisions' : d.id = f.id => d = f
    BY <2>1 DEF NoOrphans
  <2>4. {d.id : d \in decisions'} \subseteq ids
    BY <2>1
  <2> QED BY <2>1, <2>2, <2>3, <2>4 DEF NoOrphans
<1> QED
  BY <1>1, <1>2, <1>3, <1>4, TablesStep

(* No verdict without its event, no evidence without its verdict, one       *)
(* verdict for an event, and no session row without an event.               *)
THEOREM TablesHaveNoOrphans == Spec => []NoOrphans
<1>1. Init => TypeOK /\ NoOrphans
  BY InitType, InitOrphans
<1>2. (TypeOK /\ NoOrphans) /\ [Next]_vars => (TypeOK /\ NoOrphans)'
  BY NextType, NextOrphans
<1> QED BY <1>1, <1>2, PTL DEF Spec

(* A decision, once recorded, stays as it is while its event is stored.     *)
THEOREM DecisionsAreFinal == Spec => DecisionFinal
<1>1. ASSUME TypeOK, [Next]_vars
      PROVE  \A d \in decisions : d \in decisions' \/ \A row \in events' : row.event.id # d.id
  <2>1. CASE UNCHANGED tables
    BY <2>1 DEF tables
  <2>2. ASSUME NEW p \in Procs, Insert(p, request[p])
        PROVE  decisions' = decisions
    BY <2>2 DEF Insert
  <2>3. ASSUME NEW p \in Procs, Commit(p) PROVE decisions \subseteq decisions'
    BY <2>3 DEF Commit, StoreResult
  <2>4. ASSUME NEW policy, ApplyRetention(events, policy), NEW d \in decisions
        PROVE  d \in decisions' \/ \A row \in events' : row.event.id # d.id
    BY <2>4 DEF ApplyRetention
  <2> QED BY <1>1, <2>1, <2>2, <2>3, <2>4, TablesStep
<1> QED BY <1>1, TypeCorrect, PTL DEF Spec, DecisionFinal

-----------------------------------------------------------------------------
(* Without retention                                                       *)

NoRetention == AutoPolicy = None /\ ManualPolicies = {}
StoreNumbers == \A r \in Requests : r.sequence = None

-----------------------------------------------------------------------------
(* What a process holds between two store calls is still true of the tables *)

HeldEvent(p) ==
  pc[p] \in {"fetch", "load", "record"} => \E row \in events : row.event = event[p]

HeldDecision(p) ==
  \A id : pc[p] = "fetch" /\ event[p].id = id =>
    Judged(id) /\ result[p].decision = DecisionOf(id)

Held == \A p \in Procs : HeldEvent(p) /\ HeldDecision(p)

TablesInv == TypeOK /\ SequencesReserved /\ NoOrphans

\* The invariant of the tables holds at first.
LEMMA InitTables == Init => TablesInv
BY InitType, InitSequences, InitOrphans DEF TablesInv

\* The invariant of the tables is inductive.
LEMMA NextTables == TablesInv /\ [Next]_vars => TablesInv'
BY NextType, NextSequences, NextOrphans DEF TablesInv

(* Without retention a step inserts an event, commits a verdict or leaves   *)
(* the tables alone.                                                        *)
LEMMA GrowingStep ==
  ASSUME NoRetention, TypeOK, [Next]_vars
  PROVE  \/ UNCHANGED tables
         \/ \E p \in Procs : /\ pc[p] = "prepare" /\ request[p] \in Requests
                             /\ RowsOf(request[p].id) = {} /\ Insert(p, request[p])
         \/ \E p \in Procs : pc[p] = "record" /\ event[p] \in StoredEvents /\ Commit(p)
BY TablesStep DEF NoRetention

(* A decision that is there is read the same after every growing step.      *)
LEMMA DecisionStable ==
  ASSUME NoRetention, TablesInv, [Next]_vars, NEW id, Judged(id)
  PROVE  Judged(id)' /\ DecisionOf(id)' = DecisionOf(id)
<1>1. CASE UNCHANGED tables
  BY <1>1 DEF tables, Judged, DecisionOf
<1>2. ASSUME NEW p \in Procs, Insert(p, request[p])
      PROVE  Judged(id)' /\ DecisionOf(id)' = DecisionOf(id)
  BY <1>2 DEF Insert, Judged, DecisionOf
<1>3. ASSUME NEW p \in Procs, Commit(p)
      PROVE  Judged(id)' /\ DecisionOf(id)' = DecisionOf(id)
  <2> DEFINE new == [id |-> event[p].id, decision |-> result[p].decision]
  <2>1. decisions' = decisions \cup {new} /\ new.id = event[p].id
    BY <1>3 DEF Commit, StoreResult
  <2>2. \A d \in decisions : d.id # event[p].id
    BY <1>3 DEF Commit, Judged
  <2>3. PICK d \in decisions : d.id = id
    BY DEF Judged
  <2>4. \A x, y \in decisions : x.id = y.id => x = y
    BY DEF TablesInv, NoOrphans
  <2>5. \A x \in decisions' : x.id = id <=> x = d
    BY <2>1, <2>2, <2>3, <2>4
  <2>6. (CHOOSE x \in decisions' : x.id = id) = d /\ (CHOOSE x \in decisions : x.id = id) = d
    BY <2>1, <2>3, <2>4, <2>5
  <2> QED BY <2>1, <2>3, <2>6 DEF Judged, DecisionOf
<1> QED BY <1>1, <1>2, <1>3, GrowingStep DEF TablesInv

(* So is its evidence.                                                      *)
LEMMA EvidenceStable ==
  ASSUME NoRetention, TablesInv, [Next]_vars, NEW id, Judged(id)
  PROVE  EvidenceOf(id)' = EvidenceOf(id)
<1> SUFFICES {x \in evidence' : x.id = id} = {x \in evidence : x.id = id}
  BY DEF EvidenceOf
<1>1. CASE UNCHANGED tables
  BY <1>1 DEF tables
<1>2. ASSUME NEW p \in Procs, Insert(p, request[p])
      PROVE  {x \in evidence' : x.id = id} = {x \in evidence : x.id = id}
  BY <1>2 DEF Insert
<1>3. ASSUME NEW p \in Procs, Commit(p)
      PROVE  {x \in evidence' : x.id = id} = {x \in evidence : x.id = id}
  <2>1. event[p].id # id
    BY <1>3 DEF Commit, Judged
  <2>2. \/ evidence' = evidence
        \/ evidence' = evidence \cup {[id |-> event[p].id, items |-> result[p].evidence]}
    BY <1>3 DEF Commit, StoreResult
  <2> QED BY <2>1, <2>2
<1> QED BY <1>1, <1>2, <1>3, GrowingStep DEF TablesInv

\* Without retention no event goes away.
LEMMA EventsStable ==
  ASSUME NoRetention, TypeOK, [Next]_vars
  PROVE  events \subseteq events'
BY GrowingStep DEF tables, Insert, Commit, StoreResult

(* Right after a commit the verdict is read back as it was computed: there  *)
(* was no evidence of an event without a decision.                          *)
LEMMA CommitReadsBack ==
  ASSUME TablesInv, NEW p \in Procs, Commit(p), NEW id, id = event[p].id
  PROVE  /\ Judged(id)' /\ DecisionOf(id)' = result[p].decision
         /\ EvidenceOf(id)' = result[p].evidence
<1> DEFINE new == [id |-> id, decision |-> result[p].decision]
           item == [id |-> id, items |-> result[p].evidence]
<1>1. decisions' = decisions \cup {new} /\ new.id = id /\ new.decision = result[p].decision
  BY DEF Commit, StoreResult
<1>2. \A d \in decisions : d.id # id
  BY DEF Commit, Judged
<1>3. \A x \in evidence : x.id # id
  BY <1>2 DEF TablesInv, NoOrphans
<1>4. Judged(id)' /\ DecisionOf(id)' = result[p].decision
  <2>1. \A d \in decisions' : d.id = id <=> d = new
    BY <1>1, <1>2
  <2>2. (CHOOSE d \in decisions' : d.id = id) = new
    BY <1>1, <2>1
  <2> QED BY <1>1, <2>2 DEF DecisionOf, Judged
<1>5. EvidenceOf(id)' = result[p].evidence
  <2> DEFINE rows == {x \in evidence' : x.id = id}
  <2>1. CASE result[p].evidence = <<>>
    <3>1. evidence' = evidence BY <2>1 DEF Commit, StoreResult
    <3>2. rows = {} BY <3>1, <1>3
    <3> QED BY <3>2, <2>1 DEF EvidenceOf, ItemsIn
  <2>2. CASE result[p].evidence # <<>>
    <3>1. evidence' = evidence \cup {item} BY <2>2 DEF Commit, StoreResult
    <3>2. rows = {item} BY <3>1, <1>3
    <3>3. ItemsIn({item}) = result[p].evidence
      <4>1. (CHOOSE x \in {item} : TRUE) = item OBVIOUS
      <4> QED BY <4>1 DEF ItemsIn
    <3> QED BY <3>2, <3>3 DEF EvidenceOf
  <2> QED BY <2>1, <2>2
<1> QED BY <1>4, <1>5

-----------------------------------------------------------------------------
(* Answers *)

\* At first no process holds anything.
LEMMA InitHeld == Init => Held
BY DEF Init, Held, HeldEvent, HeldDecision

(* What another process does to the tables does not invalidate what a       *)
(* waiting process holds.                                                   *)
LEMMA HeldWaiting ==
  ASSUME NoRetention, TablesInv, Held, [Next]_vars, NEW q \in Procs,
         pc'[q] = pc[q], event'[q] = event[q], result'[q] = result[q]
  PROVE  HeldEvent(q)' /\ HeldDecision(q)'
<1>1. HeldEvent(q)'
  BY EventsStable DEF Held, HeldEvent, TablesInv
<1>2. ASSUME NEW id, pc'[q] = "fetch", event'[q].id = id
      PROVE  Judged(id)' /\ result'[q].decision = DecisionOf(id)'
  <2>1. Judged(id) /\ result[q].decision = DecisionOf(id)
    BY <1>2 DEF Held, HeldDecision
  <2> QED BY <2>1, DecisionStable
<1> QED BY <1>1, <1>2 DEF HeldDecision

(* What a process takes along from its own step is true when it takes it.   *)
LEMMA HeldMoving ==
  ASSUME NoRetention, TablesInv, Held, NEW p \in Procs,
         Open(p) \/ Step(p) \/ Close(p) \/ Crash(p) \/ StoreFailure(p)
  PROVE  HeldEvent(p)' /\ HeldDecision(p)'
<1> USE DEF TablesInv, TypeOK
<1>1. CASE Open(p) \/ Fetch(p) \/ Record(p) \/ Close(p) \/ Crash(p) \/ StoreFailure(p)
  <2>1. pc'[p] \notin {"fetch", "load", "record"}
    BY <1>1 DEF Open, Fetch, Record, Lose, Mismatch, Yield, Commit, Answer, Close, Crash,
                StoreFailure, Leave, Failed
  <2> QED BY <2>1 DEF HeldEvent, HeldDecision
<1>2. CASE Lookup(p)
  <2>1. CASE RowsOf(request[p].id) # {} /\ Judged(request[p].id)
    <3> DEFINE id == request[p].id
               row == CHOOSE x \in RowsOf(id) : TRUE
    <3>1. row \in events /\ row.event.id = id
      BY <2>1 DEF RowsOf
    <3>2. /\ pc'[p] = "fetch" /\ event'[p] = row.event
          /\ result'[p].decision = DecisionOf(id) /\ UNCHANGED tables
      BY <1>2, <2>1 DEF Lookup
    <3>3. events' = events /\ \A i : Judged(i)' = Judged(i) /\ DecisionOf(i)' = DecisionOf(i)
      BY <3>2 DEF tables, Judged, DecisionOf
    <3> QED BY <2>1, <3>1, <3>2, <3>3 DEF HeldEvent, HeldDecision
  <2>2. CASE ~(RowsOf(request[p].id) # {} /\ Judged(request[p].id))
    BY <1>2, <2>2 DEF Lookup, HeldEvent, HeldDecision
  <2> QED BY <2>1, <2>2
<1>3. CASE Prepare(p)
  <2>1. pc'[p] # "fetch" /\ pc'[p] # "record"
    BY <1>3 DEF Prepare, Insert, Refuse, Reuse, Leave
  <2>2. CASE Insert(p, request[p])
    <3>1. event'[p] = NewEvent(request[p])
      BY <2>2 DEF Insert
    <3>2. \E row \in events' : row.event = NewEvent(request[p])
      <4> DEFINE new == [event |-> NewEvent(request[p]), stored_at |-> clock]
      <4>1. new \in events' BY <2>2 DEF Insert
      <4>2. new.event = NewEvent(request[p]) OBVIOUS
      <4> HIDE DEF new
      <4> QED BY <4>1, <4>2
    <3> QED BY <2>1, <3>1, <3>2 DEF HeldEvent, HeldDecision
  <2>3. CASE Refuse(p, request[p])
    BY <2>1, <2>3 DEF Refuse, Leave, HeldEvent, HeldDecision
  <2>4. CASE Reuse(p, request[p])
    BY <2>1, <2>4 DEF Reuse, RowsOf, Leave, tables, HeldEvent, HeldDecision
  <2> QED BY <1>3, <2>2, <2>3, <2>4 DEF Prepare
<1>4. CASE Load(p)
  BY <1>4 DEF Load, tables, Held, HeldEvent, HeldDecision
<1> QED BY <1>1, <1>2, <1>3, <1>4 DEF Step

\* What a process holds of the tables stays true of them.
LEMMA NextHeld ==
  ASSUME NoRetention, TablesInv, Held, [Next]_vars
  PROVE  Held'
<1> SUFFICES ASSUME NEW q \in Procs PROVE HeldEvent(q)' /\ HeldDecision(q)'
  BY DEF Held
<1>1. \/ Open(q) \/ Step(q) \/ Close(q) \/ Crash(q) \/ StoreFailure(q)
      \/ \E r \in Requests : Begin(q, r)
      \/ pc'[q] = pc[q] /\ event'[q] = event[q] /\ result'[q] = result[q]
  <2> USE DEF TablesInv, TypeOK
  <2>1. ASSUME NEW p \in Procs, p # q,
               Open(p) \/ Close(p) \/ Crash(p) \/ StoreFailure(p)
        PROVE  pc'[q] = pc[q] /\ event'[q] = event[q] /\ result'[q] = result[q]
    BY <2>1 DEF Open, Close, Crash, StoreFailure, Leave, locals
  <2>2. ASSUME NEW p \in Procs, p # q, Step(p)
        PROVE  pc'[q] = pc[q] /\ event'[q] = event[q] /\ result'[q] = result[q]
    BY <2>2 DEF Step, Lookup, Fetch, Prepare, Insert, Refuse, Reuse, Load, Record, Lose,
                Mismatch, Yield, Commit, Answer, Leave
  <2>3. ASSUME NEW p \in Procs, p # q, NEW r \in Requests, Begin(p, r)
        PROVE  pc'[q] = pc[q] /\ event'[q] = event[q] /\ result'[q] = result[q]
    BY <2>3 DEF Begin
  <2>4. ASSUME \/ \E policy \in ManualPolicies : Prune(policy)
               \/ Tick \/ UNCHANGED vars
        PROVE  pc'[q] = pc[q] /\ event'[q] = event[q] /\ result'[q] = result[q]
    BY <2>4 DEF Prune, Tick, vars, locals
  <2> QED BY <2>1, <2>2, <2>3, <2>4 DEF Next
<1>2. ASSUME NEW r \in Requests, Begin(q, r) PROVE HeldEvent(q)' /\ HeldDecision(q)'
  BY <1>2 DEF Begin, HeldEvent, HeldDecision, TablesInv, TypeOK
<1> QED BY <1>1, <1>2, HeldWaiting, HeldMoving

(* The answers already given stay in the tables, and a new one is read from *)
(* them or was just committed.                                              *)
LEMMA NextDurable ==
  ASSUME NoRetention, TablesInv, Held, AnswersAreDurable, [Next]_vars
  PROVE  AnswersAreDurable'
<1> SUFFICES ASSUME NEW a \in answers'
             PROVE  /\ \E row \in events' : row.event = a.event
                    /\ Judged(a.event.id)' /\ DecisionOf(a.event.id)' = a.decision
                    /\ EvidenceOf(a.event.id)' = a.evidence
  BY DEF AnswersAreDurable
<1>1. CASE a \in answers
  <2>1. /\ \E row \in events : row.event = a.event
        /\ Judged(a.event.id) /\ DecisionOf(a.event.id) = a.decision
        /\ EvidenceOf(a.event.id) = a.evidence
    BY <1>1 DEF AnswersAreDurable
  <2> QED BY <2>1, EventsStable, DecisionStable, EvidenceStable DEF TablesInv
<1>2. ASSUME NEW p \in Procs, Fetch(p), a \notin answers
      PROVE  /\ \E row \in events' : row.event = a.event
             /\ Judged(a.event.id)' /\ DecisionOf(a.event.id)' = a.decision
             /\ EvidenceOf(a.event.id)' = a.evidence
  <2>1. a.event = event[p] /\ a.decision = result[p].decision /\ a.evidence = EvidenceOf(event[p].id)
    BY <1>2 DEF Fetch, Answer
  <2>2. Judged(a.event.id) /\ DecisionOf(a.event.id) = a.decision
        /\ \E row \in events : row.event = a.event
    BY <1>2, <2>1 DEF Fetch, Held, HeldEvent, HeldDecision
  <2> QED BY <2>1, <2>2, EventsStable, DecisionStable, EvidenceStable DEF TablesInv
<1>3. ASSUME NEW p \in Procs, Yield(p), a \notin answers
      PROVE  /\ \E row \in events' : row.event = a.event
             /\ Judged(a.event.id)' /\ DecisionOf(a.event.id)' = a.decision
             /\ EvidenceOf(a.event.id)' = a.evidence
  <2>1. /\ a.event = event[p] /\ Judged(a.event.id)
        /\ a.decision = DecisionOf(a.event.id) /\ a.evidence = EvidenceOf(a.event.id)
        /\ \E row \in events : row.event = a.event
    BY <1>3 DEF Yield, Answer, RowsOf
  <2> QED BY <2>1, EventsStable, DecisionStable, EvidenceStable DEF TablesInv
<1>4. ASSUME NEW p \in Procs, Commit(p), a \notin answers
      PROVE  /\ \E row \in events' : row.event = a.event
             /\ Judged(a.event.id)' /\ DecisionOf(a.event.id)' = a.decision
             /\ EvidenceOf(a.event.id)' = a.evidence
  <2>1. /\ a.event = event[p] /\ a.decision = result[p].decision
        /\ a.evidence = result[p].evidence
        /\ \E row \in events' : row.event = a.event
    BY <1>4 DEF Commit, StoreResult, Answer, RowsOf
  <2> QED BY <1>4, <2>1, CommitReadsBack
<1>5. answers' = answers \/ \E p \in Procs : Fetch(p) \/ Yield(p) \/ Commit(p)
  <2>1. ASSUME NEW p \in Procs, Open(p) \/ Close(p) \/ Crash(p) \/ StoreFailure(p)
        PROVE  answers' = answers
    BY <2>1 DEF Open, Close, Crash, StoreFailure
  <2>2. ASSUME NEW p \in Procs, Step(p)
        PROVE  answers' = answers \/ Fetch(p) \/ Yield(p) \/ Commit(p)
    BY <2>2 DEF Step, Lookup, Prepare, Load, Record, Lose, Mismatch
  <2>3. ASSUME NEW p \in Procs, NEW r \in Requests, Begin(p, r) PROVE answers' = answers
    BY <2>3 DEF Begin
  <2>4. ASSUME \/ \E policy \in ManualPolicies : Prune(policy)
               \/ Tick \/ UNCHANGED vars
        PROVE  answers' = answers
    BY <2>4 DEF Prune, Tick, vars
  <2> QED BY <2>1, <2>2, <2>3, <2>4 DEF Next
<1> QED BY <1>1, <1>2, <1>3, <1>4, <1>5

(* Without retention, what any process was ever told is in the tables, with *)
(* its evidence, for good: across crashes, failures and concurrent calls.   *)
THEOREM DurableAnswers ==
  ASSUME NoRetention PROVE Spec => []AnswersAreDurable
<1> DEFINE Inv == TablesInv /\ Held /\ AnswersAreDurable
<1>1. Init => Inv
  BY InitTables, InitHeld DEF Init, AnswersAreDurable
<1>2. Inv /\ [Next]_vars => Inv'
  BY NoRetention, NextTables, NextHeld, NextDurable
<1> QED BY <1>1, <1>2, PTL DEF Spec

-----------------------------------------------------------------------------
(* One event, one answer *)

\* A process goes on with the event whose id it was asked about, and answers so.
SameId ==
  /\ \A p \in Procs : pc[p] \in {"fetch", "load", "record"} => event[p].id = request[p].id
  /\ \A a \in answers : a.event.id = a.request.id

\* A process stays with the event of its request.
LEMMA NextSameId == TypeOK /\ SameId /\ [Next]_vars => SameId'
<1> SUFFICES ASSUME TypeOK, SameId, [Next]_vars PROVE SameId'
  OBVIOUS
<1> USE DEF SameId, TypeOK
<1>1. ASSUME NEW p \in Procs, Open(p) \/ Close(p) \/ Crash(p) \/ StoreFailure(p) PROVE SameId'
  BY <1>1 DEF Open, Close, Crash, StoreFailure, Leave, Failed, locals
<1>2. ASSUME NEW p \in Procs, Lookup(p) PROVE SameId'
  BY <1>2 DEF Lookup, RowsOf
<1>3. ASSUME NEW p \in Procs, Fetch(p) PROVE SameId'
  BY <1>3 DEF Fetch, Answer, Leave
<1>4. ASSUME NEW p \in Procs, Prepare(p) PROVE SameId'
  <2>1. CASE Insert(p, request[p])
    <3>1. /\ event' = [event EXCEPT ![p] = NewEvent(request[p])]
          /\ NewEvent(request[p]).id = request[p].id
          /\ request' = request /\ answers' = answers
          /\ \A q \in Procs \ {p} : pc'[q] = pc[q]
      BY <1>4, <2>1 DEF Prepare, Insert, NewEvent
    <3> QED BY <3>1
  <2>2. CASE Refuse(p, request[p])
    BY <1>4, <2>2 DEF Prepare, Refuse, Leave
  <2>3. CASE Reuse(p, request[p])
    BY <1>4, <2>3 DEF Prepare, Reuse, RowsOf, Leave
  <2> QED BY <1>4, <2>1, <2>2, <2>3 DEF Prepare
<1>5. ASSUME NEW p \in Procs, Load(p) PROVE SameId'
  BY <1>5 DEF Load
<1>6. ASSUME NEW p \in Procs, Record(p) PROVE SameId'
  BY <1>6 DEF Record, Lose, Mismatch, Yield, Commit, Answer, Leave
<1>7. ASSUME NEW p \in Procs, NEW r \in Requests, Begin(p, r) PROVE SameId'
  BY <1>7 DEF Begin, Failed
<1>8. ASSUME \/ \E policy \in ManualPolicies : Prune(policy)
             \/ Tick \/ UNCHANGED vars
      PROVE  SameId'
  BY <1>8 DEF Prune, Tick, vars, locals
<1> QED BY <1>1, <1>2, <1>3, <1>4, <1>5, <1>6, <1>7, <1>8 DEF Next, Step

(* Without retention, all callers of one event id are told the same event,  *)
(* evidence and decision, whatever histories their processes loaded.        *)
THEOREM OneAnswer ==
  ASSUME NoRetention PROVE Spec => []AnswersAgree
<1>1. SequencesReserved /\ SameId /\ AnswersAreDurable => AnswersAgree
  <2> SUFFICES ASSUME SequencesReserved, SameId, AnswersAreDurable,
                      NEW a \in answers, NEW b \in answers, a.request.id = b.request.id
               PROVE  a.event = b.event /\ a.evidence = b.evidence /\ a.decision = b.decision
    BY DEF AnswersAgree
  <2>1. PICK x \in events : x.event = a.event BY DEF AnswersAreDurable
  <2>2. PICK y \in events : y.event = b.event BY DEF AnswersAreDurable
  <2>3. x.event.id = y.event.id BY <2>1, <2>2 DEF SameId
  <2>4. a.event = b.event BY <2>1, <2>2, <2>3 DEF SequencesReserved
  <2> QED BY <2>4 DEF AnswersAreDurable
<1>2. Init => SameId
  BY DEF Init, SameId
<1>3. (TypeOK /\ SameId) /\ [Next]_vars => (TypeOK /\ SameId)'
  BY NextType, NextSameId
<1>4. Spec => []SameId
  BY <1>2, <1>3, InitType, PTL DEF Spec
<1>5. Spec => []AnswersAreDurable
  BY NoRetention, DurableAnswers
<1> QED BY <1>1, <1>4, <1>5, SequencesAreReserved, PTL

-----------------------------------------------------------------------------
(* Conflicts *)

\* Requests with one id are retries of one event; redaction may tell them apart.
OneContent ==
  \A r, q \in Requests : r.id = q.id => r.session = q.session /\ Redact(r.body) = Redact(q.body)

FromRequests ==
  \A row \in events : \E r \in Requests :
    row.event.id = r.id /\ row.event.session = r.session /\ row.event.body = Redact(r.body)

\* What is stored was asked for.
LEMMA NextFromRequests ==
  ASSUME NoRetention, TypeOK, FromRequests, [Next]_vars
  PROVE  FromRequests'
<1>1. ASSUME NEW p \in Procs, request[p] \in Requests, Insert(p, request[p])
      PROVE  FromRequests'
  <2> DEFINE e == NewEvent(request[p])
  <2>1. events' = events \cup {[event |-> e, stored_at |-> clock]}
    BY <1>1 DEF Insert
  <2>2. e.id = request[p].id /\ e.session = request[p].session /\ e.body = Redact(request[p].body)
    BY DEF NewEvent
  <2> HIDE DEF e
  <2> QED BY <1>1, <2>1, <2>2 DEF FromRequests
<1> QED BY <1>1, GrowingStep DEF FromRequests, tables, Commit, StoreResult

(* A retry finds its own event, a new event gets a number nobody has, and   *)
(* the event a process works on stays what it was.                          *)
LEMMA NextConflicts ==
  ASSUME StoreNumbers, OneContent, TablesInv, Held, FromRequests, NoSpuriousConflict,
         [Next]_vars
  PROVE  NoSpuriousConflict'
<1> USE DEF TablesInv, TypeOK, NoSpuriousConflict, Failed
<1>1. ASSUME NEW p \in Procs, Open(p) \/ Close(p) \/ Crash(p) \/ StoreFailure(p)
      PROVE  NoSpuriousConflict'
  BY <1>1 DEF Open, Close, Crash, StoreFailure, Leave
<1>2. ASSUME NEW p \in Procs, Lookup(p) \/ Fetch(p) \/ Load(p) PROVE NoSpuriousConflict'
  BY <1>2 DEF Lookup, Fetch, Load, Answer, Leave
<1>3. ASSUME NEW p \in Procs, Prepare(p) PROVE NoSpuriousConflict'
  <2> DEFINE r == request[p]
  <2>1. r \in Requests
    BY <1>3 DEF Prepare, Working
  <2>2. CASE Insert(p, r)
    BY <2>2 DEF Insert
  <2>3. ~Refuse(p, r)
    <3>1. NewEvent(r).session = r.session /\ NewEvent(r).sequence = next[r.session]
      BY <2>1 DEF NewEvent, StoreNumbers
    <3>2. next[r.session] \in Nat
      BY <2>1, RequestsAssumption
    <3>3. \A row \in events : row.event.session = r.session => row.event.sequence # next[r.session]
      BY <3>2 DEF SequencesReserved, StoredEvents
    <3> QED BY <3>1, <3>3 DEF Refuse, Taken
  <2>4. CASE Reuse(p, r)
    <3>1. \A row \in RowsOf(r.id) : SameEvent(row.event, r)
      BY <2>1 DEF RowsOf, FromRequests, OneContent, StoreNumbers, SameEvent
    <3> QED BY <2>4, <3>1 DEF Reuse
  <2> QED BY <1>3, <2>2, <2>3, <2>4 DEF Prepare
<1>4. ASSUME NEW p \in Procs, Record(p) PROVE NoSpuriousConflict'
  <2>1. PICK held \in events : held.event = event[p]
    BY <1>4 DEF Record, Held, HeldEvent
  <2>2. ~Lose(p)
    BY <2>1 DEF Lose, RowsOf
  <2>3. ~Mismatch(p)
    BY <2>1 DEF Mismatch, RowsOf, SequencesReserved
  <2> QED BY <1>4, <2>2, <2>3 DEF Record, Yield, Commit, Answer, Leave
<1>5. ASSUME NEW p \in Procs, NEW r \in Requests, Begin(p, r) PROVE NoSpuriousConflict'
  BY <1>5 DEF Begin
<1>6. ASSUME \/ \E policy \in ManualPolicies : Prune(policy)
             \/ Tick \/ UNCHANGED vars
      PROVE  NoSpuriousConflict'
  BY <1>6 DEF Prune, Tick, vars
<1> QED BY <1>1, <1>2, <1>3, <1>4, <1>5, <1>6 DEF Next, Step

(* Without retention and supplied sequences, when an id stands for one      *)
(* event, no call ever ends in a conflict, for any number of processes,     *)
(* retries and crashes.                                                     *)
THEOREM ConflictsAreReal ==
  ASSUME NoRetention, StoreNumbers, OneContent PROVE Spec => []NoSpuriousConflict
<1> DEFINE Inv == TablesInv /\ Held /\ FromRequests /\ NoSpuriousConflict
<1>1. Init => Inv
  BY InitTables, InitHeld DEF Init, FromRequests, NoSpuriousConflict, Failed
<1>2. Inv /\ [Next]_vars => Inv'
  BY NoRetention, StoreNumbers, OneContent, NextTables, NextHeld, NextFromRequests, NextConflicts
     DEF TablesInv
<1> QED BY <1>1, <1>2, PTL DEF Spec

\* Answers are given to requests.
Asked == \A a \in answers : a.request \in Requests

LEMMA NextAsked == TypeOK /\ Asked /\ [Next]_vars => Asked'
<1> SUFFICES ASSUME TypeOK, Asked, [Next]_vars PROVE Asked'
  OBVIOUS
<1>1. ASSUME NEW p \in Procs, Fetch(p) \/ Record(p) PROVE Asked'
  <2>1. request[p] \in Requests
    BY <1>1 DEF TypeOK, Working, Fetch, Record
  <2> QED BY <1>1, <2>1 DEF Asked, Fetch, Record, Lose, Mismatch, Yield, Commit, Answer
<1>2. CASE UNCHANGED answers
  BY <1>2 DEF Asked
<1> QED
  BY <1>1, <1>2 DEF Next, Step, vars, counters, Open, Close, Crash, StoreFailure, Lookup,
     Prepare, Load, Begin, Prune, Tick

\* Requests with one id agree in the sequence they supply.
OneNumber == \A r, q \in Requests : r.id = q.id => r.sequence = q.sequence

Fits == \A row \in events : \E r \in Requests : row.event.id = r.id /\ SameEvent(row.event, r)

\* A stored event fits the request it was made of.
LEMMA NextFits ==
  ASSUME NoRetention, TypeOK, Fits, [Next]_vars
  PROVE  Fits'
<1>1. ASSUME NEW p \in Procs, request[p] \in Requests, Insert(p, request[p])
      PROVE  Fits'
  <2> DEFINE e == NewEvent(request[p])
  <2>1. events' = events \cup {[event |-> e, stored_at |-> clock]}
    BY <1>1 DEF Insert
  <2>2. e.id = request[p].id /\ SameEvent(e, request[p])
    BY DEF NewEvent, SameEvent
  <2> HIDE DEF e
  <2> QED BY <1>1, <2>1, <2>2 DEF Fits
<1> QED BY <1>1, GrowingStep DEF Fits, tables, Commit, StoreResult

AnswersFitRequests == \A a \in answers : SameEvent(a.event, a.request)

(* When all requests with one id ask about one event, every answer is about *)
(* the session, content and sequence its caller submitted, whether its own  *)
(* process stored the event, found it stored by another or only read the    *)
(* verdict (supervisor.py:74, sqlite.py:213-250).                           *)
THEOREM AnswersFit ==
  ASSUME NoRetention, OneContent, OneNumber PROVE Spec => []AnswersFitRequests
<1> DEFINE Inv == TypeOK /\ SameId /\ Asked /\ Fits
<1>1. Init => Inv
  BY InitType DEF Init, SameId, Asked, Fits
<1>2. Inv /\ [Next]_vars => Inv'
  BY NoRetention, NextType, NextSameId, NextAsked, NextFits
<1>3. SameId /\ Asked /\ Fits /\ AnswersAreDurable => AnswersFitRequests
  <2> SUFFICES ASSUME SameId, Asked, Fits, AnswersAreDurable, NEW a \in answers
               PROVE  SameEvent(a.event, a.request)
    BY DEF AnswersFitRequests
  <2>1. PICK row \in events : row.event = a.event
    BY DEF AnswersAreDurable
  <2>2. PICK r \in Requests : a.event.id = r.id /\ SameEvent(a.event, r)
    BY <2>1 DEF Fits
  <2>3. a.request \in Requests /\ a.request.id = r.id
    BY <2>2 DEF Asked, SameId
  <2>4. /\ a.request.session = r.session /\ Redact(a.request.body) = Redact(r.body)
        /\ a.request.sequence = r.sequence
    BY <2>3, OneContent, OneNumber DEF OneContent, OneNumber
  <2> QED BY <2>2, <2>4 DEF SameEvent
<1>4. Spec => []AnswersAreDurable
  BY NoRetention, DurableAnswers
<1> QED BY <1>1, <1>2, <1>3, <1>4, PTL DEF Spec

-----------------------------------------------------------------------------
(* Verdicts *)

(* The verdict on an event depends on the events below it and on nothing    *)
(* else in the tables.                                                      *)
LEMMA JudgeBelow ==
  ASSUME NEW rows, NEW more, NEW e,
         Below(rows, e.session, e.sequence) = Below(more, e.session, e.sequence)
  PROVE  Judge(rows, e) = Judge(more, e)
<1>1. LoadHistory(rows, e) = LoadHistory(more, e)
  BY DEF LoadHistory
<1> QED BY <1>1 DEF Judge

(* An event the store numbers itself lands above every event of its         *)
(* session, so it changes no window that any of them is judged by.          *)
LEMMA InsertAbove ==
  ASSUME StoreNumbers, TablesInv, NEW p \in Procs, request[p] \in Requests,
         Insert(p, request[p]), NEW row \in events
  PROVE  Judge(events', row.event) = Judge(events, row.event)
<1> DEFINE e == row.event
           new == [event |-> NewEvent(request[p]), stored_at |-> clock]
<1>1. /\ events' = events \cup {new}
      /\ new.event.session = request[p].session
      /\ new.event.sequence = next[request[p].session]
  BY DEF Insert, NewEvent, StoreNumbers
<1>2. e.sequence < next[e.session] /\ e.sequence \in Nat /\ next[e.session] \in Nat
  BY DEF TablesInv, TypeOK, StoredEvents, SequencesReserved
<1>3. ~(new.event.session = e.session /\ new.event.sequence < e.sequence)
  BY <1>1, <1>2
<1>4. {q \in events' : q.event.session = e.session /\ q.event.sequence < e.sequence}
        = {q \in events : q.event.session = e.session /\ q.event.sequence < e.sequence}
  <2> HIDE DEF new
  <2> QED BY <1>1, <1>3
<1>5. Below(events', e.session, e.sequence) = Below(events, e.session, e.sequence)
  BY <1>4 DEF Below
<1> QED BY <1>5, JudgeBelow

Computed == \A p \in Procs : pc[p] = "record" => result[p] = Judge(events, event[p])

(* A verdict in hand and the verdicts on record are those of the prefix,    *)
(* and committing one adds one of that kind.                                *)
LEMMA NextVerdicts ==
  ASSUME NoRetention, StoreNumbers, TablesInv, Held, Computed, VerdictsFollowPrefix,
         [Next]_vars
  PROVE  Computed' /\ VerdictsFollowPrefix'
<1> USE DEF TablesInv
<1>1. \A row \in events : Judge(events', row.event) = Judge(events, row.event)
  <2> SUFFICES ASSUME NEW row \in events
               PROVE  Judge(events', row.event) = Judge(events, row.event)
    OBVIOUS
  <2>1. CASE events' = events
    BY <2>1
  <2>2. ASSUME NEW p \in Procs, request[p] \in Requests, Insert(p, request[p])
        PROVE  Judge(events', row.event) = Judge(events, row.event)
    BY <2>2, InsertAbove
  <2> QED BY <2>1, <2>2, GrowingStep DEF tables, Commit, StoreResult
<1>2. Computed'
  <2> SUFFICES ASSUME NEW q \in Procs, pc'[q] = "record"
               PROVE  result'[q] = Judge(events', event'[q])
    BY DEF Computed
  <2>1. CASE pc[q] = "record" /\ event'[q] = event[q] /\ result'[q] = result[q]
    BY <1>1, <2>1 DEF Computed, Held, HeldEvent
  <2>2. CASE Load(q)
    BY <2>2 DEF Load, tables, TypeOK, Judge
  <2>3. \/ Load(q)
        \/ pc[q] = "record" /\ event'[q] = event[q] /\ result'[q] = result[q]
    <3> USE DEF TypeOK
    <3>1. ASSUME NEW p \in Procs, Open(p) \/ Close(p) \/ Crash(p) \/ StoreFailure(p)
          PROVE  pc[q] = "record" /\ event'[q] = event[q] /\ result'[q] = result[q]
      BY <3>1 DEF Open, Close, Crash, StoreFailure, Leave, locals
    <3>2. ASSUME NEW p \in Procs, Lookup(p) \/ Fetch(p) \/ Prepare(p) \/ Record(p)
          PROVE  pc[q] = "record" /\ event'[q] = event[q] /\ result'[q] = result[q]
      BY <3>2 DEF Lookup, Fetch, Prepare, Insert, Refuse, Reuse, Record, Lose,
                  Mismatch, Yield, Commit, Answer, Leave
    <3>3. ASSUME NEW p \in Procs, Load(p), p # q
          PROVE  pc[q] = "record" /\ event'[q] = event[q] /\ result'[q] = result[q]
      BY <3>3 DEF Load
    <3>4. ASSUME NEW p \in Procs, NEW r \in Requests, Begin(p, r)
          PROVE  pc[q] = "record" /\ event'[q] = event[q] /\ result'[q] = result[q]
      BY <3>4 DEF Begin
    <3>5. ASSUME \/ \E policy \in ManualPolicies : Prune(policy)
                 \/ Tick \/ UNCHANGED vars
          PROVE  pc[q] = "record" /\ event'[q] = event[q] /\ result'[q] = result[q]
      BY <3>5 DEF Prune, Tick, vars, locals
    <3> QED BY <3>1, <3>2, <3>3, <3>4, <3>5 DEF Next, Step
  <2> QED BY <2>1, <2>2, <2>3
<1>3. VerdictsFollowPrefix'
  <2> SUFFICES ASSUME NEW d \in decisions', NEW row \in events', row.event.id = d.id
               PROVE  Judge(events', row.event)
                        = [evidence |-> EvidenceOf(d.id)', decision |-> d.decision]
    BY DEF VerdictsFollowPrefix, RowsOf
  <2>1. CASE d \in decisions
    <3>1. PICK old \in events : old.event.id = d.id
      BY <2>1 DEF NoOrphans
    <3>2. old = row
      BY <3>1, EventsStable, NextTables DEF SequencesReserved
    <3>3. Judge(events, row.event) = [evidence |-> EvidenceOf(d.id), decision |-> d.decision]
      BY <2>1, <3>1, <3>2 DEF VerdictsFollowPrefix, RowsOf
    <3>4. EvidenceOf(d.id)' = EvidenceOf(d.id)
      BY <2>1, EvidenceStable DEF Judged
    <3> QED BY <1>1, <3>1, <3>2, <3>3, <3>4
  <2>2. CASE d \notin decisions
    <3>1. PICK p \in Procs : pc[p] = "record" /\ Commit(p)
      BY <2>2, GrowingStep DEF tables, Insert
    <3>2. d.id = event[p].id /\ d.decision = result[p].decision /\ events' = events
      BY <2>2, <3>1 DEF Commit, StoreResult
    <3>3. row.event = event[p]
      BY <3>1, <3>2 DEF Commit, RowsOf, SequencesReserved
    <3>4. EvidenceOf(d.id)' = result[p].evidence
      BY <3>1, <3>2, CommitReadsBack
    <3>5. result[p] = Judge(events, event[p])
      BY <3>1 DEF Computed
    <3>6. result[p] = [evidence |-> result[p].evidence, decision |-> result[p].decision]
      BY <3>5 DEF Judge, Verdict
    <3> QED BY <3>2, <3>3, <3>4, <3>5, <3>6
  <2> QED BY <2>1, <2>2
<1> QED BY <1>2, <1>3

(* Without retention, and when the store gives out the sequences, every     *)
(* verdict on record is the one the events before it in its session call    *)
(* for: no interleaving, crash or retry makes a detector see a later event  *)
(* or miss an earlier one inside the window.                                *)
THEOREM VerdictsArePrefixVerdicts ==
  ASSUME NoRetention, StoreNumbers PROVE Spec => []VerdictsFollowPrefix
<1> DEFINE Inv == TablesInv /\ Held /\ Computed /\ VerdictsFollowPrefix
<1>1. Init => Inv
  BY InitTables, InitHeld DEF Init, Computed, VerdictsFollowPrefix
<1>2. Inv /\ [Next]_vars => Inv'
  BY NoRetention, StoreNumbers, NextTables, NextHeld, NextVerdicts
<1> QED BY <1>1, <1>2, PTL DEF Spec

-----------------------------------------------------------------------------
(* The detectors read the newest entries of the log                         *)

(* Where the window begins, and what the next number is.                    *)
LEMMA GreaterOf ==
  ASSUME NEW x \in Int, NEW y \in Int
  PROVE  Max({x, y}) = IF y > x THEN y ELSE x
<1>1. PICK m \in {x, y} : \A z \in {x, y} : m >= z
  OBVIOUS
<1>2. Max({x, y}) \in {x, y} /\ \A z \in {x, y} : Max({x, y}) >= z
  BY <1>1 DEF Max
<1> QED BY <1>2

\* Entries a to b of a log carry the sequences their positions call for.
InOrder(L, a, b) == \A k \in a..b : L[k].sequence = k - 1

(* Events numbered one by one are as many as their numbers.                 *)
LEMMA CountEntries ==
  ASSUME NEW L, NEW a \in Int, NEW b \in Int, NEW T,
         InOrder(L, a, b),
         \A t : t \in T <=> \E k \in a..b : t = L[k]
  PROVE  IsFiniteSet(T) /\ Cardinality(T) = IF a > b THEN 0 ELSE b - a + 1
<1> DEFINE f == [k \in a..b |-> L[k]]
<1>1. IsFiniteSet(a..b) /\ Cardinality(a..b) = IF a > b THEN 0 ELSE b - a + 1
  BY FS_Interval
<1>2. f \in Bijection(a..b, T)
  <2>1. f \in [a..b -> T]
    OBVIOUS
  <2>2. ASSUME NEW j \in a..b, NEW k \in a..b, f[j] = f[k] PROVE j = k
    <3>1. L[j].sequence = j - 1 /\ L[k].sequence = k - 1 /\ L[j] = L[k]
      BY <2>2 DEF InOrder
    <3> QED BY <3>1
  <2>3. ASSUME NEW t \in T PROVE \E k \in a..b : f[k] = t
    OBVIOUS
  <2> HIDE DEF f
  <2> QED BY <2>1, <2>2, <2>3 DEF Bijection, Injection, IsInjective, Surjection
<1>3. ExistsBijection(a..b, T)
  BY <1>2 DEF ExistsBijection
<1> QED BY <1>1, <1>3, FS_Bijection

(* Of the first q events of a log, the newest are the last ones, and        *)
(* OldestFirst puts them into the order of the log.                         *)
LEMMA NewestEntries ==
  ASSUME NEW L, NEW q \in Nat, NEW older,
         InOrder(L, 1, q),
         \A t : t \in older <=> \E k \in 1..q : t = L[k],
         NEW limit \in Nat \ {0},
         NEW lo \in 1..(q + 1), \A k \in 1..q : q - k < limit <=> k \in lo..q
  PROVE  OldestFirst(Newest(older, limit)) = SubSeq(L, lo, q)
<1> DEFINE n == q - lo + 1
           es == Newest(older, limit)
           Above(x) == {f \in older : f.sequence > x}
           Under(x) == {f \in es : f.sequence < x}
<1>1. /\ lo \in 1..(q + 1) /\ n \in Nat
      /\ \A k \in 1..q : q - k < limit <=> k \in lo..q
  OBVIOUS
<1>2. ASSUME NEW k \in 1..q PROVE Cardinality(Above(L[k].sequence)) = q - k
  <2>1. \A f : f \in Above(L[k].sequence) <=> \E j \in (k + 1)..q : f = L[j]
    BY DEF InOrder
  <2>2. (k + 1 \in Int /\ q \in Int) /\ InOrder(L, k + 1, q)
    BY DEF InOrder
  <2> HIDE DEF Above
  <2>3. Cardinality(Above(L[k].sequence)) = IF k + 1 > q THEN 0 ELSE q - (k + 1) + 1
    BY <2>1, <2>2, CountEntries
  <2> QED BY <2>3
<1>3. \A e : e \in es <=> \E k \in lo..q : e = L[k]
  <2>1. \A e : e \in es <=> e \in older /\ Cardinality(Above(e.sequence)) < limit
    BY DEF Newest
  <2> HIDE DEF es, Above
  <2> QED BY <1>1, <1>2, <2>1
<1>4. Cardinality(es) = n
  <2>1. (lo \in Int /\ q \in Int) /\ InOrder(L, lo, q)
    BY <1>1 DEF InOrder
  <2>2. Cardinality(es) = IF lo > q THEN 0 ELSE q - lo + 1
    <3> HIDE DEF es
    <3> QED BY <1>3, <2>1, CountEntries
  <2> QED BY <1>1, <2>2
<1>5. ASSUME NEW k \in lo..q PROVE Cardinality(Under(L[k].sequence)) = k - lo
  <2>1. \A f : f \in Under(L[k].sequence) <=> \E j \in lo..(k - 1) : f = L[j]
    <3> HIDE DEF es
    <3> QED BY <1>1, <1>3 DEF InOrder
  <2>2. (lo \in Int /\ k - 1 \in Int) /\ InOrder(L, lo, k - 1)
    BY <1>1 DEF InOrder
  <2> HIDE DEF Under
  <2>3. Cardinality(Under(L[k].sequence)) = IF lo > k - 1 THEN 0 ELSE k - 1 - lo + 1
    BY <2>1, <2>2, CountEntries
  <2> QED BY <1>1, <2>3
<1>6. ASSUME NEW i \in 1..n
      PROVE  (CHOOSE e \in es : Cardinality(Under(e.sequence)) = i - 1) = L[lo + i - 1]
  <2>1. lo + i - 1 \in lo..q
    BY <1>1
  <2>2. ASSUME NEW e \in es
        PROVE  Cardinality(Under(e.sequence)) = i - 1 <=> e = L[lo + i - 1]
    <3>1. PICK k \in lo..q : e = L[k]
      BY <1>3
    <3>2. L[k].sequence = k - 1 /\ L[lo + i - 1].sequence = lo + i - 2
      BY <1>1, <2>1 DEF InOrder
    <3> HIDE DEF es, n, Under
    <3> QED BY <1>1, <1>5, <2>1, <3>1, <3>2
  <2>3. L[lo + i - 1] \in es
    BY <1>3, <2>1
  <2> HIDE DEF es, n, Under
  <2> QED BY <2>2, <2>3
<1>7. OldestFirst(es) = [i \in 1..n |-> L[lo + i - 1]]
  <2>1. OldestFirst(es)
          = [i \in 1..n |-> CHOOSE e \in es : Cardinality(Under(e.sequence)) = i - 1]
    BY <1>4 DEF OldestFirst
  <2> HIDE DEF es, n, Under
  <2> QED BY <1>6, <2>1
<1>8. SubSeq(L, lo, q) = [i \in 1..n |-> L[lo + i - 1]]
  BY <1>1
<1> QED BY <1>1, <1>7, <1>8

-----------------------------------------------------------------------------
(* GuardLog's copy of the detectors and of the policy is the same one       *)

(* Both copies find the same evidence, detector by detector.                *)
LEMMA SameFindings ==
  ASSUME NEW e, NEW h
  PROVE  Log!Detect(e, h) = Detect(e, h)
<1> USE DEF Evidence, Log!Evidence, PreTypes, Log!PreTypes, ResultTypes, Log!ResultTypes,
            StopTypes, Log!StopTypes, WriteTools, Log!WriteTools, Max, Log!Max, Min, Log!Min
<1>1. Log!ConstraintDetector(e) = ConstraintDetector(e) /\ Log!ScopeDetector(e) = ScopeDetector(e)
  BY DEF ConstraintDetector, Log!ConstraintDetector, ScopeDetector, Log!ScopeDetector
<1>2. ASSUME NEW x PROVE Log!Fingerprint(x) = Fingerprint(x)
  BY DEF Fingerprint, Log!Fingerprint
<1>3. ASSUME NEW s PROVE Log!LoopDetector(e, s) = LoopDetector(e, s)
  <2>0. ASSUME NEW S PROVE Log!Cardinality(S) = Cardinality(S)
    BY Zenon DEF Cardinality, Log!Cardinality
  <2>1. Log!FailureRun(e, s) = FailureRun(e, s)
    BY <2>0, Zenon DEF FailureRun, Log!FailureRun, ToolResults,
                       Log!ToolResults, Fingerprint, Log!Fingerprint
  <2>2. Log!Calls(s) = Calls(s)
    BY Zenon DEF Calls, Log!Calls
  <2>3. Log!RepeatRun(e, s) = RepeatRun(e, s)
    BY <2>0, <2>2, Zenon DEF RepeatRun, Log!RepeatRun, Fingerprint,
                             Log!Fingerprint
  <2>4. Log!Oscillates(e, s) = Oscillates(e, s)
    <3>1. ASSUME NEW i PROVE Log!CallsSince(s, i) = CallsSince(s, i)
      BY <2>0, <2>2, Zenon DEF CallsSince, Log!CallsSince
    <3>2. Log!Cardinality(Log!Calls(s)) = Cardinality(Calls(s))
      BY <2>0, <2>2
    <3> QED BY <1>2, <2>2, <3>1, <3>2 DEF Oscillates, Log!Oscillates
  <2> QED
    BY <2>1, <2>3, <2>4 DEF LoopDetector, Log!LoopDetector, LoopEvidence, Log!LoopEvidence
<1>4. ASSUME NEW s PROVE Log!ValidationState(s) = ValidationState(s)
  <2>1. Log!LatestWrite(s) = LatestWrite(s)
    BY Zenon DEF LatestWrite, Log!LatestWrite, IsWrite, Log!IsWrite
  <2>2. ASSUME NEW k PROVE Log!ValidationsAfter(s, k) = ValidationsAfter(s, k)
    BY Zenon DEF ValidationsAfter, Log!ValidationsAfter, IsValidation, Log!IsValidation
  <2> QED BY <2>1, <2>2 DEF ValidationState, Log!ValidationState
<1>5. ASSUME NEW s
      PROVE  /\ Log!ValidationDetector(e, s) = ValidationDetector(e, s)
             /\ Log!StateDetector(e, s) = StateDetector(e, s)
  BY <1>4 DEF ValidationDetector, Log!ValidationDetector, StateDetector, Log!StateDetector
<1>6. Log!DetectionHistory(e, h) = DetectionHistory(e, h)
  BY Zenon DEF DetectionHistory, Log!DetectionHistory
<1> QED BY <1>1, <1>3, <1>5, <1>6, Zenon DEF Detect, Log!Detect, DetectIn, Log!DetectIn

(* Both copies decide the same from it.                                     *)
LEMMA SameDecision ==
  ASSUME NEW e, NEW f
  PROVE  Log!Decide(e, f) = Decide(e, f)
<1>1. Log!Primary(f) = Primary(f)
  BY Zenon DEF Min, Log!Min, Primary, Log!Primary, Weaker, Log!Weaker, Rank, Log!Rank
<1>2. ASSUME NEW x PROVE Log!Action(e, x) = Action(e, x)
  BY DEF Action, Log!Action, PreTypes, Log!PreTypes, StopTypes, Log!StopTypes
<1> QED BY <1>1, <1>2 DEF Decide, Log!Decide, Max, Log!Max

-----------------------------------------------------------------------------
(* The tables as a log                                                      *)

\* A session's numbers are all in use, from 0 to the one before next.
Numbered ==
  \A s \in Sessions : \A i \in 1..next[s] :
    \E row \in events : row.event.session = s /\ row.event.sequence = i - 1

\* One row for every number below nx[s], in every session.
Complete(rows, nx) ==
  /\ nx \in [Sessions -> Nat]
  /\ \A row \in rows : /\ row.event.session \in Sessions
                       /\ row.event.sequence \in 0..(nx[row.event.session] - 1)
  /\ \A x, y \in rows :
       x.event.session = y.event.session /\ x.event.sequence = y.event.sequence => x = y
  /\ \A s \in Sessions : \A i \in 1..nx[s] :
       \E row \in rows : row.event.session = s /\ row.event.sequence = i - 1

LogOf(rows, nx) ==
  [s \in Sessions |-> [i \in 1..nx[s] |->
     (CHOOSE row \in rows : row.event.session = s /\ row.event.sequence = i - 1).event]]

\* The numbered rows of a session are its log.
LEMMA TablesComplete ==
  TablesInv /\ Numbered => Complete(events, next) /\ LogOfTables = LogOf(events, next)
<1> SUFFICES ASSUME TablesInv, Numbered
             PROVE  Complete(events, next) /\ LogOfTables = LogOf(events, next)
  OBVIOUS
<1>1. LogOfTables = LogOf(events, next)
  BY DEF LogOfTables, LogOf
<1>2. \A row \in events : /\ row.event.session \in Sessions
                          /\ row.event.sequence \in 0..(next[row.event.session] - 1)
  BY DEF TablesInv, TypeOK, StoredEvents, SequencesReserved
<1>3. next \in [Sessions -> Nat]
  BY DEF TablesInv, TypeOK
<1> QED BY <1>1, <1>2, <1>3 DEF Complete, Numbered, TablesInv, SequencesReserved

(* The log of a session is as long as the next number says.                 *)
LEMMA LogLength ==
  ASSUME NEW rows, NEW nx, Complete(rows, nx), NEW s \in Sessions
  PROVE  nx[s] \in Nat /\ DOMAIN LogOf(rows, nx)[s] = 1..nx[s]
BY DEF LogOf, Complete

(* The log holds every stored event at its place and nothing else.          *)
LEMMA LogRead ==
  ASSUME NEW rows, NEW nx, Complete(rows, nx)
  PROVE  /\ \A s \in Sessions : /\ nx[s] \in Nat /\ DOMAIN LogOf(rows, nx)[s] = 1..nx[s]
                                /\ LogOf(rows, nx)[s] = [i \in 1..nx[s] |-> LogOf(rows, nx)[s][i]]
         /\ \A row \in rows :
              /\ row.event.session \in Sessions
              /\ row.event.sequence + 1 \in 1..nx[row.event.session]
              /\ LogOf(rows, nx)[row.event.session][row.event.sequence + 1] = row.event
         /\ \A s \in Sessions : \A i \in 1..nx[s] :
              \E row \in rows : /\ row.event.session = s /\ row.event.sequence = i - 1
                                /\ row.event = LogOf(rows, nx)[s][i]
<1> DEFINE At(s, i) == CHOOSE row \in rows : row.event.session = s /\ row.event.sequence = i - 1
<1>1. ASSUME NEW s \in Sessions
      PROVE  nx[s] \in Nat /\ LogOf(rows, nx)[s] = [i \in 1..nx[s] |-> At(s, i).event]
  BY DEF LogOf, Complete
<1>2. ASSUME NEW s \in Sessions, NEW i \in 1..nx[s]
      PROVE  /\ At(s, i) \in rows
             /\ At(s, i).event.session = s /\ At(s, i).event.sequence = i - 1
  BY DEF Complete
<1>3. ASSUME NEW row \in rows
      PROVE  /\ row.event.session \in Sessions
             /\ row.event.sequence + 1 \in 1..nx[row.event.session]
             /\ At(row.event.session, row.event.sequence + 1) = row
  <2> DEFINE s == row.event.session
             i == row.event.sequence + 1
  <2>1. s \in Sessions /\ i \in 1..nx[s] /\ i - 1 = row.event.sequence
    BY <1>1 DEF Complete
  <2> QED BY <1>2, <2>1 DEF Complete
<1> HIDE DEF At
<1>4. ASSUME NEW s \in Sessions
      PROVE  /\ DOMAIN LogOf(rows, nx)[s] = 1..nx[s]
             /\ \A i \in 1..nx[s] : LogOf(rows, nx)[s][i] = At(s, i).event
  BY <1>1
<1> QED BY <1>1, <1>2, <1>3, <1>4

(* An accepted event is appended to the log of its session.                 *)
LEMMA LogGrows ==
  ASSUME StoreNumbers, TablesInv, Numbered, TablesInv', Numbered',
         NEW p \in Procs, request[p] \in Requests, Insert(p, request[p])
  PROVE  LogOfTables' = [LogOfTables EXCEPT ![request[p].session] =
                           Append(@, NewEvent(request[p]))]
<1> DEFINE r == request[p]
           s0 == r.session
           e == NewEvent(r)
           L == LogOf(events, next)
           M == LogOf(events', next')
<1>1. Complete(events, next) /\ LogOfTables = L
  BY TablesComplete
<1>2. Complete(events', next') /\ LogOfTables' = M
  <2>1. LogOfTables' = M
    BY DEF LogOfTables, LogOf
  <2>2. \A row \in events' : /\ row.event.session \in Sessions
                             /\ row.event.sequence \in 0..(next'[row.event.session] - 1)
    BY DEF TablesInv, TypeOK, StoredEvents, SequencesReserved
  <2>3. next' \in [Sessions -> Nat]
    BY DEF TablesInv, TypeOK
  <2> QED BY <2>1, <2>2, <2>3 DEF Complete, Numbered, TablesInv, SequencesReserved
<1>3. /\ s0 \in Sessions /\ e.session = s0 /\ e.sequence = next[s0] /\ next[s0] \in Nat
      /\ next' = [next EXCEPT ![s0] = next[s0] + 1]
  <2>1. s0 \in Sessions /\ e.session = s0 /\ e.sequence = next[s0] /\ next[s0] \in Nat
    BY RequestsAssumption DEF NewEvent, StoreNumbers, TablesInv, TypeOK
  <2>2. ASSUME NEW n \in Nat PROVE Max({n, n + 1}) = n + 1
    BY n \in Int, n + 1 \in Int, GreaterOf
  <2> QED BY <2>1, <2>2 DEF Insert, Advance
<1>4. \A row \in events : row \in events'
  BY DEF Insert
<1>5. PICK new \in events' : new.event = e
  <2> DEFINE row == [event |-> e, stored_at |-> clock]
  <2>1. row \in events' /\ row.event = e
    BY DEF Insert
  <2> QED BY <2>1
<1> HIDE DEF e, L, M
<1>6. ASSUME NEW s \in Sessions, NEW i \in 1..next[s]
      PROVE  i \in 1..next'[s] /\ M[s][i] = L[s][i]
  <2>1. PICK row \in events : /\ row.event.session = s /\ row.event.sequence = i - 1
                              /\ row.event = L[s][i]
    BY <1>1, LogRead DEF L
  <2>2. row \in events' /\ row.event.sequence + 1 = i
    BY <1>4, <2>1
  <2> QED BY <1>2, <2>1, <2>2, LogRead DEF M
<1>7. M[s0][next[s0] + 1] = e
  <2>1. M[new.event.session][new.event.sequence + 1] = new.event
    BY <1>2, LogRead DEF M
  <2> QED BY <1>3, <1>5, <2>1
<1>8. ASSUME NEW s \in Sessions
      PROVE  M[s] = IF s = s0 THEN Append(L[s0], e) ELSE L[s]
  <2>1. /\ L[s] = [i \in 1..next[s] |-> L[s][i]] /\ M[s] = [i \in 1..next'[s] |-> M[s][i]]
        /\ next[s] \in Nat /\ DOMAIN L[s] = 1..next[s]
    BY <1>1, <1>2, LogRead DEF L, M
  <2>2. CASE s = s0
    <3>1. next'[s0] = next[s0] + 1
      BY <1>3, <2>1, <2>2 DEF TablesInv, TypeOK
    <3>4. Len(L[s0]) = next[s0]
      BY <2>1, <2>2
    <3>2. Append(L[s0], e) = [i \in 1..(next[s0] + 1) |-> IF i = next[s0] + 1 THEN e ELSE L[s0][i]]
      BY <2>1, <2>2, <3>4
    <3>3. \A i \in 1..(next[s0] + 1) : M[s0][i] = IF i = next[s0] + 1 THEN e ELSE L[s0][i]
      BY <1>3, <1>6, <1>7
    <3> QED BY <2>1, <2>2, <3>1, <3>2, <3>3
  <2>3. CASE s # s0
    <3>1. next'[s] = next[s]
      BY <1>3, <2>3 DEF TablesInv, TypeOK
    <3> QED BY <1>6, <2>1, <2>3, <3>1
  <2> QED BY <2>2, <2>3
<1>9. /\ L = [s \in Sessions |-> L[s]] /\ M = [s \in Sessions |-> M[s]]
  BY DEF L, M, LogOf
<1> QED BY <1>1, <1>2, <1>3, <1>8, <1>9 DEF e

(* A history loaded for an event is the stretch of log before it.           *)
LEMMA LoadedWindow ==
  ASSUME TablesInv, Numbered, NEW e, \E row \in events : row.event = e
  PROVE  LoadHistory(events, e)
           = SubSeq(LogOfTables[e.session], Max({1, e.sequence + 1 - HistoryLimit}), e.sequence)
<1> DEFINE s == e.session
           q == e.sequence
           L == LogOfTables[s]
           older == Below(events, s, q)
<1>1. /\ s \in Sessions /\ q \in Nat /\ q + 1 \in 1..next[s] /\ L[q + 1] = e
      /\ next[s] \in Nat
  BY TablesComplete, LogRead DEF TablesInv, TypeOK, StoredEvents
<1>2. \A i \in 1..next[s] : \E x \in events :
        x.event.session = s /\ x.event.sequence = i - 1 /\ x.event = L[i]
  BY <1>1, TablesComplete, LogRead
<1>3. InOrder(L, 1, q)
  BY <1>1, <1>2 DEF InOrder
<1>4. \A t : t \in older <=> \E k \in 1..q : t = L[k]
  <2> SUFFICES ASSUME NEW t PROVE t \in older <=> \E k \in 1..q : t = L[k]
    OBVIOUS
  <2>1. ASSUME t \in older PROVE \E k \in 1..q : t = L[k]
    <3>1. PICK x \in events : x.event = t /\ x.event.session = s /\ x.event.sequence < q
      BY <2>1 DEF Below
    <3>2. x.event.sequence + 1 \in 1..next[s] /\ L[x.event.sequence + 1] = t
      BY <3>1, TablesComplete, LogRead
    <3>3. x.event.sequence \in Nat
      BY DEF TablesInv, TypeOK, StoredEvents
    <3>4. x.event.sequence + 1 \in 1..q
      <4> HIDE DEF q
      <4> QED BY <1>1, <3>1, <3>3
    <3> QED BY <3>2, <3>4
  <2>2. ASSUME NEW k \in 1..q, t = L[k] PROVE t \in older
    <3>1. PICK x \in events :
            x.event.session = s /\ x.event.sequence = k - 1 /\ x.event = L[k]
      BY <1>1, <1>2
    <3> QED BY <1>1, <2>2, <3>1 DEF Below
  <2> QED BY <2>1, <2>2
<1>5. LoadHistory(events, e) = OldestFirst(Newest(older, HistoryLimit))
  BY DEF LoadHistory
<1> HIDE DEF L, older, q, s
<1>6. PICK n \in Nat, limit \in Nat \ {0} : n = q /\ limit = HistoryLimit
  BY <1>1, GuardAssumption
<1>7. PICK lo \in 1..(n + 1) : /\ \A k \in 1..n : n - k < limit <=> k \in lo..n
                              /\ lo = Max({1, n + 1 - limit})
  <2>1. Max({1, n + 1 - limit}) = IF n + 1 - limit > 1 THEN n + 1 - limit ELSE 1
    BY GreaterOf
  <2> QED BY <2>1
<1>8. OldestFirst(Newest(older, limit)) = SubSeq(L, lo, n)
  <2>1. InOrder(L, 1, n) /\ \A t : t \in older <=> \E k \in 1..n : t = L[k]
    BY <1>3, <1>4, <1>6
  <2>2. \A k \in 1..n : n - k < limit <=> k \in lo..n
    BY <1>7
  <2> QED BY <2>1, <2>2, NewestEntries
<1> QED BY <1>5, <1>6, <1>7, <1>8 DEF L, s, q

(* What an event is judged by is the stretch of log before it, so its       *)
(* verdict is the one GuardLog gives it.                                    *)
LEMMA JudgedByWindow ==
  ASSUME TablesInv, Numbered, NEW row \in events
  PROVE  Log!Verdict(row.event.session, row.event.sequence + 1)
           = [id |-> row.event.id, evidence |-> Judge(events, row.event).evidence,
              decision |-> Judge(events, row.event).decision]
<1> DEFINE e == row.event
           s == e.session
           q == e.sequence
           L == LogOfTables[s]
<1>1. s \in Sessions /\ q \in Nat /\ q + 1 \in 1..next[s] /\ L[q + 1] = e
  BY TablesComplete, LogRead DEF TablesInv, TypeOK, StoredEvents
<1>5. LoadHistory(events, e) = Log!Window(s, q + 1)
  <2>1. PICK m \in Nat : m = q + 1
    BY <1>1
  <2>2. Log!Window(s, m) = SubSeq(L, Log!Max({1, m - HistoryLimit}), m - 1)
    BY DEF Log!Window
  <2>3. ASSUME NEW S PROVE Log!Max(S) = Max(S)
    BY DEF Log!Max, Max
  <2>4. m - HistoryLimit = q + 1 - HistoryLimit /\ m - 1 = q
    BY <1>1, <2>1, GuardAssumption
  <2> QED BY <2>1, <2>2, <2>3, <2>4, LoadedWindow
<1>6. ASSUME NEW w
      PROVE  /\ Log!Detect(e.body, w) = Detect(e.body, w)
             /\ Log!Decide(e.body, w) = Decide(e.body, w)
  BY SameFindings, SameDecision
<1> DEFINE found == Detect(e.body, [i \in DOMAIN LoadHistory(events, e) |->
                                      LoadHistory(events, e)[i].body])
<1>7. Judge(events, e) = [evidence |-> found, decision |-> Decide(e.body, found)]
  BY DEF Judge, Verdict
<1>8. Log!Verdict(s, q + 1) = [id |-> e.id, evidence |-> found, decision |-> Decide(e.body, found)]
  <2> HIDE DEF e, s, q
  <2> QED BY <1>1, <1>5, <1>6, Zenon DEF Log!Verdict, L
<1> QED BY <1>7, <1>8

-----------------------------------------------------------------------------
(* Step by step                                                             *)

\* A new row gets the number after the last, so the log has no hole.
LEMMA NextNumbered ==
  ASSUME NoRetention, StoreNumbers, TablesInv, Numbered, [Next]_vars
  PROVE  Numbered'
<1>1. ASSUME NEW p \in Procs, request[p] \in Requests, Insert(p, request[p])
      PROVE  Numbered'
  <2> DEFINE r == request[p]
             s0 == r.session
             new == [event |-> NewEvent(r), stored_at |-> clock]
  <2>1. /\ s0 \in Sessions /\ next[s0] \in Nat
        /\ new.event.session = s0 /\ new.event.sequence = next[s0]
    BY <1>1, RequestsAssumption DEF NewEvent, StoreNumbers, TablesInv, TypeOK
  <2>2. ASSUME NEW n \in Nat PROVE Max({n, n + 1}) = n + 1
    BY n \in Int, n + 1 \in Int, GreaterOf
  <2>3. next' = [next EXCEPT ![s0] = next[s0] + 1] /\ events' = events \cup {new}
    BY <1>1, <2>1, <2>2 DEF Insert, Advance
  <2> HIDE DEF new
  <2> SUFFICES ASSUME NEW s \in Sessions, NEW i \in 1..next'[s]
               PROVE  \E row \in events' : row.event.session = s /\ row.event.sequence = i - 1
    BY DEF Numbered
  <2>4. CASE s = s0 /\ i = next[s0] + 1
    BY <2>1, <2>3, <2>4
  <2>5. CASE ~(s = s0 /\ i = next[s0] + 1)
    <3>1. i \in 1..next[s]
      BY <2>1, <2>3, <2>5 DEF TablesInv, TypeOK
    <3> QED BY <2>3, <3>1 DEF Numbered
  <2> QED BY <2>4, <2>5
<1> QED BY <1>1, GrowingStep DEF Numbered, TablesInv, tables, Commit, StoreResult

(* What a step does to the tables and to the answers at once.               *)
LEMMA AnsweringStep ==
  ASSUME NoRetention, TypeOK, [Next]_vars
  PROVE  \/ UNCHANGED <<tables, answers>>
         \/ \E p \in Procs : /\ request[p] \in Requests /\ RowsOf(request[p].id) = {}
                             /\ Insert(p, request[p]) /\ UNCHANGED answers
         \/ \E p \in Procs : request[p] \in Requests /\ pc[p] = "fetch" /\ Fetch(p)
         \/ \E p \in Procs : /\ request[p] \in Requests /\ pc[p] = "record"
                             /\ Yield(p) \/ Commit(p)
<1> USE DEF NoRetention, TypeOK, Working, tables
<1>1. ASSUME NEW p \in Procs, Open(p) \/ Close(p) \/ Crash(p) \/ StoreFailure(p)
      PROVE  UNCHANGED <<tables, answers>>
  BY <1>1 DEF Open, Due, Close, Crash, StoreFailure
<1>2. ASSUME NEW p \in Procs, Lookup(p) \/ Load(p) PROVE UNCHANGED <<tables, answers>>
  BY <1>2 DEF Lookup, Load
<1>3. ASSUME NEW p \in Procs, Fetch(p) PROVE request[p] \in Requests /\ pc[p] = "fetch"
  BY <1>3 DEF Fetch
<1>4. ASSUME NEW p \in Procs, Prepare(p)
      PROVE  \/ UNCHANGED <<tables, answers>>
             \/ /\ request[p] \in Requests /\ RowsOf(request[p].id) = {}
                /\ Insert(p, request[p]) /\ UNCHANGED answers
  BY <1>4 DEF Prepare, Refuse, Reuse
<1>5. ASSUME NEW p \in Procs, Record(p)
      PROVE  \/ UNCHANGED <<tables, answers>>
             \/ request[p] \in Requests /\ pc[p] = "record" /\ (Yield(p) \/ Commit(p))
  BY <1>5 DEF Record, Lose, Mismatch
<1>6. ASSUME NEW p \in Procs, NEW r \in Requests, Begin(p, r)
      PROVE  UNCHANGED <<tables, answers>>
  BY <1>6 DEF Begin
<1>7. ASSUME Tick \/ UNCHANGED vars PROVE UNCHANGED <<tables, answers>>
  BY <1>7 DEF Tick, vars
<1>8. ~(\E policy \in ManualPolicies : Prune(policy))
  OBVIOUS
<1> QED BY <1>1, <1>2, <1>3, <1>4, <1>5, <1>6, <1>7, <1>8 DEF Next, Step

\* What the simulation needs to know of a state.
RefInv == TablesInv /\ Held /\ SameId /\ FromRequests /\ Numbered /\ Computed

(* A held event is in the log, at its place, for the request it answers.    *)
LEMMA HeldInLog ==
  ASSUME OneContent, RefInv, NEW p \in Procs, request[p] \in Requests,
         pc[p] \in {"fetch", "load", "record"}
  PROVE  /\ event[p].session \in Sessions
         /\ event[p].sequence + 1 \in 1..Len(LogOfTables[event[p].session])
         /\ LogOfTables[event[p].session][event[p].sequence + 1] = event[p]
         /\ request[p].session = event[p].session /\ request[p].id = event[p].id
         /\ Redact(request[p].body) = event[p].body
<1>1. PICK row \in events : row.event = event[p]
  BY DEF RefInv, Held, HeldEvent
<1>2. Complete(events, next) /\ LogOfTables = LogOf(events, next)
  BY TablesComplete DEF RefInv
<1>3. PICK r \in Requests : /\ row.event.id = r.id /\ row.event.session = r.session
                            /\ row.event.body = Redact(r.body)
  BY DEF RefInv, FromRequests
<1>4. event[p].id = request[p].id
  BY DEF RefInv, SameId
<1>5. /\ request[p].session = event[p].session
      /\ Redact(request[p].body) = event[p].body
  BY <1>1, <1>3, <1>4 DEF OneContent
<1>6. /\ row.event.session \in Sessions
      /\ row.event.sequence + 1 \in 1..next[row.event.session]
      /\ LogOfTables[row.event.session][row.event.sequence + 1] = row.event
  BY <1>2, LogRead
<1>7. Len(LogOfTables[row.event.session]) = next[row.event.session]
  <2>1. /\ DOMAIN LogOfTables[row.event.session] = 1..next[row.event.session]
        /\ next[row.event.session] \in Nat
    BY <1>2, <1>6, LogLength
  <2> QED BY <2>1
<1> QED BY <1>1, <1>4, <1>5, <1>6, <1>7

(* Every step of the tables is a step of the log or changes nothing of it.  *)
LEMMA StepImplementsLog ==
  ASSUME NoRetention, StoreNumbers, OneContent, RefInv, RefInv', [Next]_vars
  PROVE  [Log!LogNext]_(Log!logVars)
<1> USE DEF RefInv
<1>1. CASE UNCHANGED <<tables, answers>>
  <2>1. LogOfTables' = LogOfTables
    BY <1>1 DEF LogOfTables, tables
  <2>2. VerdictsOfTables' = VerdictsOfTables
    BY <1>1 DEF VerdictsOfTables, EvidenceOf, tables
  <2> QED BY <1>1, <2>1, <2>2 DEF Log!logVars
<1>2. ASSUME NEW p \in Procs, request[p] \in Requests, RowsOf(request[p].id) = {},
             Insert(p, request[p]), UNCHANGED answers
      PROVE  Log!LogNext
  <2> DEFINE r == request[p]
  <2>1. ~Log!Known(r.id)
    <3> SUFFICES ASSUME NEW s \in Sessions, NEW i \in 1..Len(LogOfTables[s])
                 PROVE  LogOfTables[s][i].id # r.id
      BY DEF Log!Known
    <3>1. Complete(events, next) /\ LogOfTables = LogOf(events, next)
      BY TablesComplete
    <3>2. DOMAIN LogOfTables[s] = 1..next[s] /\ next[s] \in Nat
      BY <3>1, LogLength
    <3>4. i \in 1..next[s]
      BY <3>2
    <3>3. PICK row \in events : row.event = LogOfTables[s][i]
      BY <3>1, <3>4, LogRead
    <3> QED BY <1>2, <3>3 DEF RowsOf
  <2>2. LogOfTables' = [LogOfTables EXCEPT ![r.session] = Append(@, NewEvent(r))]
    BY <1>2, LogGrows
  <2>3. /\ r.session \in Sessions
        /\ NewEvent(r) = [id |-> r.id, session |-> r.session, body |-> Redact(r.body),
                          sequence |-> Len(LogOfTables[r.session])]
    <3>1. r.session \in Sessions
      BY <1>2, RequestsAssumption
    <3>3. DOMAIN LogOfTables[r.session] = 1..next[r.session] /\ next[r.session] \in Nat
      BY <3>1, TablesComplete, LogLength
    <3>2. Len(LogOfTables[r.session]) = next[r.session]
      BY <3>3
    <3> QED BY <1>2, <3>1, <3>2 DEF NewEvent, StoreNumbers
  <2>4. VerdictsOfTables' = VerdictsOfTables
    BY <1>2 DEF Insert, VerdictsOfTables, EvidenceOf
  <2>5. Log!Accept(r)
    BY <1>2, <2>1, <2>2, <2>3, <2>4 DEF Log!Accept
  <2> QED BY <1>2, <2>5 DEF Log!LogNext
<1>3. ASSUME NEW p \in Procs, request[p] \in Requests,
             \/ pc[p] = "fetch" /\ Fetch(p)
             \/ pc[p] = "record" /\ Yield(p)
      PROVE  Log!LogNext
  <2> DEFINE e == event[p]
             s == e.session
             i == e.sequence + 1
             v == [id |-> e.id, evidence |-> EvidenceOf(e.id), decision |-> DecisionOf(e.id)]
  <2>1. /\ s \in Sessions /\ i \in 1..Len(LogOfTables[s]) /\ LogOfTables[s][i] = e
        /\ request[p].session = s /\ request[p].id = e.id /\ Redact(request[p].body) = e.body
    BY <1>3, HeldInLog
  <2>2. Judged(e.id)
    BY <1>3 DEF Held, HeldDecision, Yield
  <2>3. v \in VerdictsOfTables
    <3>1. PICK d \in decisions : d.id = e.id
      BY <2>2 DEF Judged
    <3>2. d.decision = DecisionOf(e.id)
      <4>1. (CHOOSE x \in decisions : x.id = e.id) = d
        BY <3>1 DEF TablesInv, NoOrphans
      <4> QED BY <4>1 DEF DecisionOf
    <3> QED BY <3>1, <3>2 DEF VerdictsOfTables
  <2>4. /\ answers' = answers \cup {[request |-> request[p], event |-> e,
                                     evidence |-> EvidenceOf(e.id),
                                     decision |-> DecisionOf(e.id)]}
        /\ UNCHANGED tables
    <3>1. pc[p] = "fetch" => result[p].decision = DecisionOf(e.id)
      BY <1>3 DEF Held, HeldDecision
    <3> QED BY <1>3, <3>1 DEF Fetch, Yield, Answer
  <2>5. LogOfTables' = LogOfTables /\ VerdictsOfTables' = VerdictsOfTables
    BY <2>4 DEF LogOfTables, VerdictsOfTables, EvidenceOf, tables
  <2>6. Log!Tell(request[p], s, i, v)
    BY <2>1, <2>4 DEF Log!Tell
  <2>7. Log!Repeat(request[p], s, i)
    BY <2>1, <2>3, <2>5, <2>6 DEF Log!Repeat
  <2> QED BY <1>3, <2>1, <2>7 DEF Log!LogNext
<1>4. ASSUME NEW p \in Procs, request[p] \in Requests, pc[p] = "record", Commit(p)
      PROVE  Log!LogNext
  <2> DEFINE e == event[p]
             s == e.session
             i == e.sequence + 1
             v == [id |-> e.id, evidence |-> result[p].evidence, decision |-> result[p].decision]
  <2>1. /\ s \in Sessions /\ i \in 1..Len(LogOfTables[s]) /\ LogOfTables[s][i] = e
        /\ request[p].session = s /\ request[p].id = e.id /\ Redact(request[p].body) = e.body
    BY <1>4, HeldInLog
  <2>2. Log!Verdict(s, i) = v
    <3>1. PICK row \in events : row.event = e
      BY <1>4 DEF Held, HeldEvent
    <3>2. result[p] = Judge(events, e)
      BY <1>4 DEF Computed
    <3> HIDE DEF e
    <3> QED BY <3>1, <3>2, JudgedByWindow
  <2>3. \A x \in VerdictsOfTables : x.id # e.id
    BY <1>4 DEF Commit, Judged, VerdictsOfTables
  <2>4. VerdictsOfTables' = VerdictsOfTables \cup {v}
    <3>1. decisions' = decisions \cup {[id |-> e.id, decision |-> result[p].decision]}
      BY <1>4 DEF Commit, StoreResult
    <3>2. PICK id : id = e.id
      OBVIOUS
    <3>7. EvidenceOf(id)' = result[p].evidence
      BY <1>4, <3>2, CommitReadsBack
    <3>3. \A d \in decisions : EvidenceOf(d.id)' = EvidenceOf(d.id)
      BY EvidenceStable DEF Judged
    <3> DEFINE old(d) == [id |-> d.id, evidence |-> EvidenceOf(d.id), decision |-> d.decision]
               new(d) == [id |-> d.id, evidence |-> EvidenceOf(d.id)', decision |-> d.decision]
    <3>4. VerdictsOfTables' = {new(d) : d \in decisions'} /\ VerdictsOfTables = {old(d) : d \in decisions}
      BY DEF VerdictsOfTables
    <3>5. \A d \in decisions : new(d) = old(d)
      BY <3>3
    <3>8. PICK d : d = [id |-> id, decision |-> result[p].decision]
      OBVIOUS
    <3>6. new(d) = v
      BY <3>2, <3>7, <3>8
    <3> HIDE DEF old, new, v
    <3> QED BY <3>1, <3>2, <3>4, <3>5, <3>6, <3>8
  <2>5. /\ answers' = answers \cup {[request |-> request[p], event |-> e,
                                     evidence |-> v.evidence, decision |-> v.decision]}
        /\ LogOfTables' = LogOfTables
    BY <1>4 DEF Commit, Answer, StoreResult, LogOfTables
  <2>6. Log!Tell(request[p], s, i, v)
    BY <2>1, <2>5 DEF Log!Tell
  <2>7. Log!Settle(request[p], s, i)
    BY <2>1, <2>2, <2>3, <2>4, <2>5, <2>6 DEF Log!Settle
  <2> QED BY <1>4, <2>1, <2>7 DEF Log!LogNext
<1>5. TypeOK
  BY DEF TablesInv
<1>6. \/ UNCHANGED <<tables, answers>>
      \/ \E p \in Procs : /\ request[p] \in Requests /\ RowsOf(request[p].id) = {}
                          /\ Insert(p, request[p]) /\ UNCHANGED answers
      \/ \E p \in Procs : request[p] \in Requests /\ pc[p] = "fetch" /\ Fetch(p)
      \/ \E p \in Procs : /\ request[p] \in Requests /\ pc[p] = "record"
                          /\ Yield(p) \/ Commit(p)
  BY <1>5, AnsweringStep
<1>7. UNCHANGED <<tables, answers>> \/ Log!LogNext
  <2>1. ASSUME NEW p \in Procs, request[p] \in Requests, RowsOf(request[p].id) = {},
               Insert(p, request[p]), UNCHANGED answers
        PROVE  Log!LogNext
    BY <1>2, <2>1
  <2>2. ASSUME NEW p \in Procs, request[p] \in Requests, pc[p] = "fetch", Fetch(p)
        PROVE  Log!LogNext
    BY <1>3, <2>2
  <2>3. ASSUME NEW p \in Procs, request[p] \in Requests, pc[p] = "record", Yield(p)
        PROVE  Log!LogNext
    BY <1>3, <2>3
  <2>4. ASSUME NEW p \in Procs, request[p] \in Requests, pc[p] = "record", Commit(p)
        PROVE  Log!LogNext
    BY <1>4, <2>4
  <2> QED BY <1>6, <2>1, <2>2, <2>3, <2>4
<1> QED BY <1>1, <1>7

(* Without retention and supplied sequences, and with one content per event *)
(* id, the processes, crashes and retries over the tables implement one     *)
(* growing log per session with one final verdict per event.                *)
THEOREM TablesImplementLog ==
  ASSUME NoRetention, StoreNumbers, OneContent PROVE Spec => ImplementsLog
<1> DEFINE Inv == RefInv /\ VerdictsFollowPrefix
<1>1. Init => Inv
  BY InitTables, InitHeld
     DEF Init, RefInv, SameId, FromRequests, Numbered, Computed, VerdictsFollowPrefix
<1>2. Inv /\ [Next]_vars => Inv'
  BY NoRetention, StoreNumbers, NextTables, NextHeld, NextSameId, NextFromRequests,
     NextNumbered, NextVerdicts DEF RefInv, TablesInv
<1>3. Init => Log!LogInit
  <2> SUFFICES ASSUME Init PROVE Log!LogInit
    OBVIOUS
  <2>1. LogOfTables = [s \in Sessions |-> <<>>]
    BY DEF Init, LogOfTables
  <2>2. VerdictsOfTables = {} /\ answers = {}
    BY DEF Init, VerdictsOfTables
  <2> QED BY <2>1, <2>2 DEF Log!LogInit
<1>4. Inv /\ Inv' /\ [Next]_vars => [Log!LogNext]_(Log!logVars)
  BY NoRetention, StoreNumbers, OneContent, StepImplementsLog
<1> QED BY <1>1, <1>2, <1>3, <1>4, PTL DEF Spec, ImplementsLog, Log!LogSpec
=============================================================================
