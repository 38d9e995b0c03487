-------------------------- MODULE DurableSupervisor --------------------------
(***************************************************************************)
(* Supervisor.process over the SQLite store, run by several processes at   *)
(* once: every hook invocation is a process that opens the store (which    *)
(* may apply the automatic retention), supervises one or more events and   *)
(* exits.  Each store call is one transaction or one read, so each is one  *)
(* action; everything between two calls may be interleaved with the other  *)
(* processes, a store-prune command, a crash or a failing store.           *)
(*                                                                         *)
(* A request is the event a caller passes in: [id, session, body,          *)
(* sequence], the sequence None when the caller leaves it to the store.    *)
(* A stored event is the same record with a sequence and a redacted body.  *)
(***************************************************************************)
EXTENDS Guard

CONSTANTS
  Procs,            \* processes that share the database file
  Sessions,         \* session ids
  Requests,         \* the events callers may submit, retries included
  Redact(_),        \* Redactor.redact_event on a body
  AutoPolicy,       \* retention applied when a store is opened, or None
  ManualPolicies,   \* retention policies of store-prune commands
  Interval,         \* seconds between two automatic retentions
  MaxClock,         \* bound: last second of a behaviour
  MaxCalls,         \* bound: calls of process in a behaviour
  MaxFaults         \* bound: crashes and store failures in a behaviour

Ids == {r.id : r \in Requests}

ASSUME RequestsAssumption ==
  \A r \in Requests : r.session \in Sessions /\ r.sequence \in Nat \cup {None}

\* RetentionPolicy: either limit may be absent.
ASSUME PoliciesAssumption ==
  \A policy \in ({AutoPolicy} \ {None}) \cup ManualPolicies :
    policy.max_age \in Nat \cup {None} /\ policy.max_events \in Nat \cup {None}

ASSUME BoundsAssumption ==
  MaxClock \in Nat /\ MaxCalls \in Nat /\ MaxFaults \in Nat /\ None \notin Nat

VARIABLES
  sessions,    \* table sessions: the ids with a row
  next,        \* table sessions: session -> next_sequence, 0 without a row
  events,      \* table events: set of [event, stored_at]
  evidence,    \* table evidence: set of [id, items]
  decisions,   \* table decisions: set of [id, decision]
  lastRun,     \* maintenance row retention.last_run_epoch, or None
  clock,       \* the wall clock, in seconds
  pc,          \* process -> the call it makes next
  request,     \* process -> the event passed to process()
  event,       \* process -> the local event
  result,      \* process -> [evidence, decision] computed or read, or None
  answers,     \* history variable: what process() has returned
  calls, faults

tables == <<sessions, next, events, evidence, decisions>>
locals == <<request, event, result>>
counters == <<calls, faults>>
vars == <<tables, lastRun, clock, pc, locals, answers, counters>>

Working == {"lookup", "fetch", "prepare", "load", "record"}
Failed == {"id_conflict", "sequence_conflict", "lost_event", "changed_event", "store_error"}

Init ==
  /\ sessions = {} /\ next = [s \in Sessions |-> 0]
  /\ events = {} /\ evidence = {} /\ decisions = {}
  /\ lastRun = None /\ clock = 0
  /\ pc = [p \in Procs |-> "closed"]
  /\ request = [p \in Procs |-> None]
  /\ event = [p \in Procs |-> None]
  /\ result = [p \in Procs |-> None]
  /\ answers = {} /\ calls = 0 /\ faults = 0

-----------------------------------------------------------------------------
(* Reading the tables *)

RowsOf(id) == {row \in events : row.event.id = id}
Judged_Mutant(id) == FALSE
Judged(id) == \E d \in decisions : d.id = id
DecisionOf(id) == (CHOOSE d \in decisions : d.id = id).decision
ItemsIn(rows) == IF rows = {} THEN <<>> ELSE (CHOOSE x \in rows : TRUE).items
EvidenceOf(id) == ItemsIn({x \in evidence : x.id = id})

\* load_history: the newest events of a session, oldest first; Below gives those
\* before the event to be judged.
Below_Mutant(rows, session, sequence) ==
  {row.event : row \in {q \in rows : q.event.session = session}}

Below(rows, session, sequence) ==
  {row.event : row \in {q \in rows : q.event.session = session /\ q.event.sequence < sequence}}

Newest_Mutant(older, limit) ==
  {e \in older : Cardinality({f \in older : f.sequence < e.sequence}) < limit}

Newest(older, limit) ==
  {e \in older : Cardinality({f \in older : f.sequence > e.sequence}) < limit}

\* The event at position i has i - 1 events before it.
OldestFirst(es) ==
  [i \in 1..Cardinality(es) |->
     CHOOSE e \in es : Cardinality({f \in es : f.sequence < e.sequence}) = i - 1]

LoadHistory(rows, e) == OldestFirst(Newest(Below(rows, e.session, e.sequence), HistoryLimit))

\* Detectors and policy over a loaded history.
Verdict(history, e) ==
  LET found == Detect(e.body, [i \in DOMAIN history |-> history[i].body])
  IN  [evidence |-> found, decision |-> Decide(e.body, found)]

Judge(rows, e) == Verdict(LoadHistory(rows, e), e)

-----------------------------------------------------------------------------
(* Retention *)

Expired_Mutant(rows, policy) ==
  {row \in rows : policy.max_age # None /\ row.stored_at < clock - policy.max_age - 1}

Expired(rows, policy) ==
  {row \in rows : policy.max_age # None /\ row.stored_at < clock - policy.max_age}

Excess_Mutant(rows, policy) ==
  {row \in rows :
     /\ policy.max_events # None
     /\ Cardinality({q \in rows : /\ q.event.session = row.event.session
                                  /\ q.event.sequence < row.event.sequence})
          >= policy.max_events}

Excess(rows, policy) ==
  {row \in rows :
     /\ policy.max_events # None
     /\ Cardinality({q \in rows : /\ q.event.session = row.event.session
                                  /\ q.event.sequence > row.event.sequence})
          >= policy.max_events}

\* Deleting an event deletes its evidence and its decision; a session without
\* an event goes too, and with it the next sequence.  rows is what the
\* transaction reads: the table events, after what it changed there itself.
ApplyRetention_Mutant(rows, policy) ==
  LET kept == rows \ (Expired(rows, policy) \cup Excess(rows, policy))
  IN  /\ events' = kept
      /\ sessions' = {row.event.session : row \in kept}
      /\ next' = [s \in Sessions |-> IF s \in sessions' THEN next[s] ELSE 0]
      /\ UNCHANGED <<evidence, decisions>>

ApplyRetention(rows, policy) ==
  LET kept == rows \ (Expired(rows, policy) \cup Excess(rows, policy))
      ids == {row.event.id : row \in kept}
  IN  /\ events' = kept
      /\ evidence' = {x \in evidence : x.id \in ids}
      /\ decisions' = {d \in decisions : d.id \in ids}
      /\ sessions' = {row.event.session : row \in kept}
      /\ next' = [s \in Sessions |-> IF s \in sessions' THEN next[s] ELSE 0]

Due == AutoPolicy # None /\ (lastRun = None \/ clock - lastRun >= Interval)

\* SQLiteStore(...): one transaction checks the interval, prunes and marks.
Open(p) ==
  /\ pc[p] = "closed"
  /\ pc' = [pc EXCEPT ![p] = "open"]
  /\ IF Due THEN ApplyRetention(events, AutoPolicy) /\ lastRun' = clock
            ELSE UNCHANGED <<tables, lastRun>>
  /\ UNCHANGED <<clock, locals, answers, counters>>

\* The store-prune command, without --dry-run.
Prune(policy) ==
  /\ ApplyRetention(events, policy)
  /\ UNCHANGED <<lastRun, clock, pc, locals, answers, counters>>

-----------------------------------------------------------------------------
(* Supervisor.process, call by call *)

Begin(p, r) ==
  /\ pc[p] \in {"open"} \cup Failed
  /\ calls < MaxCalls
  /\ calls' = calls + 1
  /\ pc' = [pc EXCEPT ![p] = "lookup"]
  /\ request' = [request EXCEPT ![p] = r]
  /\ UNCHANGED <<tables, lastRun, clock, event, result, answers, faults>>

\* The call is over; what it held is garbage.
Leave(p, to) ==
  /\ pc' = [pc EXCEPT ![p] = to]
  /\ request' = [request EXCEPT ![p] = None]
  /\ event' = [event EXCEPT ![p] = None]
  /\ result' = [result EXCEPT ![p] = None]

Answer(p, e, r) ==
  /\ Leave(p, "open")
  /\ answers' = answers \cup
       {[request |-> request[p], event |-> e, evidence |-> r.evidence, decision |-> r.decision]}

\* get_result reads the event and the decision, then, in a statement of its own
\* without a transaction, the evidence.
Lookup(p) ==
  LET id == request[p].id
  IN  /\ pc[p] = "lookup"
      /\ \/ /\ RowsOf(id) # {} /\ Judged(id)
            /\ pc' = [pc EXCEPT ![p] = "fetch"]
            /\ event' = [event EXCEPT ![p] = (CHOOSE row \in RowsOf(id) : TRUE).event]
            /\ result' = [result EXCEPT ![p] = [evidence |-> <<>>, decision |-> DecisionOf(id)]]
         \/ /\ ~(RowsOf(id) # {} /\ Judged(id))
            /\ pc' = [pc EXCEPT ![p] = "prepare"]
            /\ UNCHANGED <<event, result>>
      /\ UNCHANGED <<tables, lastRun, clock, request, answers, counters>>

Fetch(p) ==
  /\ pc[p] = "fetch"
  /\ Answer(p, event[p], [evidence |-> EvidenceOf(event[p].id), decision |-> result[p].decision])
  /\ UNCHANGED <<tables, lastRun, clock, counters>>

SameEvent_Mutant(existing, r) ==
  /\ r.sequence = existing.sequence
  /\ r.session = existing.session
  /\ Redact(r.body) = existing.body

SameEvent_Unredacted(existing, r) ==
  /\ r.sequence = None \/ r.sequence = existing.sequence
  /\ r.session = existing.session
  /\ r.body = existing.body

SameEvent(existing, r) ==
  /\ r.sequence = None \/ r.sequence = existing.sequence
  /\ r.session = existing.session
  /\ Redact(r.body) = existing.body

Advance_Mutant(s, sequence) == [next EXCEPT ![s] = sequence + 1]
\* next_sequence = MAX(next_sequence, sequence + 1)
Advance(s, sequence) == [next EXCEPT ![s] = Max({next[s], sequence + 1})]

\* The row an unseen request becomes, and what UNIQUE(session_id, sequence) refuses.
NewEvent(r) ==
  [id |-> r.id, session |-> r.session, body |-> Redact(r.body),
   sequence |-> IF r.sequence = None THEN next[r.session] ELSE r.sequence]

Taken(e) ==
  \E row \in events : row.event.session = e.session /\ row.event.sequence = e.sequence

Refuse(p, r) ==
  /\ Taken(NewEvent(r))
  /\ Leave(p, "sequence_conflict")
  /\ UNCHANGED tables

Insert(p, r) ==
  /\ ~Taken(NewEvent(r))
  /\ sessions' = sessions \cup {r.session}
  /\ next' = Advance(r.session, NewEvent(r).sequence)
  /\ events' = events \cup {[event |-> NewEvent(r), stored_at |-> clock]}
  /\ event' = [event EXCEPT ![p] = NewEvent(r)]
  /\ pc' = [pc EXCEPT ![p] = "load"]
  /\ UNCHANGED <<evidence, decisions, request, result>>

Reuse_Mutant(p, r) ==
  /\ RowsOf(r.id) # {}
  /\ event' = [event EXCEPT ![p] = [r EXCEPT !.body = Redact(r.body)]]
  /\ pc' = [pc EXCEPT ![p] = "load"]
  /\ UNCHANGED <<tables, request, result>>

Reuse(p, r) ==
  \E row \in RowsOf(r.id) :
    /\ UNCHANGED tables
    /\ \/ /\ SameEvent(row.event, r)
          /\ event' = [event EXCEPT ![p] = row.event]
          /\ pc' = [pc EXCEPT ![p] = "load"]
          /\ UNCHANGED <<request, result>>
       \/ /\ ~SameEvent(row.event, r)
          /\ Leave(p, "id_conflict")

\* prepare_event: one BEGIN IMMEDIATE transaction, rolled back on a conflict.
Prepare(p) ==
  /\ pc[p] = "prepare"
  /\ \/ /\ RowsOf(request[p].id) = {}
        /\ Insert(p, request[p]) \/ Refuse(p, request[p])
     \/ Reuse(p, request[p])
  /\ UNCHANGED <<lastRun, clock, answers, counters>>

\* load_history, then detectors and policy on what it returned.
Load(p) ==
  /\ pc[p] = "load"
  /\ pc' = [pc EXCEPT ![p] = "record"]
  /\ \E history \in {LoadHistory(events, event[p])} :
       result' = [result EXCEPT ![p] = Verdict(history, event[p])]
  /\ UNCHANGED <<tables, lastRun, clock, request, event, answers, counters>>

StoreResult_Mutant(e, r) ==
  /\ decisions' = decisions \cup {[id |-> e.id, decision |-> r.decision]}
  /\ UNCHANGED <<sessions, next, events, evidence>>

StoreResult(e, r) ==
  /\ decisions' = decisions \cup {[id |-> e.id, decision |-> r.decision]}
  /\ evidence' = IF r.evidence = <<>> THEN evidence
                 ELSE evidence \cup {[id |-> e.id, items |-> r.evidence]}
  /\ UNCHANGED <<sessions, next, events>>

Record_Mutant(p) ==
  /\ pc[p] = "record" /\ RowsOf(event[p].id) # {}
  /\ decisions' = {d \in decisions : d.id # event[p].id}
                    \cup {[id |-> event[p].id, decision |-> result[p].decision]}
  /\ Answer(p, event[p], result[p])
  /\ UNCHANGED <<sessions, next, events, evidence, lastRun, clock, counters>>

\* record_result in a transaction that finds the event gone, stored anew as
\* another event, already decided, or waiting for this decision.
Lose(p) ==
  /\ RowsOf(event[p].id) = {}
  /\ Leave(p, "lost_event")
  /\ UNCHANGED <<tables, answers>>

Mismatch(p) ==
  /\ \E row \in RowsOf(event[p].id) : row.event # event[p]
  /\ Leave(p, "changed_event")
  /\ UNCHANGED <<tables, answers>>

\* The first committed decision wins.
Yield(p) ==
  /\ \E row \in RowsOf(event[p].id) : row.event = event[p]
  /\ Judged(event[p].id)
  /\ Answer(p, event[p], [evidence |-> EvidenceOf(event[p].id),
                          decision |-> DecisionOf(event[p].id)])
  /\ UNCHANGED tables

Commit(p) ==
  /\ \E row \in RowsOf(event[p].id) : row.event = event[p]
  /\ ~Judged(event[p].id)
  /\ StoreResult(event[p], result[p])
  /\ Answer(p, event[p], result[p])

Record(p) ==
  /\ pc[p] = "record"
  /\ Lose(p) \/ Mismatch(p) \/ Yield(p) \/ Commit(p)
  /\ UNCHANGED <<lastRun, clock, counters>>

Close(p) ==
  /\ pc[p] \in {"open"} \cup Failed
  /\ pc' = [pc EXCEPT ![p] = "closed"]
  /\ UNCHANGED <<tables, lastRun, clock, locals, answers, counters>>

-----------------------------------------------------------------------------
(* The environment *)

\* The process is killed; SQLite keeps what was committed and nothing else.
Crash(p) ==
  /\ pc[p] # "closed"
  /\ faults < MaxFaults
  /\ faults' = faults + 1
  /\ Leave(p, "closed")
  /\ UNCHANGED <<tables, lastRun, clock, answers, calls>>

\* sqlite3.Error, a busy timeout for one: the call is rolled back and raises.
StoreFailure(p) ==
  /\ pc[p] \in Working
  /\ faults < MaxFaults
  /\ faults' = faults + 1
  /\ Leave(p, "store_error")
  /\ UNCHANGED <<tables, lastRun, clock, answers, calls>>

Tick ==
  /\ clock < MaxClock
  /\ clock' = clock + 1
  /\ UNCHANGED <<tables, lastRun, pc, locals, answers, counters>>

Step(p) == Lookup(p) \/ Fetch(p) \/ Prepare(p) \/ Load(p) \/ Record(p)

Next ==
  \/ \E p \in Procs : Open(p) \/ Step(p) \/ Close(p) \/ Crash(p) \/ StoreFailure(p)
  \/ \E p \in Procs, r \in Requests : Begin(p, r)
  \/ \E policy \in ManualPolicies : Prune(policy)
  \/ Tick

Spec == Init /\ [][Next]_vars

\* A step of a call: a working process always has one, it moves pc[p], and only a
\* fault moves it elsewhere.  To say where pc[p] goes is enough to tell Step(p) from
\* all other actions, and much cheaper to check.
Proceed(p) ==
  /\ pc[p] \in Working
  /\ \E q \in Working \cup Failed \cup {"open"} :
       q # "store_error" /\ pc' = [pc EXCEPT ![p] = q]

\* A hook process that began a call is scheduled until the call is over.
FairSpec == Spec /\ \A p \in Procs : WF_pc(Proceed(p))

-----------------------------------------------------------------------------
(* Properties *)

StoredEvents ==
  [id : Ids, session : Sessions, body : {Redact(r.body) : r \in Requests}, sequence : Nat]

TypeOK ==
  /\ sessions \subseteq Sessions
  /\ next \in [Sessions -> Nat]
  /\ \A row \in events : row.event \in StoredEvents /\ row.stored_at \in 0..clock
  /\ \A x \in evidence : x.id \in Ids
  /\ \A d \in decisions : d.id \in Ids
  /\ lastRun \in {None} \cup 0..clock
  /\ clock \in 0..MaxClock
  /\ pc \in [Procs -> {"closed", "open"} \cup Working \cup Failed]
  /\ request \in [Procs -> Requests \cup {None}]
  /\ event \in [Procs -> StoredEvents \cup {None}]
  /\ DOMAIN result = Procs
  /\ \A p \in Procs :
       /\ pc[p] \in Working => request[p] \in Requests
       /\ pc[p] \in {"fetch", "load", "record"} => event[p] \in StoredEvents
  /\ calls \in 0..MaxCalls /\ faults \in 0..MaxFaults

(* Every stored event has a sequence number of its own in its session, and  *)
(* the next one the store would give out is beyond all of them, whatever    *)
(* callers supply, crashes or retention deletes (sqlite.py:238-277, 498).   *)
SequencesReserved ==
  /\ \A x, y \in events :
       x.event.id = y.event.id \/ (x.event.session = y.event.session
                                   /\ x.event.sequence = y.event.sequence) => x = y
  /\ \A row \in events : row.event.sequence < next[row.event.session]

(* No verdict outlives or precedes its event, no evidence its verdict, no   *)
(* event has two verdicts, and no session row is left without an event:     *)
(* every transaction and every cascade covers all of it (sqlite.py:355-408, *)
(* 451-521).                                                                *)
NoOrphans ==
  /\ {d.id : d \in decisions} \subseteq {row.event.id : row \in events}
  /\ {x.id : x \in evidence} \subseteq {d.id : d \in decisions}
  /\ \A d, f \in decisions : d.id = f.id => d = f
  /\ sessions = {row.event.session : row \in events}

(* A recorded decision never changes; it goes only together with its event  *)
(* (record_result returns the existing one, sqlite.py:371-378).             *)
DecisionFinal ==
  [][\A d \in decisions :
       d \in decisions' \/ \A row \in events' : row.event.id # d.id]_vars

(* Without retention and without caller-supplied sequences: every recorded  *)
(* verdict is the one the events before it call for, although later events  *)
(* may be committed before it is computed (supervisor.py:77-95).            *)
VerdictsFollowPrefix ==
  \A d \in decisions : \A row \in RowsOf(d.id) :
    Judge(events, row.event) = [evidence |-> EvidenceOf(d.id), decision |-> d.decision]

(* Without retention: all callers that submit one event, concurrently or    *)
(* again after a crash, are told the same event, evidence and decision,     *)
(* even if they saw different histories (sqlite.py:371-378).                *)
AnswersAgree ==
  \A a, b \in answers : a.request.id = b.request.id =>
    a.event = b.event /\ a.evidence = b.evidence /\ a.decision = b.decision

(* Without retention: whatever a caller has been told is in the database,   *)
(* so a later process reads the same (supervisor.py:95).                    *)
AnswersAreDurable ==
  \A a \in answers :
    /\ \E row \in events : row.event = a.event
    /\ Judged(a.event.id)
    /\ DecisionOf(a.event.id) = a.decision
    /\ EvidenceOf(a.event.id) = a.evidence

(* Without retention, and with one content per event id and no supplied     *)
(* sequences, a call never fails with a conflict: not on a retry after a    *)
(* crash and not when two processes insert at once (sqlite.py:213-286).     *)
NoSpuriousConflict ==
  \A p \in Procs : pc[p] \notin Failed \ {"store_error"}

(* Retention keeps an unbroken run of the newest events of every session,   *)
(* so a loaded history never has a hole in it (sqlite.py:451-497).          *)
SuffixKept ==
  \A s \in Sessions :
    LET kept == {row.event.sequence : row \in {q \in events : q.event.session = s}}
    IN  \A q \in kept : q..(next[s] - 1) \subseteq kept

(* When the maintenance mark says a retention ran, nothing older than its   *)
(* cutoff is left: mark and deletion are one transaction (sqlite.py:185-206)*)
MarkMeansPruned ==
  lastRun # None /\ AutoPolicy.max_age # None =>
    \A row \in events : row.stored_at >= lastRun - AutoPolicy.max_age

(* A call is answered, be it the retry of one that was killed or lost its   *)
(* store half-way, as long as nothing of the kind happens to the call       *)
(* itself: the event stored before does not turn the retry into a conflict, *)
(* and no store call waits for a call that is never made (sqlite.py:220-286,*)
(* supervisor.py:71-95).                                                    *)
EveryCallAnswered ==
  \A r \in Requests :
    (faults = MaxFaults /\ \E p \in Procs : pc[p] = "lookup" /\ request[p] = r)
      ~> (\E a \in answers : a.request = r)

-----------------------------------------------------------------------------
(* The tables as the log of GuardLog, when nothing is pruned and no caller  *)
(* supplies a sequence.                                                     *)
LogOfTables ==
  [s \in Sessions |-> [i \in 1..next[s] |->
     (CHOOSE row \in events : row.event.session = s /\ row.event.sequence = i - 1).event]]

VerdictsOfTables ==
  {[id |-> d.id, evidence |-> EvidenceOf(d.id), decision |-> d.decision] : d \in decisions}

Log == INSTANCE GuardLog WITH log <- LogOfTables, verdicts <- VerdictsOfTables

ImplementsLog == Log!LogSpec
=============================================================================
