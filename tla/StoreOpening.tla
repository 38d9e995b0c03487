----------------------------- MODULE StoreOpening -----------------------------
(***************************************************************************)
(* What a process does before its first store call: it opens the database  *)
(* an older or a newer agent-drift may have left.  One BEGIN IMMEDIATE     *)
(* transaction creates or migrates the schema and then applies the         *)
(* automatic retention to what it migrated; a schema that is newer than    *)
(* the program's own is refused.  Other processes open, supervise and      *)
(* prune at the same time (DurableSupervisor).                             *)
(*                                                                         *)
(* A database is [schema, events, decisions, next, lastRun].  Schema 1 has *)
(* no ingestion times; the column it gets holds 0 until it is filled in.   *)
(***************************************************************************)
EXTENDS DurableSupervisor

CONSTANTS
  Databases,      \* the databases that may be found, schema 0 for none
  StartClock,     \* the second at which the first process starts
  Timestamp(_)    \* event -> the second in its timestamp, None if it has no such form

ASSUME OpeningAssumption == StartClock \in 1..MaxClock

\* A database is what its own program left: rows keyed by id and by session and
\* sequence, numbers given out, and neither ages nor a mark before schema 2.
ASSUME DatabasesAssumption ==
  \A db \in Databases :
    /\ db.schema \in Nat /\ db.next \in [Sessions -> Nat]
    /\ db.lastRun \in {None} \cup 0..StartClock
    /\ IsFiniteSet(db.events)
    /\ \A row \in db.events :
         /\ row = [event |-> row.event, stored_at |-> row.stored_at]
         /\ row.event.session \in Sessions /\ row.stored_at \in 0..StartClock
         /\ row.event.sequence \in 0..(db.next[row.event.session] - 1)
         /\ Timestamp(row.event) \in Nat \cup {None}
    /\ \A x, y \in db.events :
         x.event.id = y.event.id \/ (x.event.session = y.event.session
                                     /\ x.event.sequence = y.event.sequence) => x = y
    /\ db.schema = 1 => db.lastRun = None /\ \A row \in db.events : row.stored_at = 0

VARIABLE schema   \* PRAGMA user_version

openingVars == <<vars, schema>>

CurrentSchema == 3

OpeningInit ==
  /\ \E db \in Databases :
       /\ schema = db.schema
       /\ events = db.events /\ decisions = db.decisions
       /\ next = db.next /\ lastRun = db.lastRun
       /\ sessions = {row.event.session : row \in db.events}
       /\ calls = Cardinality(db.events)
  /\ evidence = {} /\ clock = StartClock
  /\ pc = [p \in Procs |-> "closed"]
  /\ request = [p \in Procs |-> None]
  /\ event = [p \in Procs |-> None]
  /\ result = [p \in Procs |-> None]
  /\ answers = {} /\ faults = 0

MigratedRow_Mutant(row) == row

\* Schema 1 to 2: the event's own time stands in for the ingestion time.
MigratedRow(row) ==
  IF schema = 1 /\ row.stored_at = 0
  THEN [row EXCEPT !.stored_at =
          IF Timestamp(row.event) = None THEN clock ELSE Timestamp(row.event)]
  ELSE row

MigratedRows == {MigratedRow(row) : row \in events}

\* Every migration up to the current schema and then the retention, or nothing.
Initialize(policy) ==
  /\ schema <= CurrentSchema
  /\ schema' = CurrentSchema
  /\ IF policy # None /\ Due
     THEN ApplyRetention(MigratedRows, policy) /\ lastRun' = clock
     ELSE /\ events' = MigratedRows
          /\ UNCHANGED <<sessions, next, evidence, decisions, lastRun>>
  /\ UNCHANGED <<clock, locals, answers, counters>>

\* A hook process.
OpenStore(p) ==
  /\ pc[p] = "closed"
  /\ pc' = [pc EXCEPT ![p] = "open"]
  /\ Initialize(AutoPolicy)

\* A maintenance command: it opens the store without the retention.
Inspect == Initialize(None) /\ UNCHANGED pc

OnceOpened(A) == A /\ UNCHANGED schema

OpeningNext ==
  \/ \E p \in Procs : OpenStore(p)
  \/ Inspect
  \/ OnceOpened(\E p \in Procs : Step(p) \/ Close(p) \/ Crash(p) \/ StoreFailure(p))
  \/ OnceOpened(\E p \in Procs, r \in Requests : Begin(p, r))
  \/ OnceOpened(schema = CurrentSchema /\ \E policy \in ManualPolicies : Prune(policy))
  \/ OnceOpened(Tick)

OpeningSpec == OpeningInit /\ [][OpeningNext]_openingVars

-----------------------------------------------------------------------------
\* The second since which a row counts as stored, whatever schema it is in.
Since(row) ==
  IF schema = 1 /\ Timestamp(row.event) # None THEN Timestamp(row.event)
  ELSE IF schema = 1 THEN clock ELSE row.stored_at

Bounded(row) ==
  /\ Since(row) >= clock - AutoPolicy.max_age
  /\ row \notin Excess(events, AutoPolicy)

(* Opening an older database loses nothing a retention may not take: an     *)
(* event that is young enough and among the newest of its session keeps its *)
(* place, its verdict and its age, and the numbering of its session goes    *)
(* on, although the migration invents the ages and the retention that reads *)
(* them runs in the same transaction; a newer database is left alone        *)
(* (sqlite.py:82-103, 162-206).                                             *)
MigrationLosesNothing ==
  [][schema' # schema =>
       /\ schema < schema'
       /\ \A row \in {q \in events : Bounded(q)} :
            /\ [event |-> row.event, stored_at |-> Since(row)] \in events'
            /\ {d \in decisions : d.id = row.event.id} \subseteq decisions'
            /\ next'[row.event.session] = next[row.event.session]]_openingVars
=============================================================================
