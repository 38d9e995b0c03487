-------------------------- MODULE StoreClients_proofs --------------------------
(***************************************************************************)
(* Two clients of the shared database.  The first opens it: what retention *)
(* and migration leave of a database that processes open, use and prune    *)
(* together is an unbroken run of the newest events of every session,      *)
(* nothing past the cutoff the mark stands for, and every young event of   *)
(* an older schema.  The second exports a session from it and replays what *)
(* it exported, or what the telemetry file holds: it arrives at the        *)
(* verdicts on record, because a list in place makes the deque of replay   *)
(* the window the store loaded.                                            *)
(***************************************************************************)
EXTENDS StoreOpening, ReplayExport, DurableSupervisor_proofs, FiniteSetTheorems

SameSession(x, y) == x.event.session = y.event.session
Before(x, y) == SameSession(x, y) /\ x.event.sequence < y.event.sequence

\* The rows of a table with the next sequences nx.
Table(rows, nx) ==
  /\ IsFiniteSet(rows)
  /\ nx \in [Sessions -> Nat]
  /\ \A row \in rows :
       /\ row = [event |-> row.event, stored_at |-> row.stored_at]
       /\ row.event.session \in Sessions /\ row.stored_at \in Nat
       /\ row.event.sequence \in Nat /\ row.event.sequence < nx[row.event.session]
  /\ \A x, y \in rows :
       x.event.id = y.event.id \/ (SameSession(x, y) /\ x.event.sequence = y.event.sequence)
         => x = y

\* Later events of a session were not stored earlier.
InAgeOrder(rows) == \A x, y \in rows : Before(x, y) => x.stored_at <= y.stored_at

\* From every row on, no number of its session is missing.
Unbroken(rows, nx) ==
  \A x \in rows : \A i \in x.event.sequence..(nx[x.event.session] - 1) :
    \E y \in rows : SameSession(x, y) /\ y.event.sequence = i

Policy(policy) ==
  /\ policy.max_age \in Nat \cup {None}
  /\ policy.max_events \in Nat \cup {None}

-----------------------------------------------------------------------------
(* Retention *)

(* Who is kept drags along everyone after it: the later event is younger    *)
(* and has fewer events above it.                                           *)
LEMMA LaterIsKept ==
  ASSUME NEW rows, NEW nx, Table(rows, nx), InAgeOrder(rows), clock \in Nat,
         NEW policy, Policy(policy), NEW x \in rows, NEW y \in rows, Before(x, y),
         x \notin Expired(rows, policy) \cup Excess(rows, policy)
  PROVE  y \notin Expired(rows, policy) \cup Excess(rows, policy)
<1>1. y \notin Expired(rows, policy)
  BY BoundsAssumption DEF Expired, InAgeOrder, Table, Policy
<1>2. y \notin Excess(rows, policy)
  <2> DEFINE Above(z) == {q \in rows : /\ q.event.session = z.event.session
                                       /\ q.event.sequence > z.event.sequence}
  <2>1. Above(y) \in SUBSET Above(x) /\ Above(x) \in SUBSET rows
    BY DEF Before, SameSession, Table
  <2>2. /\ IsFiniteSet(Above(x)) /\ IsFiniteSet(Above(y))
        /\ Cardinality(Above(y)) <= Cardinality(Above(x))
    BY <2>1, FS_Subset DEF Table
  <2>3. Cardinality(Above(x)) \in Nat /\ Cardinality(Above(y)) \in Nat
    BY <2>2, FS_CardinalityType
  <2>4. \A z \in rows :
          z \in Excess(rows, policy)
            <=> policy.max_events # None /\ Cardinality(Above(z)) >= policy.max_events
    BY DEF Excess
  <2> HIDE DEF Above
  <2> QED BY <2>2, <2>3, <2>4, BoundsAssumption DEF Policy
<1> QED BY <1>1, <1>2

(* What a retention leaves is a table with unbroken runs again.             *)
LEMMA RetentionKeepsRuns ==
  ASSUME NEW rows, Table(rows, next), InAgeOrder(rows), Unbroken(rows, next), clock \in Nat,
         NEW policy, Policy(policy), ApplyRetention(rows, policy)
  PROVE  /\ Table(events', next') /\ InAgeOrder(events') /\ Unbroken(events', next')
         /\ events' \subseteq rows
<1> DEFINE kept == rows \ (Expired(rows, policy) \cup Excess(rows, policy))
<1>1. /\ events' = kept
      /\ next' = [s \in Sessions |-> IF s \in {row.event.session : row \in kept} THEN next[s] ELSE 0]
  BY DEF ApplyRetention
<1>2. kept \subseteq rows /\ IsFiniteSet(kept)
  BY FS_Subset DEF Table
<1>3. \A x \in rows, y \in rows : Before(x, y) /\ x \in kept => y \in kept
  BY LaterIsKept
<1> HIDE DEF kept
<1>4. \A x \in kept : next'[x.event.session] = next[x.event.session]
  BY <1>1, <1>2 DEF Table
<1>5. next' \in [Sessions -> Nat]
  BY <1>1 DEF Table
<1>6. Table(events', next')
  BY <1>1, <1>2, <1>4, <1>5 DEF Table
<1>7. InAgeOrder(events')
  BY <1>1, <1>2 DEF InAgeOrder
<1>8. Unbroken(events', next')
  <2> SUFFICES ASSUME NEW x \in kept, NEW i \in x.event.sequence..(next[x.event.session] - 1)
               PROVE  \E y \in kept : SameSession(x, y) /\ y.event.sequence = i
    BY <1>1, <1>4 DEF Unbroken
  <2>1. PICK y \in rows : SameSession(x, y) /\ y.event.sequence = i
    BY <1>2 DEF Unbroken
  <2>2. x \in rows /\ x.event.sequence \in Nat
    BY <1>2 DEF Table
  <2>3. CASE i = x.event.sequence
    BY <2>3 DEF SameSession
  <2>4. CASE i # x.event.sequence
    <3>1. Before(x, y)
      BY <2>1, <2>2, <2>4 DEF Before, SameSession
    <3> QED BY <1>3, <2>1, <2>2, <3>1
  <2> QED BY <2>3, <2>4
<1> QED BY <1>1, <1>2, <1>6, <1>7, <1>8

-----------------------------------------------------------------------------
(* The state of an opened or unopened database                              *)

OpenInv ==
  /\ schema \in Nat /\ clock \in Nat /\ lastRun \in {None} \cup 0..clock
  /\ pc \in [Procs -> {"closed", "open"} \cup Working \cup Failed]
  /\ request \in [Procs -> Requests \cup {None}]
  /\ \A p \in Procs : pc[p] \in Working => request[p] \in Requests
  /\ schema # CurrentSchema => \A p \in Procs : pc[p] = "closed"
  /\ Table(events, next)
  /\ schema = 1 => lastRun = None /\ \A row \in events : /\ row.stored_at = 0
                                                         /\ Timestamp(row.event) \in Nat \cup {None}

\* The invariant holds of the database that was found.
LEMMA InitOpen == OpeningInit => OpenInv
<1> SUFFICES ASSUME OpeningInit PROVE OpenInv
  OBVIOUS
<1>1. PICK db \in Databases : /\ schema = db.schema /\ events = db.events
                              /\ next = db.next /\ lastRun = db.lastRun
  BY DEF OpeningInit
<1>2. Table(events, next)
  BY <1>1, DatabasesAssumption DEF Table, SameSession
<1>3. clock \in Nat /\ clock = StartClock /\ schema \in Nat /\ lastRun \in {None} \cup 0..clock
  BY <1>1, DatabasesAssumption, OpeningAssumption, BoundsAssumption DEF OpeningInit
<1>4. schema = 1 => lastRun = None /\ \A row \in events : /\ row.stored_at = 0
                                                          /\ Timestamp(row.event) \in Nat \cup {None}
  BY <1>1, DatabasesAssumption
<1> QED BY <1>2, <1>3, <1>4 DEF OpeningInit, OpenInv, Working

(* How a step may touch the database.                                       *)
LEMMA OpeningStep ==
  ASSUME OpenInv, [OpeningNext]_openingVars
  PROVE  \/ \E policy \in {AutoPolicy, None} : Initialize(policy)
         \/ UNCHANGED <<schema, clock, lastRun, events, next>>
         \/ Tick /\ UNCHANGED schema
         \/ /\ schema = CurrentSchema /\ UNCHANGED <<schema, clock, lastRun>>
            /\ \E p \in Procs : /\ request[p] \in Requests /\ RowsOf(request[p].id) = {}
                                /\ Insert(p, request[p])
         \/ /\ schema = CurrentSchema /\ UNCHANGED <<schema, clock, lastRun>>
            /\ \E policy \in ManualPolicies : ApplyRetention(events, policy)
<1> USE DEF tables
<1>1. ASSUME NEW p \in Procs, OpenStore(p) PROVE Initialize(AutoPolicy)
  BY <1>1 DEF OpenStore
<1>2. ASSUME Inspect PROVE Initialize(None)
  BY <1>2 DEF Inspect
<1>3. ASSUME NEW p \in Procs, Step(p), UNCHANGED schema
      PROVE  \/ UNCHANGED <<schema, clock, lastRun, events, next>>
             \/ /\ schema = CurrentSchema /\ UNCHANGED <<schema, clock, lastRun>>
                /\ request[p] \in Requests /\ RowsOf(request[p].id) = {} /\ Insert(p, request[p])
  <2>1. ASSUME Lookup(p) \/ Fetch(p) \/ Load(p) \/ Record(p)
        PROVE  UNCHANGED <<clock, lastRun, events, next>>
    BY <2>1 DEF Lookup, Fetch, Load, Record, Lose, Mismatch, Yield, Commit, StoreResult
  <2>2. ASSUME Prepare(p)
        PROVE  \/ UNCHANGED <<clock, lastRun, events, next>>
               \/ /\ schema = CurrentSchema /\ UNCHANGED <<clock, lastRun>>
                  /\ request[p] \in Requests /\ RowsOf(request[p].id) = {}
                  /\ Insert(p, request[p])
    BY <2>2 DEF Prepare, Refuse, Reuse, OpenInv, Working
  <2> QED BY <1>3, <2>1, <2>2 DEF Step
<1>4. ASSUME NEW p \in Procs, Close(p) \/ Crash(p) \/ StoreFailure(p), UNCHANGED schema
      PROVE  UNCHANGED <<schema, clock, lastRun, events, next>>
  BY <1>4 DEF Close, Crash, StoreFailure
<1>5. ASSUME NEW p \in Procs, NEW r \in Requests, Begin(p, r), UNCHANGED schema
      PROVE  UNCHANGED <<schema, clock, lastRun, events, next>>
  BY <1>5 DEF Begin
<1>6. ASSUME NEW policy \in ManualPolicies, Prune(policy)
      PROVE  ApplyRetention(events, policy) /\ UNCHANGED <<clock, lastRun>>
  BY <1>6 DEF Prune
<1>7. CASE UNCHANGED openingVars
  BY <1>7 DEF openingVars, vars
<1>8. CASE OpeningNext
  BY <1>1, <1>2, <1>3, <1>4, <1>5, <1>6, <1>8 DEF OpeningNext, OnceOpened
<1> QED BY <1>7, <1>8

(* A process works only on a database that has the current schema.          *)
LEMMA NextCalls ==
  ASSUME OpenInv, [OpeningNext]_openingVars
  PROVE  /\ pc' \in [Procs -> {"closed", "open"} \cup Working \cup Failed]
         /\ request' \in [Procs -> Requests \cup {None}]
         /\ \A p \in Procs : pc'[p] \in Working => request'[p] \in Requests
         /\ schema' # CurrentSchema => \A p \in Procs : pc'[p] = "closed"
<1> USE DEF OpenInv, Working, Failed
<1> DEFINE Goal == /\ pc' \in [Procs -> {"closed", "open"} \cup Working \cup Failed]
                   /\ request' \in [Procs -> Requests \cup {None}]
                   /\ \A p \in Procs : pc'[p] \in Working => request'[p] \in Requests
                   /\ schema' # CurrentSchema => \A p \in Procs : pc'[p] = "closed"
<1>1. ASSUME NEW p \in Procs, OpenStore(p) PROVE Goal
  BY <1>1 DEF OpenStore, Initialize, locals
<1>2. ASSUME Inspect PROVE Goal
  BY <1>2 DEF Inspect, Initialize, locals
<1>3. ASSUME NEW p \in Procs, Lookup(p) \/ Fetch(p) \/ Load(p), UNCHANGED schema PROVE Goal
  BY <1>3 DEF Lookup, Fetch, Load, Answer, Leave
<1>4. ASSUME NEW p \in Procs, Prepare(p), UNCHANGED schema PROVE Goal
  <2>1. CASE Insert(p, request[p])
    BY <1>4, <2>1 DEF Prepare, Insert
  <2>2. CASE Refuse(p, request[p])
    BY <1>4, <2>2 DEF Prepare, Refuse, Leave
  <2>3. CASE Reuse(p, request[p])
    BY <1>4, <2>3 DEF Prepare, Reuse, RowsOf, Leave
  <2> QED BY <1>4, <2>1, <2>2, <2>3 DEF Prepare
<1>5. ASSUME NEW p \in Procs, Record(p), UNCHANGED schema PROVE Goal
  BY <1>5 DEF Record, Lose, Mismatch, Yield, Commit, Answer, Leave
<1>6. ASSUME NEW p \in Procs, Close(p) \/ Crash(p) \/ StoreFailure(p), UNCHANGED schema PROVE Goal
  BY <1>6 DEF Close, Crash, StoreFailure, Leave, locals
<1>7. ASSUME NEW p \in Procs, NEW r \in Requests, Begin(p, r), UNCHANGED schema PROVE Goal
  BY <1>7 DEF Begin
<1>8. ASSUME (\E policy \in ManualPolicies : Prune(policy)) \/ Tick, UNCHANGED schema PROVE Goal
  BY <1>8 DEF Prune, Tick, locals
<1>9. CASE UNCHANGED openingVars
  BY <1>9 DEF openingVars, vars, locals
<1> QED
  BY <1>1, <1>2, <1>3, <1>4, <1>5, <1>6, <1>7, <1>8, <1>9 DEF OpeningNext, OnceOpened, Step

-----------------------------------------------------------------------------
(* Migration *)

(* A migrated row is the same event, with its age where it had none.        *)
LEMMA MigratedIs ==
  ASSUME OpenInv, NEW row \in events
  PROVE  /\ MigratedRow(row) = [event |-> row.event, stored_at |-> Since(row)]
         /\ Since(row) \in Nat
BY BoundsAssumption DEF OpenInv, Table, MigratedRow, Since

\* A migration keeps every row's event and numbers.
LEMMA MigrationKeepsTable ==
  ASSUME OpenInv
  PROVE  /\ Table(MigratedRows, next)
         /\ \A m \in MigratedRows : \E row \in events :
              m = MigratedRow(row) /\ m.event = row.event /\ m.stored_at = Since(row)
<1>1. \A m \in MigratedRows : \E row \in events :
        m = MigratedRow(row) /\ m.event = row.event /\ m.stored_at = Since(row)
  BY MigratedIs DEF MigratedRows
<1>2. IsFiniteSet(MigratedRows)
  <2> DEFINE f == [row \in events |-> MigratedRow(row)]
  <2>1. f \in Surjection(events, MigratedRows)
    BY DEF Surjection, MigratedRows
  <2>2. IsFiniteSet(events)
    BY DEF OpenInv, Table
  <2> HIDE DEF f
  <2> QED BY <2>1, <2>2, FS_Surjection
<1>3. ASSUME NEW m \in MigratedRows
      PROVE  /\ m = [event |-> m.event, stored_at |-> m.stored_at]
             /\ m.event.session \in Sessions /\ m.stored_at \in Nat
             /\ m.event.sequence \in Nat /\ m.event.sequence < next[m.event.session]
  <2>1. PICK row \in events :
          m = MigratedRow(row) /\ m.event = row.event /\ m.stored_at = Since(row)
    BY <1>1
  <2> QED BY <2>1, MigratedIs DEF OpenInv, Table
<1>4. ASSUME NEW x \in MigratedRows, NEW y \in MigratedRows,
             x.event.id = y.event.id \/ (SameSession(x, y) /\ x.event.sequence = y.event.sequence)
      PROVE  x = y
  <2>1. PICK v \in events : x = MigratedRow(v) /\ x.event = v.event BY <1>1
  <2>2. PICK w \in events : y = MigratedRow(w) /\ y.event = w.event BY <1>1
  <2>3. v = w
    BY <1>4, <2>1, <2>2 DEF OpenInv, Table, SameSession
  <2> QED BY <2>1, <2>2, <2>3
<1>5. next \in [Sessions -> Nat]
  BY DEF OpenInv, Table
<1> QED BY <1>1, <1>2, <1>3, <1>4, <1>5 DEF Table

\* A retention deletes what is expired and nothing else.
LEMMA RetentionKeepsTable ==
  ASSUME NEW rows, Table(rows, next), NEW policy, ApplyRetention(rows, policy)
  PROVE  Table(events', next') /\ events' \subseteq rows \ Expired(rows, policy)
<1>1. events' \subseteq rows \ Expired(rows, policy) /\ IsFiniteSet(events')
  BY FS_Subset DEF ApplyRetention, Table
<1>2. \A x \in events' : next'[x.event.session] = next[x.event.session]
  BY <1>1 DEF ApplyRetention, Table
<1>3. next' \in [Sessions -> Nat]
  BY DEF ApplyRetention, Table
<1> QED BY <1>1, <1>2, <1>3 DEF Table

\* An insert adds one row with the next number.
LEMMA InsertKeepsTable ==
  ASSUME OpenInv, NEW p \in Procs, request[p] \in Requests, RowsOf(request[p].id) = {},
         Insert(p, request[p])
  PROVE  /\ Table(events', next')
         /\ events' = events \cup {[event |-> NewEvent(request[p]), stored_at |-> clock]}
         /\ NewEvent(request[p]).session = request[p].session
         /\ request[p].session \in Sessions
<1> DEFINE e == NewEvent(request[p])
           new == [event |-> e, stored_at |-> clock]
<1>1. /\ e.session = request[p].session /\ e.id = request[p].id /\ e.session \in Sessions
      /\ e.sequence \in Nat
  BY RequestsAssumption DEF NewEvent, OpenInv, Table
<1>2. events' = events \cup {new} /\ next' = Advance(e.session, e.sequence)
  BY <1>1 DEF Insert
<1>3. /\ next' \in [Sessions -> Nat] /\ next'[e.session] > e.sequence
      /\ \A s \in Sessions : next'[s] >= next[s]
  <2> HIDE DEF e
  <2>1. next \in [Sessions -> Nat]
    BY DEF OpenInv, Table
  <2>2. /\ next' \in [Sessions -> Nat] /\ next'[e.session] > e.sequence
        /\ next'[e.session] >= next[e.session]
        /\ \A s \in Sessions \ {e.session} : next'[s] = next[s]
    BY <1>1, <1>2, <2>1, AdvanceType
  <2> QED BY <2>1, <2>2
<1>4. \A row \in events : row.event.id # e.id
  BY <1>1 DEF RowsOf
<1>5. \A row \in events : ~(row.event.session = e.session /\ row.event.sequence = e.sequence)
  BY DEF Insert, Taken
<1>6. IsFiniteSet(events')
  BY <1>2, FS_AddElement DEF OpenInv, Table
<1>7. new = [event |-> new.event, stored_at |-> new.stored_at] /\ new.event = e /\ new.stored_at = clock
  OBVIOUS
<1>8. \A row \in events' : row \in events \/ row = new
  BY <1>2
<1> HIDE DEF e, new
<1>9. ASSUME NEW row \in events'
      PROVE  /\ row = [event |-> row.event, stored_at |-> row.stored_at]
             /\ row.event.session \in Sessions /\ row.stored_at \in Nat
             /\ row.event.sequence \in Nat /\ row.event.sequence < next'[row.event.session]
  <2>1. CASE row = new
    BY <1>1, <1>3, <1>7, <2>1 DEF OpenInv
  <2>2. CASE row \in events
    <3>1. /\ row.event.session \in Sessions /\ row.event.sequence \in Nat
          /\ row.event.sequence < next[row.event.session]
          /\ next[row.event.session] \in Nat /\ next'[row.event.session] \in Nat
      BY <1>3, <2>2 DEF OpenInv, Table
    <3> QED BY <1>3, <2>2, <3>1 DEF OpenInv, Table
  <2> QED BY <1>8, <2>1, <2>2
<1>10. \A x, y \in events' :
         x.event.id = y.event.id \/ (SameSession(x, y) /\ x.event.sequence = y.event.sequence)
           => x = y
  BY <1>4, <1>5, <1>7, <1>8 DEF OpenInv, Table, SameSession
<1> QED BY <1>1, <1>2, <1>3, <1>6, <1>9, <1>10 DEF Table, e, new

\* The invariant is inductive.
LEMMA NextOpen == OpenInv /\ [OpeningNext]_openingVars => OpenInv'
<1> SUFFICES ASSUME OpenInv, [OpeningNext]_openingVars PROVE OpenInv'
  OBVIOUS
<1> DEFINE Database == /\ schema' \in Nat /\ clock' \in Nat /\ lastRun' \in {None} \cup 0..clock'
                       /\ Table(events', next')
                       /\ schema' = 1 => /\ lastRun' = None
                                         /\ \A row \in events' : /\ row.stored_at = 0
                                                                 /\ Timestamp(row.event) \in Nat \cup {None}
<1>1. ASSUME NEW policy \in {AutoPolicy, None}, Initialize(policy) PROVE Database
  <2>1. schema' = 3 /\ clock' = clock
    BY <1>1 DEF Initialize, CurrentSchema
  <2>2. Table(events', next')
    BY <1>1, MigrationKeepsTable, RetentionKeepsTable DEF Initialize
  <2>3. lastRun' \in {None} \cup 0..clock'
    BY <1>1, <2>1 DEF Initialize, OpenInv
  <2> QED BY <2>1, <2>2, <2>3 DEF OpenInv
<1>2. ASSUME UNCHANGED <<schema, clock, lastRun, events, next>> PROVE Database
  BY <1>2 DEF OpenInv
<1>3. ASSUME Tick, UNCHANGED schema PROVE Database
  BY <1>3 DEF Tick, OpenInv, tables
<1>4. ASSUME schema = CurrentSchema, UNCHANGED <<schema, clock, lastRun>>,
             NEW p \in Procs, request[p] \in Requests, RowsOf(request[p].id) = {},
             Insert(p, request[p])
      PROVE  Database
  BY <1>4, InsertKeepsTable DEF OpenInv, CurrentSchema
<1>5. ASSUME schema = CurrentSchema, UNCHANGED <<schema, clock, lastRun>>,
             NEW policy \in ManualPolicies, ApplyRetention(events, policy)
      PROVE  Database
  BY <1>5, RetentionKeepsTable DEF OpenInv, CurrentSchema
<1>6. Database
  BY <1>1, <1>2, <1>3, <1>4, <1>5, OpeningStep
<1> QED BY <1>6, NextCalls DEF OpenInv

-----------------------------------------------------------------------------
(* The newest events of every session, without a hole                       *)

\* Callers leave the sequence to the store.
StoreNumbered == \A r \in Requests : r.sequence = None

\* Events of schema 1 carry times in the order in which they were logged; an
\* unreadable one has only such after it, since the migration makes it new.
DatedInOrder(rows, now) ==
  /\ \A row \in rows : Timestamp(row.event) \in {None} \cup 0..now
  /\ \A x, y \in rows : Before(x, y) =>
       \/ Timestamp(y.event) = None
       \/ Timestamp(x.event) # None /\ Timestamp(x.event) <= Timestamp(y.event)

StoredInOrder(rows, now) == InAgeOrder(rows) /\ \A row \in rows : row.stored_at <= now

\* What a database must be like for retention by age not to tear holes into it.
OrderlyDatabases ==
  \A db \in Databases :
    /\ Unbroken(db.events, db.next)
    /\ IF db.schema = 1 THEN DatedInOrder(db.events, StartClock)
                        ELSE StoredInOrder(db.events, StartClock)

RunsInv ==
  /\ Unbroken(events, next)
  /\ IF schema = 1 THEN DatedInOrder(events, clock) ELSE StoredInOrder(events, clock)

\* The rows that were found are unbroken and in order.
LEMMA InitRuns == OrderlyDatabases /\ OpeningInit => RunsInv
BY DEF OrderlyDatabases, OpeningInit, RunsInv

(* The times the migration fills in are in the order of the sequences.      *)
LEMMA MigrationKeepsRuns ==
  ASSUME OpenInv, RunsInv
  PROVE  Unbroken(MigratedRows, next) /\ StoredInOrder(MigratedRows, clock)
<1>1. \A m \in MigratedRows : \E row \in events :
        m = MigratedRow(row) /\ m.event = row.event /\ m.stored_at = Since(row)
  BY MigrationKeepsTable
<1>2. \A row \in events : MigratedRow(row) \in MigratedRows /\ MigratedRow(row).event = row.event
  BY MigratedIs DEF MigratedRows
<1>3. Unbroken(MigratedRows, next)
  <2> SUFFICES ASSUME NEW m \in MigratedRows,
                      NEW i \in m.event.sequence..(next[m.event.session] - 1)
               PROVE  \E n \in MigratedRows : SameSession(m, n) /\ n.event.sequence = i
    BY DEF Unbroken
  <2>1. PICK x \in events : m.event = x.event
    BY <1>1
  <2>2. PICK y \in events : SameSession(x, y) /\ y.event.sequence = i
    BY <2>1 DEF RunsInv, Unbroken
  <2> QED BY <1>2, <2>1, <2>2 DEF SameSession
<1>4. ASSUME NEW x \in events PROVE Since(x) \in Nat /\ Since(x) <= clock
  BY BoundsAssumption, MigratedIs DEF OpenInv, RunsInv, Since, DatedInOrder, StoredInOrder
<1>5. ASSUME NEW x \in events, NEW y \in events, Before(x, y)
      PROVE  Since(x) <= Since(y)
  <2>1. CASE schema = 1
    <3>1. \/ Timestamp(y.event) = None
          \/ Timestamp(x.event) # None /\ Timestamp(x.event) <= Timestamp(y.event)
      BY <1>5, <2>1 DEF RunsInv, DatedInOrder
    <3>2. CASE Timestamp(y.event) = None
      BY <1>4, <2>1, <3>2 DEF Since
    <3>3. CASE Timestamp(y.event) # None
      BY <2>1, <3>1, <3>3 DEF Since
    <3> QED BY <3>2, <3>3
  <2>2. CASE schema # 1
    BY <1>5, <2>2 DEF RunsInv, StoredInOrder, InAgeOrder, Since
  <2> QED BY <2>1, <2>2
<1>6. StoredInOrder(MigratedRows, clock)
  BY <1>1, <1>4, <1>5 DEF StoredInOrder, InAgeOrder, Before, SameSession
<1> QED BY <1>3, <1>6

\* Rows stay unbroken and stored in the order of their numbers.
LEMMA NextRuns ==
  ASSUME StoreNumbered, OpenInv, RunsInv, [OpeningNext]_openingVars
  PROVE  RunsInv'
<1>1. ASSUME NEW policy \in {AutoPolicy, None}, Initialize(policy) PROVE RunsInv'
  <2>1. schema' # 1 /\ clock' = clock
    BY <1>1 DEF Initialize, CurrentSchema
  <2>2. Table(MigratedRows, next) /\ Unbroken(MigratedRows, next) /\ StoredInOrder(MigratedRows, clock)
    BY MigrationKeepsTable, MigrationKeepsRuns
  <2>3. CASE events' = MigratedRows /\ next' = next
    BY <2>1, <2>2, <2>3 DEF RunsInv
  <2>4. CASE policy # None /\ ApplyRetention(MigratedRows, policy)
    <3>1. Policy(policy)
      BY <2>4, PoliciesAssumption DEF Policy
    <3>2. Unbroken(events', next') /\ InAgeOrder(events') /\ events' \subseteq MigratedRows
      BY <2>2, <2>4, <3>1, RetentionKeepsRuns DEF OpenInv, StoredInOrder
    <3> QED BY <2>1, <2>2, <3>2 DEF RunsInv, StoredInOrder
  <2> QED BY <1>1, <2>3, <2>4 DEF Initialize
<1>2. ASSUME UNCHANGED <<schema, clock, lastRun, events, next>> PROVE RunsInv'
  BY <1>2 DEF RunsInv
<1>3. ASSUME Tick, UNCHANGED schema PROVE RunsInv'
  <2>1. events' = events /\ next' = next /\ clock' = clock + 1
    BY <1>3 DEF Tick, tables
  <2>2. DatedInOrder(events, clock) => DatedInOrder(events, clock')
    BY <2>1 DEF DatedInOrder, OpenInv
  <2>3. StoredInOrder(events, clock) => StoredInOrder(events, clock')
    BY <2>1 DEF StoredInOrder, OpenInv, Table
  <2> QED BY <1>3, <2>1, <2>2, <2>3 DEF RunsInv
<1>4. ASSUME schema = CurrentSchema, UNCHANGED <<schema, clock, lastRun>>,
             NEW p \in Procs, request[p] \in Requests, RowsOf(request[p].id) = {},
             Insert(p, request[p])
      PROVE  RunsInv'
  <2> DEFINE e == NewEvent(request[p])
             new == [event |-> e, stored_at |-> clock]
  <2>1. events' = events \cup {new} /\ e.session = request[p].session /\ e.session \in Sessions
    BY <1>4, InsertKeepsTable
  <2>2. e.sequence = next[e.session] /\ next[e.session] \in Nat
    BY <1>4, <2>1 DEF NewEvent, StoreNumbered, OpenInv, Table
  <2>3. next' = [next EXCEPT ![e.session] = next[e.session] + 1]
    <3>1. ASSUME NEW n \in Nat PROVE Max({n, n + 1}) = n + 1
      <4>1. Max({n, n + 1}) \in {n, n + 1} /\ \A y \in {n, n + 1} : Max({n, n + 1}) >= y
        <5>1. \A y \in {n, n + 1} : n + 1 >= y
          OBVIOUS
        <5> QED BY <5>1 DEF Max
      <4> QED BY <4>1
    <3> QED BY <1>4, <2>1, <2>2, <3>1 DEF Insert, Advance
  <2>4. \A x \in events : /\ x.event.sequence \in Nat /\ x.event.session \in Sessions
                          /\ x.event.sequence < next[x.event.session]
                          /\ next[x.event.session] \in Nat /\ x.stored_at \in Nat
    BY DEF OpenInv, Table
  <2>5. new.event = e /\ new.stored_at = clock
    OBVIOUS
  <2> HIDE DEF e, new
  <2>6. Unbroken(events', next')
    <3> SUFFICES ASSUME NEW x \in events', NEW i \in x.event.sequence..(next'[x.event.session] - 1)
                 PROVE  \E y \in events' : SameSession(x, y) /\ y.event.sequence = i
      BY DEF Unbroken
    <3>1. x.event.session \in Sessions /\ x.event.sequence \in Nat
      BY <2>1, <2>2, <2>4, <2>5
    <3>2. CASE x.event.session = e.session /\ i = next[e.session]
      BY <2>1, <2>2, <2>5, <3>2 DEF SameSession
    <3>3. CASE ~(x.event.session = e.session /\ i = next[e.session])
      <4>1. x \in events /\ i \in x.event.sequence..(next[x.event.session] - 1)
        BY <2>1, <2>2, <2>3, <2>4, <2>5, <3>1, <3>3 DEF OpenInv, Table
      <4> QED BY <2>1, <4>1 DEF RunsInv, Unbroken
    <3> QED BY <3>2, <3>3
  <2>7. StoredInOrder(events', clock')
    <3>1. StoredInOrder(events, clock)
      BY <1>4 DEF RunsInv, CurrentSchema
    <3>2. \A x \in events : ~Before(new, x)
      BY <2>2, <2>4, <2>5 DEF Before, SameSession
    <3>3. clock' = clock /\ clock \in Nat /\ ~Before(new, new)
      BY <1>4, <2>2, <2>5 DEF OpenInv, Before
    <3> QED BY <2>1, <2>4, <2>5, <3>1, <3>2, <3>3 DEF StoredInOrder, InAgeOrder
  <2> QED BY <1>4, <2>6, <2>7 DEF RunsInv, CurrentSchema
<1>5. ASSUME schema = CurrentSchema, UNCHANGED <<schema, clock, lastRun>>,
             NEW policy \in ManualPolicies, ApplyRetention(events, policy)
      PROVE  RunsInv'
  <2>1. /\ Unbroken(events', next') /\ InAgeOrder(events') /\ events' \subseteq events
    BY <1>5, PoliciesAssumption, RetentionKeepsRuns
       DEF OpenInv, RunsInv, StoredInOrder, CurrentSchema, Policy
  <2> QED BY <1>5, <2>1 DEF RunsInv, StoredInOrder, CurrentSchema
<1> QED BY <1>1, <1>2, <1>3, <1>4, <1>5, OpeningStep

(* Whatever a retention by age and count deletes, when processes, prunings  *)
(* and crashes interleave and whichever schema was found, every session     *)
(* keeps its newest events without a hole.                                  *)
THEOREM NewestAreKept ==
  ASSUME StoreNumbered, OrderlyDatabases PROVE OpeningSpec => []SuffixKept
<1> DEFINE Inv == OpenInv /\ RunsInv
<1>1. OpeningInit => Inv
  BY OrderlyDatabases, InitOpen, InitRuns
<1>2. Inv /\ [OpeningNext]_openingVars => Inv'
  BY StoreNumbered, NextOpen, NextRuns
<1>3. Inv => SuffixKept
  <2> SUFFICES ASSUME Inv, NEW s \in Sessions,
                      NEW x \in events, x.event.session = s,
                      NEW i \in x.event.sequence..(next[s] - 1)
               PROVE  \E y \in {q \in events : q.event.session = s} : y.event.sequence = i
    BY DEF SuffixKept
  <2> QED BY DEF RunsInv, Unbroken, SameSession
<1> QED BY <1>1, <1>2, <1>3, PTL DEF OpeningSpec

-----------------------------------------------------------------------------
(* The mark and the deletion are one                                        *)

\* A mark that was found was set by a retention under the same policy.
MarksWerePruned ==
  \A db \in Databases : db.lastRun # None /\ AutoPolicy.max_age # None =>
    \A row \in db.events : row.stored_at >= db.lastRun - AutoPolicy.max_age

(* Under an automatic retention, a mark for a time never stands beside an   *)
(* event that was too old at that time, whoever opened, migrated, pruned or *)
(* was killed in between.                                                   *)
THEOREM MarkedIsPruned ==
  ASSUME AutoPolicy # None, MarksWerePruned PROVE OpeningSpec => []MarkMeansPruned
<1> DEFINE Inv == OpenInv /\ MarkMeansPruned
<1>1. OpeningInit => Inv
  BY MarksWerePruned, InitOpen DEF MarksWerePruned, OpeningInit, MarkMeansPruned
<1>2. ASSUME Inv, [OpeningNext]_openingVars PROVE MarkMeansPruned'
  <2> SUFFICES ASSUME lastRun' # None, AutoPolicy.max_age # None, NEW row \in events'
               PROVE  row.stored_at >= lastRun' - AutoPolicy.max_age
    BY DEF MarkMeansPruned
  <2>1. AutoPolicy.max_age \in Nat
    BY PoliciesAssumption, AutoPolicy # None
  <2>2. ASSUME NEW policy \in {AutoPolicy, None}, Initialize(policy)
        PROVE  row.stored_at >= lastRun' - AutoPolicy.max_age
    <3>1. Table(MigratedRows, next)
      BY <1>2, MigrationKeepsTable
    <3>2. CASE policy # None /\ Due
      <4>1. policy = AutoPolicy /\ ApplyRetention(MigratedRows, policy) /\ lastRun' = clock
        BY <2>2, <3>2 DEF Initialize
      <4>2. row \in MigratedRows \ Expired(MigratedRows, AutoPolicy)
        BY <3>1, <4>1, RetentionKeepsTable
      <4>3. row.stored_at \in Nat /\ clock \in Nat
        BY <1>2, <3>1, <4>2 DEF OpenInv, Table
      <4> QED BY <2>1, <4>1, <4>2, <4>3 DEF Expired
    <3>3. CASE ~(policy # None /\ Due)
      <4>1. lastRun' = lastRun /\ events' = MigratedRows
        BY <2>2, <3>3 DEF Initialize
      <4>2. PICK old \in events : row = MigratedRow(old)
        BY <4>1 DEF MigratedRows
      <4>3. row = old
        BY <1>2, <4>1, <4>2 DEF OpenInv, MigratedRow
      <4> QED BY <1>2, <4>1, <4>3 DEF MarkMeansPruned
    <3> QED BY <3>2, <3>3
  <2>3. ASSUME lastRun' = lastRun, events' \subseteq events
        PROVE  row.stored_at >= lastRun' - AutoPolicy.max_age
    BY <1>2, <2>3 DEF MarkMeansPruned
  <2>4. ASSUME UNCHANGED <<clock, lastRun>>, NEW p \in Procs, request[p] \in Requests,
               RowsOf(request[p].id) = {}, Insert(p, request[p])
        PROVE  row.stored_at >= lastRun' - AutoPolicy.max_age
    <3>1. row \in events \/ row.stored_at = clock
      BY <1>2, <2>4, InsertKeepsTable
    <3> QED BY <1>2, <2>1, <2>4, <3>1 DEF MarkMeansPruned, OpenInv
  <2>5. ASSUME NEW policy \in ManualPolicies, ApplyRetention(events, policy)
        PROVE  events' \subseteq events
    BY <1>2, <2>5, RetentionKeepsTable DEF OpenInv
  <2>6. ASSUME Tick PROVE lastRun' = lastRun /\ events' = events
    BY <2>6 DEF Tick, tables
  <2> QED BY <1>2, <2>2, <2>3, <2>4, <2>5, <2>6, OpeningStep
<1>3. Inv /\ [OpeningNext]_openingVars => Inv'
  BY <1>2, NextOpen
<1> QED BY <1>1, <1>3, PTL DEF OpeningSpec

-----------------------------------------------------------------------------
(* Migration and retention in one transaction                               *)

(* A row the retention may not take is not in excess once it is migrated:   *)
(* the migration makes no event and moves none.                             *)
LEMMA MigratedNotInExcess ==
  ASSUME OpenInv, Policy(AutoPolicy), NEW row \in events, row \notin Excess(events, AutoPolicy)
  PROVE  MigratedRow(row) \notin Excess(MigratedRows, AutoPolicy)
<1> DEFINE High(rows) == {q \in rows : /\ q.event.session = row.event.session
                                       /\ q.event.sequence > row.event.sequence}
           f == [q \in High(events) |-> MigratedRow(q)]
<1>1. \A q \in events : MigratedRow(q).event = q.event /\ MigratedRow(q) \in MigratedRows
  BY MigratedIs DEF MigratedRows
<1>2. f \in Surjection(High(events), High(MigratedRows))
  BY <1>1 DEF Surjection, MigratedRows
<1>3. IsFiniteSet(High(events))
  BY FS_Subset DEF OpenInv, Table
<1>4. /\ Cardinality(High(MigratedRows)) <= Cardinality(High(events))
      /\ Cardinality(High(MigratedRows)) \in Nat /\ Cardinality(High(events)) \in Nat
  <2> HIDE DEF f, High
  <2>1. /\ IsFiniteSet(High(MigratedRows))
        /\ Cardinality(High(MigratedRows)) <= Cardinality(High(events))
    BY <1>2, <1>3, FS_Surjection
  <2> QED BY <1>3, <2>1, FS_CardinalityType
<1>5. CASE AutoPolicy.max_events = None
  BY <1>5 DEF Excess
<1>6. CASE AutoPolicy.max_events # None
  <2>1. AutoPolicy.max_events \in Nat /\ ~(Cardinality(High(events)) >= AutoPolicy.max_events)
    BY <1>6 DEF Policy, Excess
  <2>2. ~(Cardinality(High(MigratedRows)) >= AutoPolicy.max_events)
    <3> HIDE DEF High
    <3> QED BY <1>4, <2>1
  <2>3. High(MigratedRows) = {q \in MigratedRows :
                                /\ q.event.session = MigratedRow(row).event.session
                                /\ q.event.sequence > MigratedRow(row).event.sequence}
    BY <1>1
  <2> QED BY <2>2, <2>3 DEF Excess
<1> QED BY <1>5, <1>6

(* Opening an older schema keeps every event a retention may not take, with *)
(* its verdict, its place and its age, for all databases and policies.      *)
THEOREM OpeningLosesNothing ==
  OpeningSpec => MigrationLosesNothing
<1>1. ASSUME OpenInv, [OpeningNext]_openingVars, schema' # schema
      PROVE  /\ schema < schema'
             /\ \A row \in {q \in events : Bounded(q)} :
                  /\ [event |-> row.event, stored_at |-> Since(row)] \in events'
                  /\ {d \in decisions : d.id = row.event.id} \subseteq decisions'
                  /\ next'[row.event.session] = next[row.event.session]
  <2>1. PICK policy \in {AutoPolicy, None} : Initialize(policy)
    BY <1>1, OpeningStep DEF Tick, vars
  <2>2. schema < schema'
    BY <1>1, <2>1 DEF Initialize, CurrentSchema, OpenInv
  <2>3. ASSUME NEW row \in events, Bounded(row)
        PROVE  /\ MigratedRow(row) \in events'
               /\ {d \in decisions : d.id = row.event.id} \subseteq decisions'
               /\ next'[row.event.session] = next[row.event.session]
    <3>1. MigratedRow(row) \in MigratedRows
      BY DEF MigratedRows
    <3>2. CASE ~(policy # None /\ Due)
      BY <2>1, <3>1, <3>2 DEF Initialize
    <3>3. CASE policy # None /\ Due
      <4>1. policy = AutoPolicy /\ ApplyRetention(MigratedRows, AutoPolicy) /\ Policy(AutoPolicy)
        BY <2>1, <3>3, PoliciesAssumption DEF Initialize, Policy
      <4>2. MigratedRow(row).event = row.event /\ MigratedRow(row).stored_at = Since(row)
        BY <1>1, MigratedIs
      <4>3. MigratedRow(row) \notin Expired(MigratedRows, AutoPolicy)
        BY <1>1, <2>3, <4>1, <4>2, MigratedIs DEF Expired, Bounded, Policy, OpenInv
      <4>4. MigratedRow(row) \notin Excess(MigratedRows, AutoPolicy)
        BY <1>1, <2>3, <4>1, MigratedNotInExcess DEF Bounded
      <4>5. MigratedRow(row) \in events'
        BY <3>1, <4>1, <4>3, <4>4 DEF ApplyRetention
      <4>6. row.event.session \in Sessions
        BY <1>1 DEF OpenInv, Table
      <4> QED BY <4>1, <4>2, <4>5, <4>6 DEF ApplyRetention
    <3> QED BY <3>2, <3>3
  <2> QED BY <1>1, <2>2, <2>3, MigratedIs
<1>2. OpeningSpec => []OpenInv
  BY InitOpen, NextOpen, PTL DEF OpeningSpec
<1>3. OpenInv /\ [OpeningNext]_openingVars
        => [schema' # schema =>
              /\ schema < schema'
              /\ \A row \in {q \in events : Bounded(q)} :
                   /\ [event |-> row.event, stored_at |-> Since(row)] \in events'
                   /\ {d \in decisions : d.id = row.event.id} \subseteq decisions'
                   /\ next'[row.event.session] = next[row.event.session]]_openingVars
  BY <1>1
<1> QED BY <1>2, <1>3, PTL DEF OpeningSpec, MigrationLosesNothing


-----------------------------------------------------------------------------
(* Replay: positions in a list and sequences in a log                       *)

(* A set that a function maps one to one onto an interval is as large.      *)
LEMMA CountPositions ==
  ASSUME NEW S, NEW f, NEW a \in Int, NEW b \in Int,
         \A j \in S : f[j] \in a..b,
         \A j, k \in S : f[j] = f[k] => j = k,
         \A q \in a..b : \E j \in S : f[j] = q
  PROVE  Cardinality(S) = IF a > b THEN 0 ELSE b - a + 1
<1> DEFINE g == [j \in S |-> f[j]]
<1>1. IsFiniteSet(a..b) /\ Cardinality(a..b) = IF a > b THEN 0 ELSE b - a + 1
  BY FS_Interval
<1>2. g \in Injection(S, a..b) /\ g \in Surjection(S, a..b)
  BY DEF Injection, IsInjective, Surjection
<1> HIDE DEF g
<1>3. Cardinality(S) = Cardinality(a..b)
  BY <1>1, <1>2, FS_Injection
<1> QED BY <1>1, <1>3

\* Before entry i stand the events of its session from number d on, in order.
InPlace(list, i, d) ==
  /\ \A j \in Earlier(list, i) : list[j].event.sequence \in d..(list[i].event.sequence - 1)
  /\ \A j, k \in Earlier(list, i) : j < k => list[j].event.sequence < list[k].event.sequence
  /\ \A q \in d..(list[i].event.sequence - 1) :
       \E j \in Earlier(list, i) : list[j].event.sequence = q

(* If the events of a session are in place before entry i, back to its first*)
(* event or over a whole window, its deque holds what the store would load. *)
LEMMA RecalledInPlace ==
  ASSUME TablesInv, Numbered, NEW list, NEW i \in Nat \ {0}, NEW d \in Nat,
         \A j \in 1..i : \E row \in events : row.event = list[j].event,
         InPlace(list, i, d),
         d = 0 \/ d + HistoryLimit <= list[i].event.sequence
  PROVE  Recalled(list, i) = LoadHistory(events, list[i].event)
<1> DEFINE e == list[i].event
           s == e.session
           L == LogOfTables[s]
           E == Earlier(list, i)
           kept == Remembered(list, i)
           After(j) == {k \in E : k > j}
           Under(j) == {k \in kept : k < j}
<1>1. \A j \in E : j \in 1..(i - 1) /\ list[j].event.session = s
  BY DEF Earlier
<1>2. PICK q \in Nat, H \in Nat \ {0} : q = e.sequence /\ H = HistoryLimit
  BY GuardAssumption DEF TablesInv, TypeOK, StoredEvents
<1>3. PICK lo \in 0..q : /\ lo = IF q - H > 0 THEN q - H ELSE 0
                        /\ lo + 1 = Max({1, q + 1 - H})
  <2>1. Max({1, q + 1 - H}) = IF q + 1 - H > 1 THEN q + 1 - H ELSE 1
    BY GreaterOf
  <2> DEFINE lo == IF q - H > 0 THEN q - H ELSE 0
  <2>2. lo \in 0..q /\ lo + 1 = Max({1, q + 1 - H})
    BY <2>1
  <2> QED BY <2>2
<1>4. d <= lo
  BY <1>2, <1>3
<1>5. LoadHistory(events, e) = SubSeq(L, lo + 1, q)
  <2>1. \E row \in events : row.event = e
    OBVIOUS
  <2> HIDE DEF e
  <2> QED BY <1>2, <1>3, <2>1, LoadedWindow
<1>6. PICK f : f = [j \in E |-> list[j].event.sequence]
  OBVIOUS
<1>7. /\ \A j \in E : f[j] \in d..(q - 1)
      /\ \A j, k \in E : j < k => f[j] < f[k]
      /\ \A r \in d..(q - 1) : \E j \in E : f[j] = r
  BY <1>2, <1>6 DEF InPlace
<1>8. ASSUME NEW j \in E PROVE list[j].event = L[f[j] + 1]
  <2>1. PICK row \in events : row.event = list[j].event
    BY <1>1
  <2>2. LogOfTables[row.event.session][row.event.sequence + 1] = row.event
    BY TablesComplete, LogRead
  <2> QED BY <1>1, <1>6, <2>1, <2>2
<1> HIDE DEF E, L, s, e
<1>9. \A j, k \in E : f[j] = f[k] => j = k
  BY <1>1, <1>7
<1>10. lo \in Int /\ q - 1 \in Int /\ lo <= q /\ d <= lo
  BY <1>3, <1>4
<1>11. ASSUME NEW j \in E PROVE Cardinality(After(j)) = q - 1 - f[j]
  <2>1. PICK a \in Int, b \in Int : a = f[j] + 1 /\ b = q - 1
    BY <1>7
  <2>2. \A k \in After(j) : f[k] \in a..b
    BY <1>7, <2>1
  <2>3. \A k, l \in After(j) : f[k] = f[l] => k = l
    BY <1>9
  <2>4. ASSUME NEW r \in a..b PROVE \E k \in After(j) : f[k] = r
    <3>1. PICK k \in E : f[k] = r
      BY <1>7, <2>1
    <3>2. ~(k < j) /\ k # j
      BY <1>7, <2>1, <3>1
    <3> QED BY <1>1, <3>1, <3>2
  <2> HIDE DEF After
  <2>5. Cardinality(After(j)) = IF a > b THEN 0 ELSE b - a + 1
    BY <2>2, <2>3, <2>4, CountPositions
  <2> QED BY <1>7, <2>1, <2>5
<1>12. \A j : j \in kept <=> j \in E /\ f[j] >= lo
  <2>1. \A j : j \in kept <=> j \in E /\ Cardinality(After(j)) < H
    BY <1>2 DEF Remembered, E
  <2> HIDE DEF kept, After
  <2> QED BY <1>3, <1>7, <1>11, <2>1
<1> HIDE DEF kept
<1>13. Cardinality(kept) = q - lo
  <2> HIDE DEF After, Under
  <2>1. PICK a \in Int, b \in Int : a = lo /\ b = q - 1
    BY <1>10
  <2>2. \A k \in kept : f[k] \in a..b
    BY <1>7, <1>12, <1>10, <2>1
  <2>3. \A k, l \in kept : f[k] = f[l] => k = l
    BY <1>12, <1>9
  <2>4. ASSUME NEW r \in a..b PROVE \E k \in kept : f[k] = r
    BY <1>7, <1>12, <1>10, <2>1
  <2>5. Cardinality(kept) = IF a > b THEN 0 ELSE b - a + 1
    BY <2>2, <2>3, <2>4, CountPositions, Z3T(60)
  <2> QED BY <1>10, <2>1, <2>5
<1>14. ASSUME NEW j \in kept PROVE Cardinality(Under(j)) = f[j] - lo
  <2>1. PICK a \in Int, b \in Int : a = lo /\ b = f[j] - 1
    BY <1>7, <1>12, <1>10
  <2>2. \A k \in Under(j) : f[k] \in a..b
    BY <1>7, <1>12, <1>10, <2>1
  <2>3. \A k, l \in Under(j) : f[k] = f[l] => k = l
    BY <1>12, <1>9
  <2>4. ASSUME NEW r \in a..b PROVE \E k \in Under(j) : f[k] = r
    <3>1. PICK k \in E : f[k] = r
      BY <1>7, <1>12, <1>10, <2>1
    <3>2. ~(j < k) /\ k # j
      BY <1>7, <1>12, <2>1, <3>1
    <3> QED BY <1>1, <1>12, <2>1, <3>1, <3>2
  <2> HIDE DEF Under
  <2>5. Cardinality(Under(j)) = IF a > b THEN 0 ELSE b - a + 1
    BY <2>2, <2>3, <2>4, CountPositions
  <2> QED BY <1>7, <1>12, <1>10, <2>1, <2>5
<1>15. ASSUME NEW n \in 1..(q - lo)
       PROVE  list[CHOOSE j \in kept : Cardinality(Under(j)) = n - 1].event = L[lo + n]
  <2>0. lo + n - 1 \in d..(q - 1) /\ lo + n - 1 >= lo
    BY <1>10
  <2>1. PICK j \in kept : f[j] = lo + n - 1
    BY <1>7, <1>12, <2>0
  <2>2. \A k \in kept : Cardinality(Under(k)) = n - 1 <=> k = j
    <3> HIDE DEF Under
    <3> QED BY <1>1, <1>3, <1>7, <1>12, <1>14, <2>1
  <2> HIDE DEF Under
  <2>3. (CHOOSE k \in kept : Cardinality(Under(k)) = n - 1) = j
    BY <2>2
  <2>4. list[j].event = L[lo + n - 1 + 1] /\ lo + n - 1 + 1 = lo + n
    BY <1>3, <1>8, <1>12, <2>1
  <2> QED BY <2>3, <2>4
<1>16. Recalled(list, i) = [n \in 1..(q - lo) |-> L[lo + n]]
  <2>1. Recalled(list, i) = [n \in 1..(q - lo) |->
          list[CHOOSE j \in kept : Cardinality(Under(j)) = n - 1].event]
    BY <1>13 DEF Recalled, kept
  <2> HIDE DEF Under
  <2> QED BY <1>15, <2>1
<1>17. SubSeq(L, lo + 1, q) = [n \in 1..(q - lo) |-> L[lo + n]]
  <2>1. PICK m \in Int : m = lo + 1
    BY <1>10
  <2>2. SubSeq(L, m, q) = [n \in 1..(q - m + 1) |-> L[m + n - 1]]
    BY <1>10
  <2>3. q - m + 1 = q - lo /\ \A n \in Int : m + n - 1 = lo + n
    BY <1>10, <2>1
  <2> QED BY <2>1, <2>2, <2>3
<1> QED BY <1>5, <1>16, <1>17 DEF e

-----------------------------------------------------------------------------
(* Replay: what an export and the telemetry hold is on record               *)

\* The verdict on record of a stored event.
OnRecord(e, verdict) ==
  /\ \E row \in events : row.event = e
  /\ Judged(e.id)
  /\ verdict = [evidence |-> EvidenceOf(e.id), decision |-> DecisionOf(e.id)]

IsList(list) == Len(list) \in Nat /\ list = [k \in 1..Len(list) |-> list[k]]

Observed ==
  /\ IsList(telemetry) /\ outbox = [p \in Procs |-> outbox[p]]
  /\ \A i \in 1..Len(telemetry) : OnRecord(telemetry[i].event, telemetry[i].expected)
  /\ \A p \in Procs : outbox[p] # None =>
       OnRecord(outbox[p].event,
                [evidence |-> outbox[p].evidence, decision |-> outbox[p].decision])

\* An unbroken run of the session's log, the whole of it if it begins with 0.
Loaded ==
  /\ \A k \in 1..Len(loaded) :
       /\ \E row \in events : row.event = loaded[k]
       /\ loaded[k].session = ExportedSession
       /\ loaded[k].sequence = loaded[1].sequence + k - 1
  /\ Len(loaded) = 0 \/ loaded[1].sequence = 0 => total <= Len(loaded)

HalfRead(k) == step = "evidence" /\ k = Len(cases)

Built ==
  /\ IsList(cases) /\ Len(cases) <= Len(loaded)
  /\ step = "evidence" => Len(cases) # 0
  /\ \A k \in 1..Len(cases) :
       /\ cases[k] = [event |-> loaded[k], expected |-> cases[k].expected]
       /\ HalfRead(k) =>
            /\ Judged(loaded[k].id)
            /\ cases[k].expected = [evidence |-> <<>>, decision |-> DecisionOf(loaded[k].id)]
       /\ ~HalfRead(k) /\ cases[k].expected # None => OnRecord(loaded[k], cases[k].expected)

Reported ==
  report # None =>
    /\ step = "done" /\ Len(cases) = Len(loaded)
    /\ report.truncated <=> total > Len(cases)
    /\ report.first = IF cases = <<>> THEN None ELSE cases[1].event.sequence

ExportInv ==
  /\ step \in {"idle", "load", "decision", "evidence", "done"}
  /\ total \in Nat /\ Len(loaded) \in Nat
  /\ step = "load" => total <= next[ExportedSession]
  /\ step \in {"idle", "load"} => cases = <<>> /\ loaded = <<>>
  /\ step \notin {"idle", "load"} => Loaded
  /\ Built /\ Reported

(* A step of the hook processes or of the export is one of the database or  *)
(* leaves it alone.                                                         *)
LEMMA ReplayStep == [ReplayNext]_replayVars => [Next]_vars
<1> SUFFICES ASSUME [ReplayNext]_replayVars PROVE [Next]_vars
  OBVIOUS
<1>1. ASSUME NEW p \in Procs, HookBegin(p) \/ HookStep(p) \/ HookFails(p) PROVE Next
  BY <1>1 DEF HookBegin, HookStep, HookFails, Next
<1>2. ASSUME (\E p \in Procs : Observe(p)) \/ ExportStep \/ UNCHANGED replayVars
      PROVE  UNCHANGED vars
  BY <1>2 DEF Observe, ExportStep, replayVars
<1> QED BY <1>1, <1>2 DEF ReplayNext

(* A verdict on record is the one its event was judged to deserve.          *)
LEMMA RecordJudges ==
  ASSUME VerdictsFollowPrefix, NEW e, NEW verdict, OnRecord(e, verdict)
  PROVE  verdict = Judge(events, e)
<1>1. PICK row \in events : row.event = e
  BY DEF OnRecord
<1>2. PICK d \in decisions : d.id = e.id /\ d.decision = DecisionOf(e.id)
  BY DEF OnRecord, Judged, DecisionOf
<1>3. Judge(events, row.event) = [evidence |-> EvidenceOf(d.id), decision |-> d.decision]
  BY <1>1, <1>2 DEF VerdictsFollowPrefix, RowsOf
<1> QED BY <1>1, <1>2, <1>3 DEF OnRecord

(* An entry whose predecessors are in place replays to the verdict on       *)
(* record.                                                                  *)
LEMMA ReplayedInPlace ==
  ASSUME TablesInv, Numbered, VerdictsFollowPrefix, NEW list, NEW i \in Nat \ {0}, NEW d \in Nat,
         \A j \in 1..i : \E row \in events : row.event = list[j].event,
         InPlace(list, i, d),
         d = 0 \/ d + HistoryLimit <= list[i].event.sequence,
         OnRecord(list[i].event, list[i].expected)
  PROVE  Replayed(list, i) = list[i].expected
<1>1. Recalled(list, i) = LoadHistory(events, list[i].event)
  BY RecalledInPlace
<1>2. PICK e, verdict : e = list[i].event /\ verdict = list[i].expected
  OBVIOUS
<1>3. verdict = Judge(events, e)
  BY <1>2, RecordJudges
<1> QED BY <1>1, <1>2, <1>3 DEF Replayed, Judge

(* What is on record stays there.                                           *)
LEMMA RecordStable ==
  ASSUME NoRetention, TablesInv, [Next]_vars, NEW e, NEW verdict, OnRecord(e, verdict)
  PROVE  OnRecord(e, verdict)'
<1>1. \E row \in events' : row.event = e
  BY EventsStable DEF OnRecord, TablesInv
<1>2. PICK id : id = e.id
  OBVIOUS
<1>3. Judged(id) BY <1>2 DEF OnRecord
<1>4. /\ Judged(id)' /\ DecisionOf(id)' = DecisionOf(id)
      /\ EvidenceOf(id)' = EvidenceOf(id)
  BY <1>3, DecisionStable, EvidenceStable
<1> QED BY <1>1, <1>2, <1>4 DEF OnRecord

(* A list grows at its end.                                                 *)
LEMMA ListGrows ==
  ASSUME NEW list, IsList(list), NEW x
  PROVE  /\ IsList(Append(list, x)) /\ Len(Append(list, x)) = Len(list) + 1
         /\ \A k \in 1..Len(list) : Append(list, x)[k] = list[k]
         /\ Append(list, x)[Len(list) + 1] = x
<1>1. PICK n \in Nat : n = Len(list) /\ list = [k \in 1..n |-> list[k]]
  BY DEF IsList
<1>2. Append(list, x) = [k \in 1..(n + 1) |-> IF k = n + 1 THEN x ELSE list[k]]
  BY <1>1
<1>3. Len(Append(list, x)) = n + 1
  BY <1>2
<1> QED BY <1>1, <1>2, <1>3 DEF IsList

(* What a call is answered with is then on record.                          *)
LEMMA GivenOnRecord ==
  ASSUME NoRetention, TablesInv, Held, NEW p \in Procs, Step(p),
         pc[p] \in {"fetch", "record"}, pc'[p] = "open", NEW given, given = Given(p)
  PROVE  OnRecord(given.event, [evidence |-> given.evidence, decision |-> given.decision])'
<1>1. PICK id : id = event[p].id
  OBVIOUS
<1>2. /\ given.event = event[p] /\ given.evidence = EvidenceOf(id)'
      /\ given.decision = IF pc[p] = "fetch" THEN result[p].decision ELSE DecisionOf(id)'
  BY <1>1 DEF Given, EvidenceOf, DecisionOf
<1>3. (\E row \in events' : row.event = event[p]) /\ Judged(id)'
  <2>1. CASE Fetch(p)
    BY <1>1, <2>1 DEF Fetch, Held, HeldEvent, HeldDecision, Judged, tables
  <2>2. CASE Record(p)
    <3>1. Yield(p) \/ Commit(p)
      BY <2>2 DEF Record, Lose, Mismatch, Leave, TablesInv, TypeOK
    <3>2. CASE Yield(p)
      BY <1>1, <3>2 DEF Yield, RowsOf, Judged, tables
    <3>3. CASE Commit(p)
      BY <1>1, <3>3, CommitReadsBack DEF Commit, StoreResult, RowsOf
    <3> QED BY <3>1, <3>2, <3>3
  <2> QED BY <2>1, <2>2 DEF Step, Lookup, Prepare, Load
<1>4. pc[p] = "fetch" => result[p].decision = DecisionOf(id)'
  <2> SUFFICES ASSUME pc[p] = "fetch" PROVE result[p].decision = DecisionOf(id)'
    OBVIOUS
  <2>1. UNCHANGED tables
    BY DEF Step, Lookup, Fetch, Prepare, Load, Record
  <2>2. result[p].decision = DecisionOf(id)
    BY <1>1 DEF Held, HeldDecision
  <2> QED BY <2>1, <2>2 DEF tables, DecisionOf
<1> QED BY <1>1, <1>2, <1>3, <1>4 DEF OnRecord

(* What processes have yet to export and what the file holds is on record.  *)
LEMMA NextObserved ==
  ASSUME NoRetention, TablesInv, Held, Observed, [ReplayNext]_replayVars
  PROVE  Observed'
<1>1. [Next]_vars /\ outbox = [p \in Procs |-> outbox[p]]
  BY ReplayStep DEF Observed
<1>2. outbox' = [p \in Procs |-> outbox'[p]]
  BY <1>1 DEF ReplayNext, HookBegin, HookStep, HookFails, Observe, ExportStep, replayVars
<1>3. ASSUME NEW p \in Procs, NEW seen, seen = outbox'[p], seen # None
      PROVE  OnRecord(seen.event, [evidence |-> seen.evidence, decision |-> seen.decision])'
  <2>1. CASE outbox'[p] = outbox[p]
    <3>1. OnRecord(seen.event, [evidence |-> seen.evidence, decision |-> seen.decision])
      BY <1>3, <2>1 DEF Observed
    <3> QED BY <1>1, <3>1, RecordStable
  <2>2. CASE outbox'[p] # outbox[p]
    <3>1. ASSUME NEW q \in Procs, HookStep(q)
          PROVE  /\ Step(p) /\ pc[p] \in {"fetch", "record"} /\ pc'[p] = "open"
                 /\ seen = Given(p)
      BY <1>1, <1>3, <2>2, <3>1 DEF HookStep
    <3>2. ASSUME NEW q \in Procs, HookFails(q) \/ Observe(q) PROVE FALSE
      BY <1>1, <1>3, <2>2, <3>2 DEF HookFails, Observe
    <3>3. ASSUME \/ \E q \in Procs : HookBegin(q)
                 \/ ExportStep \/ UNCHANGED replayVars
          PROVE  FALSE
      BY <2>2, <3>3 DEF HookBegin, ExportStep, replayVars
    <3>4. /\ Step(p) /\ pc[p] \in {"fetch", "record"} /\ pc'[p] = "open"
          /\ seen = Given(p)
      BY <3>1, <3>2, <3>3 DEF ReplayNext
    <3> QED BY <3>4, GivenOnRecord
  <2> QED BY <2>1, <2>2
<1>4. ASSUME NEW i \in 1..Len(telemetry)
      PROVE  OnRecord(telemetry[i].event, telemetry[i].expected) /\
             \A e, verdict : e = telemetry[i].event /\ verdict = telemetry[i].expected
                             => OnRecord(e, verdict)'
  BY <1>1, RecordStable DEF Observed
<1>5. CASE telemetry' = telemetry
  <2>1. IsList(telemetry')
    BY <1>5 DEF Observed, IsList
  <2> QED BY <1>3, <1>4, <1>5, <1>2, <2>1 DEF Observed
<1>6. ASSUME NEW p \in Procs, Observe(p) PROVE Observed'
  <2>1. PICK seen : seen = outbox[p]
    OBVIOUS
  <2>2. PICK x : x = [event |-> seen.event, expected |->
                       [evidence |-> seen.evidence, decision |-> seen.decision]]
    OBVIOUS
  <2>3. telemetry' = Append(telemetry, x) /\ seen # None
    BY <1>6, <2>1, <2>2 DEF Observe
  <2>4. /\ IsList(Append(telemetry, x)) /\ Len(Append(telemetry, x)) = Len(telemetry) + 1
        /\ \A k \in 1..Len(telemetry) : Append(telemetry, x)[k] = telemetry[k]
        /\ Append(telemetry, x)[Len(telemetry) + 1] = x
    BY ListGrows DEF Observed
  <2>5. OnRecord(x.event, x.expected)'
    <3>1. OnRecord(seen.event, [evidence |-> seen.evidence, decision |-> seen.decision])
      BY <2>1, <2>3 DEF Observed
    <3>2. OnRecord(seen.event, [evidence |-> seen.evidence, decision |-> seen.decision])'
      BY <1>1, <3>1, RecordStable
    <3> QED BY <2>2, <3>2
  <2>6. IsList(telemetry')
    BY <2>3, <2>4 DEF IsList
  <2>7. ASSUME NEW i \in 1..Len(telemetry')
        PROVE  OnRecord(telemetry[i].event, telemetry[i].expected)'
    <3> QED BY <1>4, <2>3, <2>4, <2>5
  <2> QED BY <1>3, <1>2, <2>6, <2>7 DEF Observed
<1>7. telemetry' = telemetry \/ \E p \in Procs : Observe(p)
  BY DEF ReplayNext, HookBegin, HookStep, HookFails, ExportStep, replayVars
<1> QED BY <1>5, <1>6, <1>7

(* The events of a session are at most as many as the store gave numbers    *)
(* out.                                                                     *)
LEMMA FewRows ==
  ASSUME TablesInv
  PROVE  Cardinality(SessionRows) \in Nat /\ Cardinality(SessionRows) <= next[ExportedSession]
<1>1. PICK n \in Nat : n = next[ExportedSession]
  BY ExportAssumption DEF TablesInv, TypeOK
<1> DEFINE f == [row \in SessionRows |-> row.event.sequence]
<1>2. PICK a \in Int, b \in Int : a = 0 /\ b = n - 1
  OBVIOUS
<1>3. IsFiniteSet(a..b) /\ Cardinality(a..b) <= n
  <2>1. IsFiniteSet(a..b) /\ Cardinality(a..b) = IF a > b THEN 0 ELSE b - a + 1
    BY FS_Interval
  <2> QED BY <1>2, <2>1
<1>4. \A row \in SessionRows : row.event.sequence \in a..b
  BY <1>1, <1>2 DEF SessionRows, TablesInv, TypeOK, StoredEvents, SequencesReserved
<1>5. \A x, y \in SessionRows : x.event.sequence = y.event.sequence => x = y
  BY DEF SessionRows, TablesInv, SequencesReserved
<1>6. f \in Injection(SessionRows, a..b)
  BY <1>4, <1>5 DEF Injection, IsInjective
<1> HIDE DEF f
<1>7. IsFiniteSet(SessionRows) /\ Cardinality(SessionRows) <= Cardinality(a..b)
  BY <1>3, <1>6, FS_Injection
<1>8. Cardinality(SessionRows) \in Nat /\ Cardinality(a..b) \in Nat
  BY <1>3, <1>7, FS_CardinalityType
<1> QED BY <1>1, <1>3, <1>7, <1>8

(* What load_history returns is an unbroken run of the log up to its end.   *)
LEMMA LoadsRun ==
  ASSUME TablesInv, Numbered, NEW list,
         list = LoadedEvents({row.event : row \in SessionRows}),
         NEW count \in Nat, count <= next[ExportedSession]
  PROVE  /\ Len(list) \in Nat
         /\ \A k \in 1..Len(list) :
              /\ \E row \in events : row.event = list[k]
              /\ list[k].session = ExportedSession
              /\ list[k].sequence = list[1].sequence + k - 1
         /\ Len(list) = 0 \/ list[1].sequence = 0 => count <= Len(list)
<1> DEFINE L == LogOfTables[ExportedSession]
           older == {row.event : row \in SessionRows}
<1>1. PICK q \in Nat, limit \in Nat \ {0} : q = next[ExportedSession] /\ limit = ExportLimit
  BY ExportAssumption DEF TablesInv, TypeOK
<1>2. \A i \in 1..q : \E x \in events :
        x.event.session = ExportedSession /\ x.event.sequence = i - 1 /\ x.event = L[i]
  BY <1>1, ExportAssumption, TablesComplete, LogRead
<1>3. InOrder(L, 1, q)
  BY <1>2 DEF InOrder
<1>4. \A t : t \in older <=> \E k \in 1..q : t = L[k]
  <2>1. ASSUME NEW row \in SessionRows PROVE \E k \in 1..q : row.event = L[k]
    BY <1>1, TablesComplete, LogRead DEF SessionRows
  <2>2. \A k \in 1..q : \E row \in SessionRows : row.event = L[k]
    BY <1>2 DEF SessionRows
  <2> QED BY <2>1, <2>2
<1> HIDE DEF L, older
<1>5. PICK lo \in 1..(q + 1) : /\ \A k \in 1..q : q - k < limit <=> k \in lo..q
                              /\ lo = IF q - limit > 0 THEN q - limit + 1 ELSE 1
  <2> DEFINE lo == IF q - limit > 0 THEN q - limit + 1 ELSE 1
  <2>1. lo \in 1..(q + 1) /\ \A k \in 1..q : q - k < limit <=> k \in lo..q
    OBVIOUS
  <2> QED BY <2>1
<1>6. OldestFirst(Newest(older, limit)) = SubSeq(L, lo, q)
  <2>1. \A k \in 1..q : q - k < limit <=> k \in lo..q
    BY <1>5, Zenon
  <2> QED BY <1>3, <1>4, <2>1, NewestEntries
<1>7. list = SubSeq(L, lo, q)
  BY <1>1, <1>6 DEF LoadedEvents, older
<1>8. PICK n \in Nat : n = q - lo + 1
  BY <1>5
<1>9. list = [k \in 1..n |-> L[lo + k - 1]] /\ Len(list) = n
  <2>1. PICK m \in Int : m = lo
    OBVIOUS
  <2>2. SubSeq(L, m, q) = [k \in 1..(q - m + 1) |-> L[m + k - 1]]
    OBVIOUS
  <2> QED BY <1>7, <1>8, <2>1, <2>2
<1>10. ASSUME NEW k \in 1..n
       PROVE  /\ \E row \in events : row.event = list[k]
              /\ list[k].session = ExportedSession
              /\ list[k].sequence = lo + k - 2
  <2>1. PICK m \in 1..q : m = lo + k - 1
    BY <1>5, <1>8
  <2>2. list[k] = L[m]
    BY <1>9, <2>1
  <2>3. PICK x \in events :
          x.event.session = ExportedSession /\ x.event.sequence = m - 1 /\ x.event = L[m]
    BY <1>2
  <2>4. m - 1 = lo + k - 2
    BY <2>1
  <2> QED BY <2>2, <2>3, <2>4
<1>11. ASSUME NEW k \in 1..n PROVE list[k].sequence = list[1].sequence + k - 1
  <2>1. list[1].sequence = lo - 1 /\ list[k].sequence = lo + k - 2
    BY <1>10
  <2> QED BY <2>1
<1>12. n = 0 \/ list[1].sequence = 0 => count <= n
  <2>1. n = 0 \/ list[1].sequence = lo - 1
    BY <1>10
  <2>2. n = 0 => q = 0
    BY <1>5, <1>8
  <2>3. list[1].sequence = 0 /\ n # 0 => lo = 1
    BY <2>1
  <2> QED BY <1>1, <1>8, <2>2, <2>3
<1> QED BY <1>9, <1>10, <1>11, <1>12

(* The hook processes disturb nothing the export has read.                  *)
LEMMA ExportWaits ==
  ASSUME NoRetention, TablesInv, ExportInv, [Next]_vars, UNCHANGED exporter
  PROVE  ExportInv'
<1>1. events \subseteq events'
  BY EventsStable DEF TablesInv
<1>2. next[ExportedSession] <= next'[ExportedSession]
  <2>1. CASE UNCHANGED tables
    BY <2>1, ExportAssumption DEF tables, TablesInv, TypeOK
  <2>2. ASSUME NEW p \in Procs, request[p] \in Requests, Insert(p, request[p])
        PROVE  next[ExportedSession] <= next'[ExportedSession]
    <3>1. PICK s, m : s = request[p].session /\ m = NewEvent(request[p]).sequence + 1
      OBVIOUS
    <3>2. s \in Sessions /\ m \in Int /\ next[s] \in Int
      BY <2>2, <3>1, NewEventType, RequestsAssumption DEF TablesInv, TypeOK, StoredEvents
    <3>3. next' = [next EXCEPT ![s] = Max({next[s], m})]
      BY <2>2, <3>1 DEF Insert, Advance
    <3>4. next[s] <= Max({next[s], m})
      BY <3>2, GreaterOf
    <3> QED BY <3>2, <3>3, <3>4, ExportAssumption DEF TablesInv, TypeOK
  <2>3. ASSUME NEW p \in Procs, Commit(p)
        PROVE  next[ExportedSession] <= next'[ExportedSession]
    BY <2>3, ExportAssumption DEF Commit, StoreResult, TablesInv, TypeOK
  <2> QED BY <2>1, <2>2, <2>3, GrowingStep DEF TablesInv
<1>3. Loaded => Loaded'
  BY <1>1 DEF Loaded, exporter
<1>4. \A e, verdict : OnRecord(e, verdict) => OnRecord(e, verdict)'
  BY RecordStable
<1>5. ASSUME NEW id, Judged(id)
      PROVE  Judged(id)' /\ DecisionOf(id)' = DecisionOf(id)
  BY <1>5, DecisionStable
<1>6. Built'
  <2>1. /\ IsList(cases)' /\ (Len(cases) <= Len(loaded))'
        /\ (step = "evidence" => Len(cases) # 0)'
    BY DEF ExportInv, Built, IsList, exporter
  <2>2. ASSUME NEW k \in 1..Len(cases)
        PROVE  /\ cases[k] = [event |-> loaded[k], expected |-> cases[k].expected]
               /\ HalfRead(k) =>
                    /\ Judged(loaded[k].id)'
                    /\ cases[k].expected =
                         [evidence |-> <<>>, decision |-> DecisionOf(loaded[k].id)]'
               /\ ~HalfRead(k) /\ cases[k].expected # None =>
                    OnRecord(loaded[k], cases[k].expected)'
    <3>1. PICK e, verdict, id : e = loaded[k] /\ verdict = cases[k].expected /\ id = e.id
      OBVIOUS
    <3>2. e = loaded'[k] /\ verdict = cases'[k].expected
      BY <3>1 DEF exporter
    <3>3. /\ cases[k] = [event |-> e, expected |-> verdict]
          /\ HalfRead(k) => Judged(id) /\ verdict = [evidence |-> <<>>, decision |-> DecisionOf(id)]
          /\ ~HalfRead(k) /\ verdict # None => OnRecord(e, verdict)
      BY <3>1 DEF ExportInv, Built
    <3>4. HalfRead(k) => Judged(id)' /\ DecisionOf(id)' = DecisionOf(id)
      BY <1>5, <3>3
    <3>5. ~HalfRead(k) /\ verdict # None => OnRecord(e, verdict)'
      BY <1>4, <3>3
    <3> QED BY <3>1, <3>2, <3>3, <3>4, <3>5
  <2>3. \A k : HalfRead(k)' <=> HalfRead(k)
    BY DEF HalfRead, exporter
  <2> QED BY <2>1, <2>2, <2>3 DEF Built, exporter
<1>7. Reported'
  BY DEF ExportInv, Reported, exporter
<1>8. next[ExportedSession] \in Nat /\ next'[ExportedSession] \in Nat
  BY ExportAssumption, NextTables DEF TablesInv, TypeOK
<1>9. (step = "load" => total <= next[ExportedSession])'
  BY <1>2, <1>8 DEF ExportInv, exporter
<1> QED BY <1>3, <1>6, <1>7, <1>9 DEF ExportInv, exporter

\* What the export reads is there for good.
LEMMA ExportReads ==
  ASSUME UNCHANGED vars
  PROVE  /\ \A id : Judged(id)' <=> Judged(id)
         /\ \A id : DecisionOf(id)' = DecisionOf(id) /\ EvidenceOf(id)' = EvidenceOf(id)
         /\ \A e, verdict : OnRecord(e, verdict)' <=> OnRecord(e, verdict)
<1>1. events' = events /\ evidence' = evidence /\ decisions' = decisions
  BY DEF vars, tables
<1> QED BY <1>1 DEF OnRecord, Judged, DecisionOf, EvidenceOf

(* The decision of the next loaded event becomes a case, half a verdict     *)
(* until its evidence is read.                                              *)
LEMMA BuiltDecision ==
  ASSUME ExportInv, ReadDecision, UNCHANGED vars
  PROVE  Built'
<1>0. PICK n \in Nat : n = Len(cases)
  BY DEF ExportInv, Built, IsList
<1> DEFINE e == loaded[n + 1]
           found == RowsOf(e.id) # {} /\ Judged(e.id)
           x == [event |-> e, expected |->
                  IF found THEN [evidence |-> <<>>, decision |-> DecisionOf(e.id)] ELSE None]
<1>1. /\ cases' = Append(cases, x) /\ loaded' = loaded
      /\ step' = IF found THEN "evidence" ELSE "decision"
      /\ step = "decision" /\ n < Len(loaded)
  BY <1>0 DEF ReadDecision
<1>2. /\ IsList(cases) /\ n \in Nat /\ Len(loaded) \in Nat
      /\ \A k \in 1..n :
           /\ cases[k] = [event |-> loaded[k], expected |-> cases[k].expected]
           /\ cases[k].expected # None => OnRecord(loaded[k], cases[k].expected)
  BY <1>0, <1>1 DEF ExportInv, Built, HalfRead, IsList
<1> HIDE DEF x
<1>3. /\ IsList(cases') /\ Len(cases') = n + 1 /\ cases'[n + 1] = x
      /\ \A k \in 1..n : cases'[k] = cases[k]
  BY <1>0, <1>1, <1>2, ListGrows
<1>4. \A k \in 1..n : OnRecord(loaded[k], cases[k].expected)
                        => OnRecord(loaded[k], cases[k].expected)'
  <2> SUFFICES ASSUME NEW k \in 1..n, OnRecord(loaded[k], cases[k].expected)
               PROVE  OnRecord(loaded[k], cases[k].expected)'
    OBVIOUS
  <2>1. PICK f, verdict : f = loaded[k] /\ verdict = cases[k].expected
    OBVIOUS
  <2>2. OnRecord(f, verdict)'
    BY <2>1, ExportReads
  <2>3. f = loaded'[k] /\ verdict = cases'[k].expected
    BY <1>1, <1>3, <2>1
  <2> QED BY <2>2, <2>3
<1>5. ASSUME NEW k \in 1..n
      PROVE  /\ cases'[k] = [event |-> loaded'[k], expected |-> cases'[k].expected]
             /\ ~HalfRead(k)'
             /\ cases'[k].expected # None => OnRecord(loaded[k], cases[k].expected)'
  <2>1. ~HalfRead(k)'
    BY <1>2, <1>3 DEF HalfRead
  <2> QED BY <1>1, <1>2, <1>3, <1>4, <2>1
<1>6. /\ x = [event |-> loaded'[n + 1], expected |-> x.expected]
      /\ HalfRead(n + 1)' <=> found
      /\ found => x.expected = [evidence |-> <<>>, decision |-> DecisionOf(e.id)]
      /\ ~found => x.expected = None
  BY <1>1, <1>3 DEF x, HalfRead
<1>7. PICK id : id = e.id
  OBVIOUS
<1>8. (Judged(id)' <=> Judged(id)) /\ DecisionOf(id)' = DecisionOf(id)
  BY ExportReads
<1>9. ASSUME NEW k \in 1..Len(cases')
      PROVE  /\ cases'[k] = [event |-> loaded'[k], expected |-> cases'[k].expected]
             /\ HalfRead(k)' =>
                  /\ Judged(loaded[k].id)'
                  /\ cases'[k].expected = [evidence |-> <<>>, decision |-> DecisionOf(loaded[k].id)']
             /\ ~HalfRead(k)' /\ cases'[k].expected # None
                  => OnRecord(loaded[k], cases[k].expected)'
  <2>1. CASE k = n + 1
    <3>1. loaded'[k].id = id /\ cases'[k] = x
      BY <1>1, <1>3, <1>7, <2>1
    <3> QED BY <1>1, <1>6, <1>7, <1>8, <2>1, <3>1
  <2>2. CASE k # n + 1
    <3>1. k \in 1..n
      BY <1>2, <1>3, <2>2
    <3> QED BY <1>5, <3>1
  <2> QED BY <2>1, <2>2
<1> QED BY <1>1, <1>2, <1>3, <1>9 DEF Built, IsList

\* Reading its evidence makes the verdict whole.
LEMMA BuiltEvidence ==
  ASSUME ExportInv, Loaded, ReadEvidence, UNCHANGED vars
  PROVE  Built'
<1> DEFINE n == Len(cases)
           f == loaded[n]
           whole == [evidence |-> EvidenceOf(f.id), decision |-> DecisionOf(f.id)]
<1>1. /\ cases' = [cases EXCEPT ![n].expected.evidence = EvidenceOf(cases[n].event.id)]
      /\ loaded' = loaded /\ step' = "decision" /\ step = "evidence"
  BY DEF ReadEvidence
<1>2. /\ n \in Nat \ {0} /\ cases = [k \in 1..n |-> cases[k]] /\ n <= Len(loaded)
      /\ cases[n] = [event |-> f, expected |-> cases[n].expected]
      /\ Judged(f.id)
      /\ cases[n].expected = [evidence |-> <<>>, decision |-> DecisionOf(f.id)]
  <2>1. n \in Nat \ {0}
    BY <1>1 DEF ExportInv, Built, IsList
  <2>2. n \in 1..n /\ HalfRead(n)
    BY <1>1, <2>1 DEF HalfRead
  <2> QED BY <2>1, <2>2 DEF ExportInv, Built, IsList
<1>3. cases[n].event.id = f.id
  BY <1>2
<1> HIDE DEF f
<1>4. cases' = [k \in 1..n |-> IF k = n THEN [event |-> f, expected |-> whole] ELSE cases[k]]
  <2>1. [cases[n] EXCEPT !.expected.evidence = EvidenceOf(f.id)]
          = [event |-> f, expected |-> whole]
    BY <1>2
  <2>2. cases' = [cases EXCEPT ![n] = [cases[n] EXCEPT !.expected.evidence = EvidenceOf(f.id)]]
    BY <1>1, <1>3
  <2> HIDE DEF whole
  <2> QED BY <1>2, <2>1, <2>2
<1>5. Len(cases') = n /\ cases' = [k \in 1..n |-> cases'[k]]
  BY <1>2, <1>4
<1>6. OnRecord(f, whole)
  <2>1. \E row \in events : row.event = f
    BY <1>2 DEF Loaded, ExportInv, f
  <2> QED BY <1>2, <2>1 DEF OnRecord
<1>7. ASSUME NEW k \in 1..n
      PROVE  /\ cases'[k] = [event |-> loaded'[k], expected |-> cases'[k].expected]
             /\ cases'[k].expected # None => OnRecord(loaded[k], cases[k].expected)'
  <2>1. CASE k = n
    <3>1. PICK e, verdict : e = f /\ verdict = whole
      OBVIOUS
    <3>2. OnRecord(e, verdict)'
      BY <1>6, <3>1, ExportReads
    <3>3. e = loaded'[k] /\ cases'[k] = [event |-> e, expected |-> verdict]
      BY <1>1, <1>4, <2>1, <3>1 DEF f
    <3>4. verdict = cases'[k].expected
      BY <3>3
    <3> QED BY <3>2, <3>3, <3>4
  <2>2. CASE k # n
    <3>1. PICK e, verdict : e = loaded[k] /\ verdict = cases[k].expected
      OBVIOUS
    <3>2. ~HalfRead(k)
      BY <2>2 DEF HalfRead
    <3>3. /\ cases[k] = [event |-> e, expected |-> verdict]
          /\ verdict # None => OnRecord(e, verdict)
      BY <3>1, <3>2 DEF ExportInv, Built
    <3>4. verdict # None => OnRecord(e, verdict)'
      BY <3>3, ExportReads
    <3>5. cases'[k] = cases[k] /\ loaded'[k] = e /\ verdict = cases'[k].expected
      BY <1>1, <1>4, <2>2, <3>1
    <3> QED BY <3>3, <3>4, <3>5
  <2> QED BY <2>1, <2>2
<1>8. \A k \in 1..n : ~HalfRead(k)'
  BY <1>1 DEF HalfRead
<1> QED BY <1>1, <1>2, <1>5, <1>7, <1>8 DEF Built, IsList

(* Every read of the export, and writing its result, keeps what is known of *)
(* it.                                                                      *)
LEMMA ExportMoves ==
  ASSUME TablesInv, Numbered, ExportInv, ExportStep
  PROVE  ExportInv'
<1>1. UNCHANGED vars
  BY DEF ExportStep
<1>2. events' = events /\ next' = next
  BY <1>1 DEF vars, tables
<1>3. CASE CountEvents
  <2>1. total' \in Nat /\ total' <= next'[ExportedSession]
    BY <1>2, <1>3, FewRows DEF CountEvents
  <2>2. step' = "load" /\ cases' = <<>> /\ loaded' = <<>> /\ report' = report
    BY <1>3 DEF CountEvents, ExportInv
  <2>3. Built' /\ Reported'
    BY <1>3, <2>2 DEF CountEvents, ExportInv, Built, Reported, HalfRead, IsList
  <2> QED BY <2>1, <2>2, <2>3 DEF ExportInv
<1>4. CASE LoadEvents
  <2>1. /\ total \in Nat /\ total <= next[ExportedSession] /\ total' = total
        /\ step' = "decision" /\ cases' = <<>> /\ report' = report /\ step = "load"
    BY <1>4 DEF LoadEvents, ExportInv
  <2>2. PICK list : list = LoadedEvents({row.event : row \in SessionRows}) /\ loaded' = list
    BY <1>4 DEF LoadEvents
  <2>3. PICK count \in Nat : count = total
    BY <2>1
  <2>4. /\ Len(list) \in Nat
        /\ \A k \in 1..Len(list) :
             /\ \E row \in events : row.event = list[k]
             /\ list[k].session = ExportedSession
             /\ list[k].sequence = list[1].sequence + k - 1
        /\ Len(list) = 0 \/ list[1].sequence = 0 => count <= Len(list)
    BY <2>1, <2>2, <2>3, LoadsRun
  <2>5. Loaded'
    BY <1>2, <2>1, <2>2, <2>3, <2>4 DEF Loaded
  <2>6. Built' /\ Reported'
    BY <2>1, <2>2, <2>4 DEF ExportInv, Built, Reported, HalfRead, IsList
  <2> QED BY <2>1, <2>2, <2>4, <2>5, <2>6 DEF ExportInv
<1>5. CASE ReadDecision
  <2>1. Built'
    BY <1>1, <1>5, BuiltDecision
  <2>2. /\ step = "decision" /\ step' \in {"decision", "evidence"}
        /\ UNCHANGED <<total, loaded, report>>
    BY <1>5 DEF ReadDecision
  <2>3. Loaded'
    BY <1>2, <2>2 DEF ExportInv, Loaded
  <2>4. Reported'
    BY <2>2 DEF ExportInv, Reported
  <2> QED BY <2>1, <2>2, <2>3, <2>4 DEF ExportInv
<1>6. CASE ReadEvidence
  <2>1. /\ step = "evidence" /\ step' = "decision"
        /\ UNCHANGED <<total, loaded, report>>
    BY <1>6 DEF ReadEvidence
  <2>2. Loaded /\ Loaded'
    BY <1>2, <2>1 DEF ExportInv, Loaded
  <2>3. Built'
    BY <1>1, <1>6, <2>2, BuiltEvidence
  <2>4. Reported'
    BY <2>1 DEF ExportInv, Reported
  <2> QED BY <2>1, <2>2, <2>3, <2>4 DEF ExportInv
<1>7. CASE WriteCases
  <2>1. /\ step = "decision" /\ step' = "done" /\ Len(cases) = Len(loaded)
        /\ UNCHANGED <<total, loaded, cases>>
    BY <1>7 DEF WriteCases
  <2>2. Loaded'
    BY <1>2, <2>1 DEF ExportInv, Loaded
  <2>3. Built'
    <3>1. /\ IsList(cases)' /\ (Len(cases) <= Len(loaded))'
      BY <2>1 DEF ExportInv, Built, IsList
    <3>2. ASSUME NEW k \in 1..Len(cases)
          PROVE  /\ ~HalfRead(k)'
                 /\ cases'[k] = [event |-> loaded'[k], expected |-> cases'[k].expected]
                 /\ cases'[k].expected # None => OnRecord(loaded[k], cases[k].expected)'
      <4>1. PICK e, verdict : e = loaded[k] /\ verdict = cases[k].expected
        OBVIOUS
      <4>2. ~HalfRead(k) /\ ~HalfRead(k)'
        BY <2>1 DEF HalfRead
      <4>3. /\ cases[k] = [event |-> e, expected |-> verdict]
            /\ verdict # None => OnRecord(e, verdict)
        BY <4>1, <4>2 DEF ExportInv, Built
      <4>4. verdict # None => OnRecord(e, verdict)'
        BY <1>1, <4>3, ExportReads
      <4>5. e = loaded'[k] /\ verdict = cases'[k].expected /\ cases'[k] = cases[k]
        BY <2>1, <4>1
      <4> QED BY <4>2, <4>3, <4>4, <4>5
    <3> QED BY <2>1, <3>1, <3>2 DEF Built
  <2>4. Reported'
    BY <1>7, <2>1 DEF WriteCases, Reported
  <2> QED BY <2>1, <2>2, <2>3, <2>4 DEF ExportInv
<1> QED BY <1>3, <1>4, <1>5, <1>6, <1>7 DEF ExportStep

\* What a state of the database, the export and the telemetry is known to satisfy.
ReplayInv ==
  /\ TablesInv /\ Held /\ Computed /\ VerdictsFollowPrefix /\ Numbered
  /\ Observed /\ ExportInv

LEMMA InitReplay == ReplayInit => ReplayInv
<1> SUFFICES ASSUME ReplayInit PROVE ReplayInv
  OBVIOUS
<1>1. TablesInv /\ Held /\ Computed /\ VerdictsFollowPrefix /\ Numbered
  BY InitTables, InitHeld DEF ReplayInit, Init, Computed, VerdictsFollowPrefix, Numbered
<1>2. Observed
  BY DEF ReplayInit, Observed, IsList
<1>3. ExportInv
  BY DEF ReplayInit, ExportInv, Built, Reported, HalfRead, IsList
<1> QED BY <1>1, <1>2, <1>3 DEF ReplayInv

LEMMA NextReplay ==
  ASSUME NoRetention, StoreNumbers, ReplayInv, [ReplayNext]_replayVars
  PROVE  ReplayInv'
<1> USE DEF ReplayInv
<1>1. [Next]_vars
  BY ReplayStep
<1>2. TablesInv' /\ Held' /\ Computed' /\ VerdictsFollowPrefix' /\ Numbered'
  BY <1>1, NextTables, NextHeld, NextVerdicts, NextNumbered
<1>3. Observed'
  BY NextObserved
<1>4. ExportStep \/ UNCHANGED exporter
  BY DEF ReplayNext, HookBegin, HookStep, HookFails, Observe, replayVars
<1>5. ExportInv'
  BY <1>1, <1>4, ExportMoves, ExportWaits
<1> QED BY <1>2, <1>3, <1>5

(* A finished export replays exactly, except for what the window of its     *)
(* first cases lacks.                                                       *)
LEMMA CasesReplay == ReplayInv => ExportReplaysExactly
<1> SUFFICES ASSUME ReplayInv, report # None
             PROVE  /\ \A i \in Mismatches(cases) : i <= HistoryLimit /\ report.first > 0
                    /\ report.truncated => report.first > 0
  BY DEF ExportReplaysExactly
<1>1. /\ step = "done" /\ Len(cases) = Len(loaded)
      /\ report.truncated <=> total > Len(cases)
      /\ report.first = IF cases = <<>> THEN None ELSE cases[1].event.sequence
      /\ total \in Nat
  BY DEF ReplayInv, ExportInv, Reported
<1>2. PICK n \in Nat : n = Len(cases) /\ n = Len(loaded)
  BY <1>1 DEF ReplayInv, ExportInv
<1>3. /\ \A k \in 1..n :
           /\ \E row \in events : row.event = loaded[k]
           /\ loaded[k].session = ExportedSession
           /\ loaded[k].sequence = loaded[1].sequence + k - 1
      /\ n = 0 \/ loaded[1].sequence = 0 => total <= n
  BY <1>1, <1>2 DEF ReplayInv, ExportInv, Loaded
<1>4. \A k \in 1..n :
        /\ cases[k].event = loaded[k]
        /\ cases[k].expected # None => OnRecord(loaded[k], cases[k].expected)
  <2> SUFFICES ASSUME NEW k \in 1..n
               PROVE  /\ cases[k].event = loaded[k]
                      /\ cases[k].expected # None => OnRecord(loaded[k], cases[k].expected)
    OBVIOUS
  <2>1. ~HalfRead(k)
    BY <1>1 DEF HalfRead
  <2>2. /\ cases[k] = [event |-> loaded[k], expected |-> cases[k].expected]
        /\ cases[k].expected # None => OnRecord(loaded[k], cases[k].expected)
    BY <1>2, <2>1 DEF ReplayInv, ExportInv, Built
  <2>3. cases[k].event = loaded[k]
    BY <2>2
  <2> QED BY <2>2, <2>3
<1>5. n # 0 => loaded[1].sequence \in Nat /\ report.first = loaded[1].sequence
  <2> SUFFICES ASSUME n # 0
               PROVE  loaded[1].sequence \in Nat /\ report.first = loaded[1].sequence
    OBVIOUS
  <2>1. cases # <<>>
    BY <1>2
  <2>2. loaded[1].sequence \in Nat
    BY <1>3 DEF ReplayInv, TablesInv, TypeOK, StoredEvents
  <2> QED BY <1>1, <1>4, <2>1, <2>2
<1>6. report.truncated => report.first > 0
  BY <1>1, <1>2, <1>3, <1>5
<1>7. ASSUME NEW i \in Mismatches(cases) PROVE i <= HistoryLimit /\ report.first > 0
  <2>1. i \in 1..n /\ cases[i].expected # None /\ Replayed(cases, i) # cases[i].expected
    BY <1>2, <1>7 DEF Mismatches
  <2>2. PICK d \in Nat : d = loaded[1].sequence /\ d = report.first
    BY <1>5, <2>1
  <2>3. OnRecord(cases[i].event, cases[i].expected)
    <3>1. PICK e : e = loaded[i] /\ e = cases[i].event
      BY <1>4, <2>1
    <3> QED BY <1>4, <2>1, <3>1
  <2>4. \A j \in 1..n : /\ cases[j].event.session = ExportedSession
                        /\ cases[j].event.sequence = d + j - 1
                        /\ \E row \in events : row.event = cases[j].event
    BY <1>3, <1>4, <2>2
  <2>5. \A j : j \in Earlier(cases, i) <=> j \in 1..(i - 1)
    BY <2>1, <2>4 DEF Earlier
  <2>6. InPlace(cases, i, d)
    <3>1. \A q \in d..(d + i - 2) : q - d + 1 \in 1..(i - 1) /\ q = d + (q - d + 1) - 1
      BY <2>1
    <3>2. cases[i].event.sequence - 1 = d + i - 2
      BY <2>1, <2>4
    <3>3. \A j \in 1..(i - 1) : cases[j].event.sequence = d + j - 1
      BY <2>1, <2>4
    <3>4. ASSUME NEW j \in Earlier(cases, i)
          PROVE  cases[j].event.sequence \in d..(cases[i].event.sequence - 1)
      <4>1. j \in 1..(i - 1) /\ i \in Nat
        BY <2>1, <2>5
      <4>2. d + j - 1 \in d..(d + i - 2)
        BY <4>1
      <4> QED BY <3>2, <3>3, <4>1, <4>2
    <3>5. \A j, k \in Earlier(cases, i) :
            j < k => cases[j].event.sequence < cases[k].event.sequence
      BY <2>5, <3>3
    <3>6. ASSUME NEW q \in d..(cases[i].event.sequence - 1)
          PROVE  \E j \in Earlier(cases, i) : cases[j].event.sequence = q
      <4>1. PICK j \in 1..(i - 1) : q = d + j - 1
        BY <3>1, <3>2
      <4> QED BY <2>5, <3>3, <4>1
    <3> QED BY <3>4, <3>5, <3>6 DEF InPlace
  <2>7. ~(d = 0 \/ d + HistoryLimit <= cases[i].event.sequence)
    <3> SUFFICES ASSUME d = 0 \/ d + HistoryLimit <= cases[i].event.sequence PROVE FALSE
      OBVIOUS
    <3>1. i \in Nat \ {0} /\ \A j \in 1..i : \E row \in events : row.event = cases[j].event
      BY <2>1, <2>4
    <3>2. Replayed(cases, i) = cases[i].expected
      BY <2>3, <2>6, <3>1, ReplayedInPlace DEF ReplayInv
    <3> QED BY <2>1, <3>2
  <2> QED BY <2>1, <2>2, <2>4, <2>7, GuardAssumption
<1> QED BY <1>6, <1>7

\* An observation whose predecessors are in the file replays to its verdict.
LEMMA TelemetryReplays == ReplayInv => OrderlyTelemetryReplays
<1> SUFFICES ASSUME ReplayInv, NEW i \in Mismatches(telemetry), Orderly(telemetry, i)
             PROVE  FALSE
  BY DEF OrderlyTelemetryReplays
<1>1. /\ i \in 1..Len(telemetry) /\ Len(telemetry) \in Nat
      /\ Replayed(telemetry, i) # telemetry[i].expected
  BY DEF Mismatches, ReplayInv, Observed, IsList
<1>2. \A j \in 1..Len(telemetry) : OnRecord(telemetry[j].event, telemetry[j].expected)
  BY DEF ReplayInv, Observed
<1>3. ASSUME NEW j \in 1..i PROVE \E row \in events : row.event = telemetry[j].event
  <2>1. j \in 1..Len(telemetry)
    BY <1>1
  <2> QED BY <1>2, <2>1 DEF OnRecord
<1> DEFINE E == Earlier(telemetry, i)
           same == E \cup {i}
<1>4. \A j \in E : j \in 1..(i - 1)
  BY DEF Earlier
<1>5. \A j \in same : telemetry[j].event.sequence \in Nat
  BY <1>1, <1>3, <1>4 DEF ReplayInv, TablesInv, TypeOK, StoredEvents
<1>6. /\ \A j, k \in same : j < k => telemetry[j].event.sequence < telemetry[k].event.sequence
      /\ \A q \in 0..telemetry[i].event.sequence : \E j \in same : telemetry[j].event.sequence = q
  BY DEF Orderly
<1> HIDE DEF E
<1>7. InPlace(telemetry, i, 0)
  <2>1. \A j \in E : telemetry[j].event.sequence \in 0..(telemetry[i].event.sequence - 1)
    BY <1>1, <1>4, <1>5, <1>6
  <2>2. ASSUME NEW q \in 0..(telemetry[i].event.sequence - 1)
        PROVE  \E j \in E : telemetry[j].event.sequence = q
    BY <1>5, <1>6
  <2> QED BY <1>6, <2>1, <2>2 DEF InPlace, E
<1>8. i \in Nat \ {0} /\ 0 \in Nat
  BY <1>1
<1>9. Replayed(telemetry, i) = telemetry[i].expected
  BY <1>1, <1>2, <1>3, <1>7, <1>8, ReplayedInPlace DEF ReplayInv
<1> QED BY <1>1, <1>9

(* An exported session replays to the verdicts on record, however the hooks *)
(* were interleaved with the reads of the export: only the first window of  *)
(* an export whose beginning was cut off may differ.                        *)
THEOREM ExportsReplayExactly ==
  ASSUME NoRetention, StoreNumbers PROVE ReplaySpec => []ExportReplaysExactly
<1>1. ReplayInit => ReplayInv
  BY InitReplay
<1>2. ReplayInv /\ [ReplayNext]_replayVars => ReplayInv'
  BY NoRetention, StoreNumbers, NextReplay
<1>3. ReplayInv => ExportReplaysExactly
  BY CasesReplay
<1> QED BY <1>1, <1>2, <1>3, PTL DEF ReplaySpec

(* An observation replays to the verdict it reports if the earlier events   *)
(* of its session stand before it in the file, each once and in order.      *)
THEOREM OrderlyTelemetry ==
  ASSUME NoRetention, StoreNumbers PROVE ReplaySpec => []OrderlyTelemetryReplays
<1>1. ReplayInit => ReplayInv
  BY InitReplay
<1>2. ReplayInv /\ [ReplayNext]_replayVars => ReplayInv'
  BY NoRetention, StoreNumbers, NextReplay
<1>3. ReplayInv => OrderlyTelemetryReplays
  BY TelemetryReplays
<1> QED BY <1>1, <1>2, <1>3, PTL DEF ReplaySpec
================================================================================
