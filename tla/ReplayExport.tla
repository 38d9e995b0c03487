---------------------------- MODULE ReplayExport ----------------------------
(***************************************************************************)
(* Replaying what the hook processes did: store-export-replay reads a      *)
(* session out of the shared database while they go on working, the        *)
(* telemetry file takes their observations as they finish, and replay runs *)
(* either list through a supervisor without a store.  Nothing is pruned    *)
(* meanwhile, and the clock, which only retention reads, stands still.     *)
(*                                                                         *)
(* A case is [event, expected]; expected is [evidence, decision] or None.  *)
(***************************************************************************)
EXTENDS DurableSupervisor

CONSTANTS
  ExportedSession,   \* the session store-export-replay is asked for
  ExportLimit        \* its --limit

ASSUME ExportAssumption == ExportedSession \in Sessions /\ ExportLimit \in Nat \ {0}

VARIABLES
  step,        \* export_store_session: the read it makes next, or "idle", "done"
  total,       \* the number of events it counted
  loaded,      \* the events it loaded
  cases,       \* the cases it has built of the first of them
  report,      \* the ReplayExportResult, or None
  outbox,      \* process -> the observation it has yet to export, or None
  telemetry    \* the observations in the telemetry file, in file order

exporter == <<step, total, loaded, cases, report>>
replayVars == <<vars, exporter, outbox, telemetry>>

ReplayInit ==
  /\ Init
  /\ step = "idle" /\ total = 0 /\ loaded = <<>> /\ cases = <<>> /\ report = None
  /\ outbox = [p \in Procs |-> None] /\ telemetry = <<>>

-----------------------------------------------------------------------------
(* export_store_session *)

SessionRows == {row \in events : row.event.session = ExportedSession}

CountEvents ==
  /\ step = "idle"
  /\ total' = Cardinality(SessionRows)
  /\ step' = "load"
  /\ UNCHANGED <<loaded, cases, report>>

LoadedEvents_Mutant(es) ==
  OldestFirst({e \in es : Cardinality({f \in es : f.sequence < e.sequence}) < ExportLimit})

\* load_history without an upper bound: the newest events, oldest first.
LoadedEvents(es) == OldestFirst(Newest(es, ExportLimit))

LoadEvents ==
  /\ step = "load"
  /\ loaded' = LoadedEvents({row.event : row \in SessionRows})
  /\ step' = "decision"
  /\ UNCHANGED <<total, cases, report>>

\* get_result: the decision and, in a statement of its own, the evidence.
ReadDecision ==
  /\ step = "decision" /\ Len(cases) < Len(loaded)
  /\ LET e == loaded[Len(cases) + 1]
         found == RowsOf(e.id) # {} /\ Judged(e.id)
     IN  /\ cases' = Append(cases, [event |-> e, expected |->
                       IF found THEN [evidence |-> <<>>, decision |-> DecisionOf(e.id)] ELSE None])
         /\ step' = IF found THEN "evidence" ELSE "decision"
  /\ UNCHANGED <<total, loaded, report>>

ReadEvidence ==
  /\ step = "evidence"
  /\ cases' = [cases EXCEPT ![Len(cases)].expected.evidence = EvidenceOf(cases[Len(cases)].event.id)]
  /\ step' = "decision"
  /\ UNCHANGED <<total, loaded, report>>

\* The cases replace the output file in one rename.
WriteCases ==
  /\ step = "decision" /\ Len(cases) = Len(loaded)
  /\ step' = "done"
  /\ report' = [events |-> Len(cases), total |-> total, truncated |-> total > Len(cases),
                first |-> IF cases = <<>> THEN None ELSE cases[1].event.sequence,
                expected |-> Len(SelectSeq(cases, LAMBDA c : c.expected # None))]
  /\ UNCHANGED <<total, loaded, cases>>

ExportStep ==
  /\ CountEvents \/ LoadEvents \/ ReadDecision \/ ReadEvidence \/ WriteCases
  /\ UNCHANGED <<vars, outbox, telemetry>>

-----------------------------------------------------------------------------
(* The hook processes, which export an observation of every call *)

\* The answer the call of process p has just been given.
Given(p) ==
  LET id == event[p].id
  IN  [event |-> event[p],
       evidence |-> ItemsIn({x \in evidence' : x.id = id}),
       decision |-> IF pc[p] = "fetch" THEN result[p].decision
                    ELSE (CHOOSE d \in decisions' : d.id = id).decision]

HookStep(p) ==
  /\ Step(p)
  /\ outbox' = [outbox EXCEPT ![p] =
       IF pc[p] \in {"fetch", "record"} /\ pc'[p] = "open" THEN Given(p) ELSE @]
  /\ UNCHANGED <<exporter, telemetry>>

HookBegin(p) ==
  /\ outbox[p] = None
  /\ Open(p) \/ Close(p) \/ \E r \in Requests : Begin(p, r)
  /\ UNCHANGED <<exporter, outbox, telemetry>>

HookFails(p) ==
  /\ Crash(p) \/ StoreFailure(p)
  /\ outbox' = [outbox EXCEPT ![p] = None]
  /\ UNCHANGED <<exporter, telemetry>>

\* The observation is appended to the telemetry file.
Observe(p) ==
  /\ outbox[p] # None
  /\ telemetry' = Append(telemetry, [event |-> outbox[p].event,
       expected |-> [evidence |-> outbox[p].evidence, decision |-> outbox[p].decision]])
  /\ outbox' = [outbox EXCEPT ![p] = None]
  /\ UNCHANGED <<vars, exporter>>

ReplayNext ==
  \/ \E p \in Procs : HookBegin(p) \/ HookStep(p) \/ HookFails(p) \/ Observe(p)
  \/ ExportStep

ReplaySpec == ReplayInit /\ [][ReplayNext]_replayVars

-----------------------------------------------------------------------------
(* run_replay: a supervisor without a store processes the cases in order *)

\* The cases of one session before case i; its deque holds the newest HistoryLimit.
Earlier(list, i) == {j \in 1..(i - 1) : list[j].event.session = list[i].event.session}

Remembered(list, i) ==
  {j \in Earlier(list, i) : Cardinality({k \in Earlier(list, i) : k > j}) < HistoryLimit}

\* The tuple made of it, oldest first.
Recalled(list, i) ==
  LET kept == Remembered(list, i)
  IN  [n \in 1..Cardinality(kept) |->
         list[CHOOSE j \in kept : Cardinality({k \in kept : k < j}) = n - 1].event]

Replayed(list, i) == Verdict(Recalled(list, i), list[i].event)

Mismatches(list) ==
  {i \in 1..Len(list) : list[i].expected # None /\ Replayed(list, i) # list[i].expected}

(* An exported session replays to the verdicts on record: only the first    *)
(* HistoryLimit cases of an export whose beginning was cut off may differ,  *)
(* and an export that calls itself truncated did lose its beginning and not *)
(* its end.  It holds although hooks went on inserting events and recording *)
(* verdicts between the reads of the export (replay.py:194-232, 243-284).   *)
ExportReplaysExactly ==
  report # None =>
    /\ \A i \in Mismatches(cases) : i <= HistoryLimit /\ report.first > 0
    /\ report.truncated => report.first > 0

\* Up to entry i the events of its session stand in the file in the order of
\* their sequences, and none is missing.
Orderly(list, i) ==
  LET same == Earlier(list, i) \cup {i}
  IN  /\ \A j, k \in same : j < k => list[j].event.sequence < list[k].event.sequence
      /\ \A q \in 0..list[i].event.sequence : \E j \in same : list[j].event.sequence = q

(* An observation replays to the verdict it reports if the telemetry file   *)
(* has the earlier events of its session, each once and in the order of the *)
(* sequences; what other sessions wrote in between and what follows in the  *)
(* file does not matter (replay.py:132-158, supervisor.py:96-107).          *)
OrderlyTelemetryReplays ==
  \A i \in Mismatches(telemetry) : ~Orderly(telemetry, i)
=============================================================================
