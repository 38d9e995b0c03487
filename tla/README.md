# Agent Drift Guard: specifications, model checking and proofs

This directory is the verification project kept beside Agent Drift Guard. It
holds TLA+ modules translated from `src/agent_drift/`, the TLC configurations
that model-check them on small instances, and proofs, checked by TLAPS, that
most of their properties hold for all values of the constants. File names and line numbers below are relative to
`src/agent_drift/` unless they begin with `docs/`.

## 1. The system

A coding agent's host (Codex or Claude Code) starts one `agent-drift hook`
process for every lifecycle event. The process normalises the event, stores it
in a SQLite database all hook processes of the project share, runs five
deterministic detectors over the event and a bounded history, lets a policy turn
their evidence into one decision, stores both, renders the decision as the host's
native answer and appends an observation to a telemetry file. There is no daemon:
**everything that coordinates two hooks is the database, a file lock and atomic
renames**, and every hook can be killed at any point by the host's timeout.

| Component | State | Operations | Talks to | What is hard | What makes it correct |
|---|---|---|---|---|---|
| Detectors, policy (`detectors/`, `policies/engine.py`) | none (anchors are constants) | `detect`, `decide` | called by the supervisor | runs and windows over interleaved histories; several findings on one event | a stop is held exactly when the last write of this actor is not validated; a forbidden call is blocked whatever else is found |
| In-memory supervisor (`core/supervisor.py`) | per session: a bounded deque, the next sequence | `process`, `history` | used by replay and embedders | late and explicit sequences, window shared by actors | verdicts match a reference observer |
| Durable supervisor, store (`core/supervisor.py`, `store/sqlite.py`) | tables sessions, events, evidence, decisions, maintenance mark | `get_result`, `prepare_event`, `load_history`, `record_result`, open with retention, `prune` | every hook process, the store commands | concurrent hooks, retries, crashes, retention while hooks run | one final verdict per event, computed from its prefix; durable answers; no orphans, no reused numbers |
| Migrations (`store/sqlite.py:82-103`) | schema version | open | store, retention | concurrent openers; a retention that reads ages the same transaction made up | an upgrade loses nothing a retention may not take; a newer database is left alone |
| Privacy (`store/privacy.py`) | none | redact | store | credentials nested in arguments; retries must redact alike; the detectors see the redacted event | nothing secret is stored, all the rest is, and the detectors find what they would have found |
| Adapters (`adapters/`) | none | normalise, render | runtime | contradictory results, missing fields, many spellings; decisions a host cannot apply | the event says what the input says; every decision can be rendered or falls back |
| Runtime, hook command (`runtime.py`, `cli.py`) | none | `handle`, error exits | all of the above | failures before or after the event is stored | enforce fails closed, observe never interferes |
| Telemetry (`observability.py`) | current file, backups, lock, health file | `export` | shared by hooks | rotation, torn writes, lost counter updates | bounded files, newest records kept, failures counted |
| Replay (`replay.py`) | none | export a session, replay it | store, telemetry, in-memory supervisor | reads a database that hooks are writing | an exported session replays to the recorded verdicts |
| Installer (`installer.py`) | configuration, runner, anchors, `.gitignore`, permissions, backups | install, uninstall, status | host, user | killed between two writes, user edits, two platforms | installs repair, nothing of the user's is lost, a mode nobody asked for never appears |
| Capabilities, benchmark, wire-model validation | none | pure functions | | | not modelled |

`PROJECT.json` lists every component with its status, and every hazard of the
code with the properties that would catch it.

## 2. The modules

```
Guard ─┬─ GuardWatch ── Supervisor ─────────────── MCSupervisor
       ├─ GuardLog  ◁── (refinement) ┐
       ├─ DurableSupervisor ─────────┴──┬───────── MCDurable ─┐
       │        │                       └─ StoreOpening ──────┴─ MCOpening
       │        └─ ReplayExport ────────────────── MCReplay
       └─ HookResponse ─┬─ HookInput ─┐
                        │  ShellText ─┴ HookPipeline ── Redaction ── MCPipeline
                        └─ AgentSession ─┬──────── MCSession
                                         └─ AgentProgress ── MCProgress
JsonlExporter ──────────────────────────────────── MCExporter
HookInstaller ──────────────────────────────────── MCInstaller

proofs:
Guard_proofs ─┬─ Supervisor_proofs        DurableSupervisor_proofs ── StoreClients_proofs
              ├─ AgentSession_proofs      JsonlExporter_proofs
              └─ HookPipeline_proofs      HookInstaller_proofs
```

* **Guard**: the five detectors, the actor filter of `_detection_history` and
  `DecisionPolicy.decide` as operators. An event body carries the fields the
  detectors read; whether a pattern matches a command or a path is membership in
  a constant set. Scores are hundredths. A detector is stated over the positions
  of a history where its loop scans backwards: "the last write" is the largest
  position of one.
* **GuardWatch**: a reference observer written independently of the detectors.
  It follows one actor's events incrementally (was something written, how did
  the last validation end, how long is the current run of failures) instead of
  scanning a window backwards. It is not code of the program.
* **Supervisor**: `process` without a store; one action per processed event.
* **GuardLog**: the abstract promise of the durable supervisor: per session a
  log that only grows, and a set of verdicts, each final and each the judgement
  of its event's prefix. No processes, no crashes, no tables.
* **DurableSupervisor**: hook processes over the tables. `Lookup`, `Fetch`,
  `Prepare`, `Load`, `Record` are the statements or transactions of
  `Supervisor.process` (core/supervisor.py:71-95); `Open` is the constructor's
  transaction with the automatic retention; `Prune` is `store-prune`; `Crash`
  and `StoreFailure` end a call anywhere. `get_result` runs two statements
  outside a transaction, so it is two actions. The returned answers are kept in
  a history variable.
* **HookResponse**: `common_hook_response`, the fallback, `runtime.handle`'s
  observe mode and the hook command's error exits.
* **StoreOpening**: `DurableSupervisor` on a database found on disk: none, of
  schema 1 or 2, current, or newer. The constructor's one transaction
  (sqlite.py:162-211) creates or migrates and then applies the retention; the
  maintenance commands open without retention.
* **HookInput**: JSON values as records that name their kind, and pure operators
  over them: which inputs an adapter accepts (`Readable`), the normalised event
  (`BuildEvent`), the outcome of a result (`InferOutcome`), the fields redaction
  goes over (`RedactEvent`), and a path relative to the repository and its patterns
  (`RelativePath`, `MatchesPattern`). A text is a sequence of tokens, characters
  where the code looks at characters. How redaction goes through one value
  (`RedactValue`, `Redactions`) is a parameter.
* **Redaction**: that walk through nested values, recursively as in the code, and
  the property about it. It is a module of its own so that the pipeline does not
  depend on a recursive operator; MCPipeline puts it in.
* **ShellText**: the masking of quotes and comments and the search for a
  validation in what is left, token by token; beside it a reference, written
  independently, that splits a command as a shell does and runs it (`RunsTests`): for
  every way its simple commands may end, which of them run after `&&`, `||`, `|`, `;`,
  `&` and line ends, and whether the line succeeds.
* **HookPipeline**: one hook process after another, from the raw input to the
  answer, along a script of inputs; in some sessions detectors of the caller's
  own add any evidence, because a `Supervisor` accepts them. The constants
  `ValidationCommands`, `ForbiddenCommands` and `AllowedPaths` of `Guard` are
  here the answers the pattern functions gave.
* **AgentSession**: a host and an agent around the hooks. Calls run in parallel
  slots, each with a hook before and after it; a stop is asked for when none is
  under way. A hook stores its event, then answers; by `GuardLog` that order of
  storing is all its verdict depends on. Host and agent are external.
* **AgentProgress**: an agent in `AgentSession` that wants to end its turn and
  heeds the guard; what it chooses is external.
* **JsonlExporter**: `export` system call by system call under `flock`. A file is a
  sequence of pieces of records, each with its bytes and whether it ends the record.
* **HookInstaller**: `install` and `uninstall` as a plan and the set of writes still
  to do (`todo`), taken one at a time in the code's order (`Order`).
* **ReplayExport**: `store-export-replay` read by read beside the processes of
  `DurableSupervisor`, the order in which observations reach the telemetry file,
  and `run_replay`: a supervisor without a store, whose deque before a case holds
  the newest cases of the same session (`Recalled`).

A name ending in `_Mutant` (or another suffix after the name it alters) is a
deliberately wrong variant of the definition below it. It is used nowhere in the
specifications; substituting it shows that a property notices the bug.

## 3. The runs

Model values and requests are in the `MC` modules. All counters (`MaxCalls`,
`MaxFaults`, `MaxClock`, `MaxEvents`, `MaxRecords`, `MaxCommands`, `MaxEdits`,
`MaxCrashes`) are bounds of the model, not of the program.

| Run | Instance | Shows |
|---|---|---|
| in_memory | two actors in one session, five events, window of four | verdicts on stops and loops agree with the incremental observer |
| durable_core | 2 processes, 2 sessions, 5 requests, 5 calls, 1 fault | durable answers, prefix verdicts, no spurious conflict, refinement of GuardLog |
| durable_retention | databases of schema 0 to 4, two openers and a maintenance command, automatic retention by age 1 and count 2, store-prune by age 0 or count 1, clock from 3 to 4, 1 fault | no orphans, an unbroken suffix is kept, the mark is truthful, decisions are final, a migration loses nothing a retention may not take |
| durable_live | supplied sequences 3 and 1 beside a default one, 4 calls, 1 fault, a clock that ticks, fair scheduling | numbers stay reserved, all callers are told the same, a call is answered, retries of killed calls included |
| hook_pipeline | both platforms and modes; all commands of up to 4 tokens that mention the tests, all lines of three commands joined by any operators, and some longer ones; 300 results; every field of 15 hooks missing or of another type; nested credentials; 2000 spellings of paths; up to 3 further evidence items on every hook | an accepted stop had a call since the last write that shows success and could not succeed unless a shell ran the tests and waited for them (the forms that section 3 lists aside), a write to a plainly spelt path is reported exactly when it leaves its scope, nothing secret is stored and detection does not suffer, decisions are always renderable, strong evidence prevents, evidence is monotone |
| session | both modes, one slot, window of 6, failing telemetry, 1 failing hook | a forbidden call never runs, an accepted stop is validated, nothing is held without evidence or in observe mode, a stop is let through exactly when the work is validated |
| session_progress | enforce mode, one edit, the validation and two other calls, window of 6, thresholds of 2, fair agent | an agent that heeds the guard is never left without a way to validate or to stop |
| exporter | 2 processes, 4 records of 1 to 3 bytes, files of 3 bytes, 2 backups, 2 faults (crashes, failing system calls, a health file that cannot be read or written), fair scheduling | files bounded, no failure's count overwritten by a concurrent one, the newest record kept, only the oldest records go, acknowledged records complete, every export ends |
| installer | 3 commands, user edits and crashes, damage to every file but no handlers of the guard under foreign events | install repairs, modes were asked for, nothing of the user's is lost, a configured handler has a runner it can execute |
| replay | 2 processes, 3 requests, 1 fault, export of at most 2 events at any moment, window of 1 | exports replay exactly, a truncated one only lost its beginning, orderly telemetry replays |

Why the bounds are enough: the store's behaviour depends on pairs of processes
(who inserts first, who records first), on one window of history before an event
and on one deletion between two steps; two processes, three to five requests, a
window of one or two and one or two faults contain each of these in every
order, and a retry needs only one crash. An exporter of two backups has a first, a
middle and a last rename. Detector thresholds are lowered from five to two or
three so that runs reach, pass and leave them within the window.
Sessions in `AgentSession` are not bounded: the window is the state, so the runs
cover sessions of any length. In `hook_pipeline` four tokens hold a quote, an
escape or a comment, what it hides and an operator after it; longer commands are
added where an interaction needs them. Its scripts stay below the loop detector's
thresholds, which the other runs pass. Symmetry is used for process and slot names only,
and never in a run with a liveness property.

`CHECK_DEADLOCK FALSE` is set where behaviours end at a bound or where the
system may rightly stop.

### Runs that end in a counterexample

Each checks one sentence of the documentation that the code does not keep.

| Run | What happens |
|---|---|
| session_overlap | a test run that overlaps a write counts as its validation |
| installer_two | installing the second platform takes the execute permission from the first one's runner |

### Other behaviour the models have, and no property excludes

These follow from the code and are in the models; the properties are stated so
that they hold beside them.

* An event id submitted with other content after its first content was decided is
  answered with the first one's verdict, because `process` looks for a result
  before `prepare_event` would compare (`Lookup`; core/supervisor.py:74);
  docs/sqlite-store.md:33 says that other content under an id is reported.
* A session emptied by age is numbered from 0 again (`ApplyRetention` resets
  `next`; sqlite.py:508), although docs/supervisor.md:11 speaks of monotone
  numbers within a session.
* A prune between the two statements of `get_result` yields a decision without
  evidence (`Lookup`, then `Prune`, then `Fetch`; sqlite.py:324-353).
* A hook whose event is pruned before its verdict is recorded fails (`Lose`;
  sqlite.py:362), in enforce mode with exit 2.
* Events of schema 1 keep what they contain: a migration does not redact
  (docs/privacy-retention.md:53-54). A retry of an undecided one that carries a
  credential is then compared with unredacted content and refused.
* Ages a migration takes from the events' own timestamps need not grow with the
  sequence, so retention by age could take an event out of the middle of a
  migrated session; the databases of the run have growing timestamps.
* A write the guard denied counts as a write at the stop (helpers.py:77-80);
  `StopFollowsStatus` says so.
* Evidence of severity info, which no built-in detector gives, holds a stop that
  evidence of severity low only warns about (policies/engine.py:32-49);
  `MoreEvidenceNeverWeakens` leaves it out.
* An agent whose validation keeps failing is held at every stop
  (validation.py:17), and one that insists on the calls that were just held, or
  goes back and forth between two of them, is held for ever (loop.py:72-106):
  `DemandCanBeMet` is about an agent that tries another call.
* Commands the masking reads differently from a shell, which `PlainlyWritten`
  leaves out: a separator behind a backslash outside quotes counts as one; text
  in quotes that is glued to a word, or names the program, is lost; `#` directly
  after an operator does not begin a comment. On the safe side:
  `2>&1` counts as a background run, and leading blanks, a line end instead of
  `;` and a `;` right after the command hide a validation.
* A validation that may be skipped counts as run, because the patterns accept a
  test after any `&&`, `||` or `;` (core/anchors.py:11; docs/hook-installation.md:45-47)
  and the result is that of the whole call: `true || pytest` validates without
  running anything, and so does `cd x && pytest; echo done` when `cd` fails
  (`Skippable`). `ValidationIsReal` leaves these out. In `pytest || true`,
  `pytest; x` and `pytest | tail` the tests do run, but the success the call shows is
  another command's; the property then says that they ran, not that they passed.
* Paths `PlainPath` leaves out: `../src/x` is read as `src/x`, `src/../x` as a
  path below `src`; a pattern `.github/**` loses its dot and then matches only
  the relative spelling of its files (scope.py:26-30). Doubled slashes and `/./`
  are reported although they stay inside.
* A tool call whose `tool_input` is not an object names no path and no command,
  so no scope or constraint applies to it (normalization.py:96-98).
* Redaction leaves object keys, the session id and the agent id alone, and two
  calls that differ in a credential only have one fingerprint for the loop
  detector.
* A torn telemetry line is shared with the next record (`WriteBytes`,
  observability.py:99-114), which is complete but not a line of its own, so
  `AcknowledgedIsComplete` speaks of its bytes.
* A health file that cannot be read or parsed counts as one without failures, and
  the next failure replaces it by a count of 1 (`MisreadHealth`, `WriteHealth`;
  observability.py:119-136). What it had counted is gone; `FailuresCounted` keeps
  book of it (`forgotten`).
* Handlers of the guard under other hook events survive reinstallation
  (installer.py:384); the damages of the run do not include them.
* An insert between count and load makes an export at its limit lose history
  while `truncated` is false (replay.py:203-228).
* Telemetry is replayed in file order, not in sequence order (replay.py:132-158);
  `OrderlyTelemetryReplays` is about telemetry where they agree.

## 4. Fairness

`durable_live` assumes weak fairness of a process's own store calls (`Proceed`, the
moves of its program counter that are not faults): a hook that
began is scheduled by the operating system, and SQLite's write lock is released
by short transactions, so no call waits for a call another process never makes.
A killed hook owes nobody an answer, so `EveryCallAnswered` is about calls that
begin when the faults of the run are used up, retries of killed calls among
them. `exporter` assumes weak fairness of an exporting process's steps, among
them taking a free lock; with two waiters on `flock` and finitely many exports
this does not hide starvation, since every holder leaves.

`session_progress` assumes that hooks and calls end, as the host's timeouts see
to, and a strategy of the agent, whose choices no code of the program makes:
after a held stop it goes on with calls, avoids for one step what it just tried
when a call was held, and when the validation it was asked for is open to it
again and again it runs it. Strong fairness is needed because a call is not open
while another one is under way. The user and pruning are never assumed fair.

## 5. Proofs

Every theorem below is about the specification of a module and holds for any
values of its constants, that is for any number of processes, sessions, requests,
records, tool calls and commands, any window, thresholds and bounds, under the
module's named assumptions and the hypotheses the theorem states. The
assumptions say what the code or the way the model stands for it makes true:

| Assumption | Says |
|---|---|
| `GuardAssumption` | thresholds are at least 2 and the window at least 1, as the constructors demand |
| `RequestsAssumption`, `PoliciesAssumption` | a request names a session and, perhaps, a natural sequence; a retention limit is a natural number or absent |
| `BoundsAssumption`, `SupervisorAssumption`, `PipelineAssumption` | bounds and sequences are natural numbers, scores lie between 0 and 100 |
| `DatabasesAssumption`, `OpeningAssumption` | a database on disk is what its own program left: rows keyed by id and by session and sequence, numbers given out, no ages and no mark before schema 2 |
| `ExportAssumption` | the session to be exported is one of the sessions, `--limit` is at least 1, as the command demands |
| `SessionAssumption`, `ResponseAssumption`, `ExporterAssumption`, `InstallerAssumption` | the absent value and the thread that stops are none of the other values; events of the guard and other events are different; a record the exporter takes fits into a file |

### The store (DurableSupervisor_proofs)

1. `TypeCorrect`: `TypeOK` is inductive by itself.
2. `SequencesAreReserved`: an insert takes `next` or a free number and raises
   `next` beyond it; retention that empties a session resets a counter no stored
   event depends on any more. Inductive together with `TypeOK`.
3. `TablesHaveNoOrphans`: needs `TypeOK` and 2 (an id names one event, so a
   decision committed for it is about that event). The three are `TablesInv`.
4. `DecisionsAreFinal`: `[][...]_vars` from 3: only `Commit` adds a decision, only
   for an event without one, and only retention removes any.
5. `DurableAnswers`, under `NoRetention`: the strengthening is `Held`. What a
   process holds between two store calls (its event, and in `fetch` the decision
   it read) is still true of the tables, which only grow.
6. `OneAnswer`, under `NoRetention`: from 5; two answers to one id are about one
   row, one decision and one evidence item.
7. `ConflictsAreReal`, under `NoRetention`, `StoreNumbers` and `OneContent`: a stored
   event is a redacted request with the same id (`FromRequests`), so a retry
   compares equal. Two contents under one id do conflict, and a supplied number
   can already be taken. `AnswersFit` needs that requests with one id agree in their
   number too, but not that the store numbers them (`OneNumber`): a stored event then fits
   every request with its id (`Fits`), so an answer is about what its caller submitted.
8. `VerdictsArePrefixVerdicts`, under `NoRetention` and `StoreNumbers`: the
   strengthening is `Computed`, which says that a verdict computed by a process is still the
   judgement of the current tables. A new event gets a number beyond all others, so
   it is never below an event already there, and `Judge` reads only what is below.
   With supplied sequences this is false, which is why `durable_live` does not
   check it.
9. `TablesImplementLog`, under the same three: `Spec => Log!Spec` under the mapping of the
   tables to a log. The strengthening `RefInv` adds `Numbered` (the numbers of a
   session are 0 to `next` - 1 without a hole, so the log is its rows in order) and
   `SameId`. An insert then appends to one log, a commit adds a verdict that is the
   log's judgement, and every other step, a crash included, is a stutter.

### Retention and migration (StoreClients_proofs)

`OpenInv` is the store's part of the tables with retention, migration and an
unopened database allowed. It is inductive, for any databases and policies.

1. `OpeningLosesNothing` follows from it step by step.
2. `NewestAreKept` adds `RunsInv`: no number of a session is missing above a stored
   one, and later events were not stored earlier. The lemma behind it
   (`LaterIsKept`) is that a row that is kept drags along all rows after it. Hypotheses:
   the store numbers the events and the databases that are found are already
   unbroken and dated in order (`OrderlyDatabases`); ages a migration takes from
   events that are not would let retention by age cut a hole (section 3).
3. `MarkedIsPruned`: the mark and the deletion are one transaction, so nothing
   past the cutoff is below the mark. It needs an automatic retention and that a
   mark found on disk was set by the same policy (`MarksWerePruned`).

### Replay (StoreClients_proofs)

Under `NoRetention` and `StoreNumbers`, for any number of hooks, sessions, events and
any limits. A replay holds no state but its deque, and a deque that takes the cases in
order holds the last `HistoryLimit` of them, so `ReplayExport` states what it holds by
positions in the list and no induction over the list is needed. `ReplayInv` adds to
the store's invariants (`TablesInv`, `Held`, `Computed`, `VerdictsFollowPrefix`,
`Numbered`) that

* what a hook is about to observe and what the telemetry file has are verdicts on
  record (`Observed`): evidence and decision are the two of one stored event;
* the loaded list is a run of consecutive numbers of the session, with all events that
  were counted if it begins with 0; the cases built so far are its beginning, and
  their verdicts are the ones on record, except while a case waits for its evidence;
  the report is about this list (`ExportInv`).

It is inductive although hooks insert events and record verdicts between the reads,
because rows only appear at the end of a session and verdicts are final. The lemma
that carries both theorems (`RecalledInPlace`) says that `load_history` before a stored
event and the deque before a case hold the same events, when the cases before it are
all earlier ones or the `HistoryLimit` latest; the stored verdict is the judgement of
the first, by `VerdictsFollowPrefix`, and the replayed one the judgement of the second.
`ExportsReplayExactly` applies it to the exported list and `OrderlyTelemetry` to any entry
of the telemetry file that `Orderly` describes.

### The detectors and the in-memory supervisor (Guard_proofs, Supervisor_proofs)

`Guard_proofs` holds lemmas only: what each detector reports, that a policy answers a
forbidden call with the constraint's item, and what the window shows of
the last write and the last validation when an event is added at its end and others
fall out at its beginning (`Extended`, `Shifted`).

`StopsAreRight` and `LoopsAreRight` compare the detectors with `GuardWatch`, which
remembers every event. `SupervisorInv` relates the two for every session and actor: the
window never shows more than the observer remembers (`Tracks`: a run in it is at
most as long, a state in it is the status or clean), and exactly that while the
session fits in the window (`Exact`). The properties only speak of the answer just
given; the invariant has to speak of every history the next event may meet, and
since runs are counted by fingerprint, also of the fingerprint of the last failure and
of the last call. `SupervisorTypes` is its first part.

### Sessions (AgentSession_proofs)

`NothingForbiddenRuns` and `HoldsHaveReasons` hold for any number of parallel calls and
failing hooks: `SessionInv` says that a hook is about the call its thread makes,
and the rest is the policy's answer to a forbidden call.

`AcceptedStopsAreValidated` and `StopsAreHeldByStatus` assume one call at a time
(`Slots = {one}`); `session_overlap` shows that they fail with two. The
strengthening `Judged` follows a write through its life: once its hook stored it the
window shows an unvalidated write, until a validation that began after it succeeded
(`Validated`, `Writing`); what the window shows is what really happened unless a
hook failed or the window overflowed (`Known`, `Dirtied`), which are the exceptions the
properties make.

### From evidence to the answer (HookPipeline_proofs)

For any evidence detectors may report, of any length, in any order: `PipelineInv`
says that the answer given is the one to the evidence collected so far. The
policy's choice of the primary item is the maximum of a `Weight`, severity before score,
so more evidence can only raise it; an answer prevents exactly when the severity of
that item is one that prevents at the event's type (`Preventive`). From it
follow `EveryDecisionIsRendered`, `StrongEvidenceHolds` and, as an action property,
`EvidenceNeverWeakens`, whose exception for severity info is the code's (section 3).

### The exporter (JsonlExporter_proofs)

`ExporterInv` says for each system call what the one process under the lock knows
(`Knows`): before a write there is room for what is left of the record, after the first
byte the last piece of the current file is its own, and the counter it read is still the
counter when it writes it back. `FilesStayBounded` and `EveryFailureCounts`
are parts of it; the latter allows for health files that could not be written, and for
those that could not be read, by no more than they had counted; `AcknowledgedIsWhole` and `NewestIsKept` follow step by step. The
last needs a backup (`BackupCount >= 1`): without one a rotation deletes the file.

`OldestGoFirst` compares all a reader finds before and after a step. `RecordsInv` says
why no line can move: a record has one piece at most in all files, a process that has
not written yet holds a record no file has, a piece that is to be continued is torn
and so not readable yet, and the name a rotation moves a file to is free. Each system
call is then one of three kinds: nothing readable changes, files move up by one name
(an order-preserving renaming of positions, the last one dropped), or a line is added at
the end of the newest file.

### The installer (HookInstaller_proofs)

`InstallerInv` is inductive for any platforms: what is still to do is about a plan in
a mode that was asked for and with the user's handlers (`Kept`). `InstallerTypes`,
`ModesAreChosen` and `UsersHandlersSurvive` follow. `OneInv` adds, for each write, that
it is still to do or has taken effect (`Begun`). It needs a single platform, since
another platform's installation changes files this one has done with:
`HandlersCanRun` is what `installer_two` refutes for two. `InstallationRepairs` also
excludes handlers of the guard under other events, which installing leaves in place
(section 3).

### What is only model-checked, and why

* `ValidationIsReal`, `ScopeIsRespected`: folds over the tokens of a text, and
  `RedactionIsFaithful`: recursion over nested values. What they compute for every input
  needs an induction over data.
* `EveryCallAnswered`, `ExportReturns`, `DemandCanBeMet`: liveness under fairness is
  out of the proof system's reach, as is `ENABLED`.

## 6. Abstractions, and what is not modelled

* Text: in `HookInput` and `ShellText` a sequence of tokens; regular expressions
  (validation commands, value patterns of the redaction, completion claims) are
  sets of tokens, and a pattern that spans lines, such as a private key, is one
  token. `?` and `[...]` in path patterns, limits on the length of a field and
  floating-point numbers are left out. `RedactionPolicy.enabled` is taken to be
  true, and the repository root to hold no credential.
* In `DurableSupervisor` redaction is one idempotent operator on bodies, equal for
  equal bodies; `HookPipeline` checks the real one on what detection reads.
* `HookPipeline` has one hook after another and one session per script;
  overlapping hooks are the business of `DurableSupervisor` and `AgentSession`.
* SQLite is taken to give serialisable transactions and to roll back what a
  killed process left open. `MaxClock` seconds tick at any moment and never go back.
* `AgentSession` has one actor and one session; actors and sessions are told
  apart in `Supervisor` and `DurableSupervisor`.
* The installer's user edits while no command runs; a permission is one bit per
  kind of file. Path validation, symbolic links, invalid JSON and dry runs change
  no state and are left out.
* `CompositeExporter`, capabilities, the benchmark, the rest of the wire-model
  validation and replay's quality metrics are not modelled.

## 7. Plan

Done: all modules of section 2; the proofs of section 5, for every property of the
runs that is neither liveness nor about a fold or a recursion.

Open, in this order:

1. `AgentSession` with two actors and parallel calls in a passing run, stating
   and proving what does hold when a validation overlaps a write.
2. `CompositeExporter`, the exporter's `status`, replay's quality metrics.
