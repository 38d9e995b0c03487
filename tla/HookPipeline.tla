---------------------------- MODULE HookPipeline ----------------------------
(***************************************************************************)
(* One hook process after another, from the JSON of the host to the native *)
(* answer: normalise, redact and store, detect, decide, render.  A         *)
(* behaviour works through a script of hook inputs, one session of a host. *)
(* A Supervisor may be given detectors of the caller's own, so in some     *)
(* sessions any further evidence may turn up, at every event type and not  *)
(* only where the five built-in detectors look.                            *)
(*                                                                         *)
(* How hook processes overlap is the business of DurableSupervisor and     *)
(* AgentSession; here they follow one another.                             *)
(***************************************************************************)
EXTENDS HookInput, ShellText

CONSTANTS
  Families,      \* sets of scripts, sequences of hook inputs; None is JSON that is no object
  Scores,        \* scores of the evidence of other detectors
  MaxEvidence,   \* bound: evidence items of one event
  OwnSessions,   \* sessions supervised with detectors of the caller's own
  RepoRoot,      \* --repo-root of the installed runner
  AllowedPatterns,  \* ConstraintAnchor.allowed_write_paths
  ForbiddenWords,   \* what the forbidden_command_patterns search for
  ScopeRoots     \* what the allowed patterns mean: components below the repository

ASSUME PipelineAssumption == Scores \subseteq 0..100 /\ MaxEvidence \in Nat

VARIABLES
  mode, platform, script,
  done,       \* inputs of the script that were handled
  event,      \* the last input as the adapter normalised it, None if it was refused
  stored,     \* that event as the store keeps it
  redactions, \* how many values of it were replaced
  history,    \* what the detectors read of the events before it
  evidence, response

vars == <<mode, platform, script, done, event, stored, redactions, history, evidence, response>>

\* What the patterns of the anchors say of a command and of a path.
CommandKind(command) ==
  [validation |-> RecognisedValidation(command),
   forbidden |-> ToSet(command) \cap ForbiddenWords # {}]
PathKind(path) == IF AllowedBy(AllowedPatterns, path, RepoRoot) THEN "allowed" ELSE "outside"

\* What the detectors read of an event.
Body(e) ==
  LET payload == e.payload
      arguments == IF "arguments" \in DOMAIN payload /\ Is(payload["arguments"], "object")
                   THEN payload["arguments"].object ELSE <<>>
      Named(key) == IF HasText(payload, key) THEN Word(payload[key]) ELSE None
  IN  [type |-> e.type, actor |-> e.agent_id, tool |-> Named("tool"),
       command |-> IF HasText(arguments, "command") THEN CommandKind(arguments["command"].text) ELSE None,
       paths |-> IF "paths" \in DOMAIN payload
                 THEN {PathKind(value.text) : value \in ToSet(payload["paths"].array)} ELSE {},
       outcome |-> Named("outcome"),
       claim |-> HasText(payload, "last_message") /\ "done" \in ToSet(payload["last_message"].text)]

Init ==
  /\ mode \in Modes /\ platform \in Platforms
  /\ \E scripts \in Families : script \in scripts
  /\ done = 0 /\ event = None /\ stored = None /\ redactions = 0
  /\ history = <<>> /\ evidence = <<>> /\ response = None

Input == script[done + 1]

\* The adapter raises an error; the command turns it into its exit code.
Refuse ==
  /\ done < Len(script)
  /\ BuildEvent(platform, Input) = None
  /\ done' = done + 1
  /\ event' = None /\ stored' = None /\ redactions' = 0 /\ evidence' = <<>>
  /\ response' = FailureResponse(mode)
  /\ UNCHANGED <<mode, platform, script, history>>

HandleInput ==
  /\ done < Len(script)
  /\ BuildEvent(platform, Input) # None
  /\ event' = BuildEvent(platform, Input)
  /\ stored' = RedactEvent(event')
  /\ redactions' = RedactionCount(event')
  /\ \E body \in {Body(stored')} :
       /\ evidence' = Detect(body, history)
       /\ response' = Handle(mode, platform, body.type, Decide(body, evidence'), TRUE)
       /\ history' = Append(history, body)
  /\ done' = done + 1
  /\ UNCHANGED <<mode, platform, script>>

OwnItems == {Evidence("any", "validation_drift", severity, score) :
               severity \in DOMAIN Rank, score \in Scores}

\* One more detector reports something about the event.
Detected(item) ==
  /\ stored # None /\ Word(stored.session_id) \in OwnSessions
  /\ Len(evidence) < MaxEvidence
  /\ evidence' = Append(evidence, item)
  /\ response' = Handle(mode, platform, stored.type, Decide(Body(stored), evidence'), TRUE)
  /\ UNCHANGED <<mode, platform, script, done, event, stored, redactions, history>>

Next == Refuse \/ HandleInput \/ \E item \in OwnItems : Detected(item)

Spec == Init /\ [][Next]_vars

-----------------------------------------------------------------------------
(* The policy never proposes what the host cannot do without a fallback     *)
(* that it can: evidence about an event the adapter accepts never turns     *)
(* into an UnsupportedDecisionError, which in enforce mode would exit 2     *)
(* (engine.py:40-66, decision_mapping.py:20-32).                            *)
AlwaysRenderable == stored # None => response.applied_action # "error"

(* Evidence of high or critical severity prevents a tool call and any stop, *)
(* together with whatever weaker evidence in whatever order, and only in    *)
(* enforce mode (engine.py:31-49, decision_mapping.py:57-123).              *)
StrongEvidencePrevents ==
  (/\ stored # None
   /\ \E i \in 1..Len(evidence) : Rank[evidence[i].severity] >= Rank["high"]
   /\ stored.type \in PreTypes \cup StopTypes)
  => (Prevents(response) <=> mode = "enforce")

(* More evidence never weakens the answer: once a response prevents what    *)
(* the host was about to do, further evidence on that event does not undo   *)
(* it.  Evidence of severity info is left out: it holds a stop, which low   *)
(* evidence only warns about (engine.py:31-49).                             *)
MoreEvidenceNeverWeakens ==
  [][(done' = done /\ \A i \in 1..Len(evidence') : evidence'[i].severity # "info")
       => (Prevents(response) => Prevents(response'))]_vars

-----------------------------------------------------------------------------
(* References: what a reader of the raw inputs says of them *)

Hook(raw) == Word(raw.hook_event_name)

CommandOf(raw) ==
  IF "tool_input" \in DOMAIN raw /\ Is(raw["tool_input"], "object")
     /\ HasText(raw["tool_input"].object, "command")
  THEN raw["tool_input"].object["command"].text ELSE <<>>

Wrote(raw) == Hook(raw) = "PreToolUse" /\ Word(raw["tool_name"]) \in {"Edit", "Write", "apply_patch"}

\* The structured signs of success a result carries, as booleans.
Signs(fields) ==
  {fields[key].number = 0 : key \in {k \in DOMAIN fields : Is(fields[k], "number")}}
    \cup {IF key = "is_error" THEN ~fields[key].bool ELSE fields[key].bool :
            key \in {k \in DOMAIN fields : Is(fields[k], "bool")}}

LastWord(text) ==
  LET words == SelectSeq(text, LAMBDA token : token \notin Blanks)
  IN  IF words = <<>> THEN "" ELSE words[Len(words)]

ShowsSuccess(result) ==
  IF Is(result, "text") THEN LastWord(result.text) = "OK"
  ELSE /\ Is(result, "object")
       /\ LET fields == result.object
              Output(key) == IF HasText(fields, key) THEN fields[key].text ELSE <<>>
          IN  IF Signs(fields) # {} THEN Signs(fields) = {TRUE}
              ELSE LastWord(Output("stdout") \o Output("stderr")) = "OK"

RanTests(raw) ==
  Hook(raw) \in {"PostToolUse", "PostToolUseFailure"} \cap AllowedHooks(platform)
    /\ Word(raw["tool_name"]) = "Bash" /\ RunsTests(CommandOf(raw))

(* In enforce mode, after a write, a stop is let through only if there was  *)
(* a call since then that could not succeed unless a shell ran the tests    *)
(* and waited for them, and the last such call shows success and nothing    *)
(* else: text in quotes and comments, background runs, contradictory        *)
(* results and status lines that something follows are no validation        *)
(* (helpers.py:16-94, anchors.py:11, normalization.py:108-151;              *)
(* docs/hook-installation.md:45-49).  The success is that of the call: that *)
(* of the tests if nothing but && follows them, of another command in       *)
(* "test | word" or "test || word".  A test that may be skipped, as in      *)
(* "word || test", is left out (PlainlyWritten): the code counts it as run. *)
(* A failed run counts only where the host has a hook for it.               *)
ValidationIsReal ==
  (/\ mode = "enforce" /\ stored # None /\ ~Prevents(response)
   /\ Hook(script[done]) = "Stop"
   /\ \E i \in 1..done : Wrote(script[i])
   /\ \A i \in 1..done : PlainlyWritten(CommandOf(script[i])))
  => LET runs == {i \in 1..done : RanTests(script[i]) /\ \A j \in i..done : ~Wrote(script[j])}
     IN  /\ runs # {}
         /\ Hook(script[Max(runs)]) = "PostToolUse"
         /\ ShowsSuccess(script[Max(runs)]["tool_response"])

Components(path) ==
  LET Add(parts, token) == IF token \in {"/", "\\"} THEN Append(parts, <<>>)
                           ELSE [parts EXCEPT ![Len(parts)] = Append(@, token)]
  IN  FoldLeft(Add, <<<<>>>>, path)

\* No empty, dot or dot-led component, but for the root, a leading ./ and a last slash.
PlainPath(path) ==
  LET parts == Components(path)
  IN  \A i \in DOMAIN parts :
        /\ parts[i] = <<>> => i \in {1, Len(parts)} /\ Len(parts) > 1
        /\ parts[i] # <<>> /\ parts[i][1] = "." => i = 1 /\ parts[i] = <<".">>

InScope(path) ==
  LET Real(p) == SelectSeq(Components(p), LAMBDA part : part \notin {<<>>, <<".">>})
      absolute == Components(path)[1] = <<>>
      target == IF absolute THEN Real(path) ELSE Real(RepoRoot) \o Real(path)
  IN  \E root \in ScopeRoots : IsPrefix(Real(RepoRoot) \o root, target)

\* The targets an Edit names; none when its arguments are not what Edit takes.
Targets(raw) ==
  IF Hook(raw) = "PreToolUse" /\ Word(raw["tool_name"]) = "Edit" /\ Is(raw["tool_input"], "object")
     /\ HasText(raw["tool_input"].object, "file_path")
  THEN {raw["tool_input"].object["file_path"].text} \ {<<>>} ELSE {}

(* A target without .. and without components led by a dot may be written   *)
(* relative to the repository or absolute, with slashes or backslashes: it  *)
(* is reported exactly when it leaves the allowed scope (scope.py:14-67;    *)
(* docs/supervisor.md:24).                                                  *)
ScopeIsRespected ==
  stored # None =>
    \A path \in Targets(script[done]) : PlainPath(path) =>
      ((\E i \in 1..Len(evidence) : evidence[i].detector = "scope") <=> ~InScope(path))
=============================================================================
