----------------------------- MODULE HookInput -----------------------------
(***************************************************************************)
(* From the JSON a host sends to the event the store keeps: the adapters'  *)
(* normalisation, the redaction before anything is written, and what the   *)
(* scope detector makes of a path.  Pure operators.  What the redaction    *)
(* does to a JSON value is a constant, which the module Redaction computes.*)
(*                                                                         *)
(* A JSON value is a record with one field that names its kind.  A text is *)
(* a sequence of tokens: characters where the code looks at characters     *)
(* (slashes, dots, quotes, line ends), otherwise whole words.  Limits on   *)
(* the length of a field are left out, and extension keys have lost their  *)
(* platform's prefix.                                                      *)
(***************************************************************************)
EXTENDS HookResponse, SequencesExt

CONSTANTS
  RedactValue(_),  \* a JSON value without its credentials; Redaction computes it
  Redactions(_)    \* how many values that replaces

Text(tokens) == [text |-> tokens]
Number(n) == [number |-> n]
Bool(b) == [bool |-> b]
Null == [null |-> TRUE]
Object(fields) == [object |-> fields]
Array(values) == [array |-> values]

Is(value, kind) == DOMAIN value = {kind}
Word(value) == value.text[1]

Truthy(value) ==
  CASE Is(value, "text") -> value.text # <<>>
    [] Is(value, "number") -> value.number # 0
    [] Is(value, "bool") -> value.bool
    [] Is(value, "object") -> DOMAIN value.object # {}
    [] Is(value, "array") -> value.array # <<>>
    [] OTHER -> FALSE

Given(fields, key) == key \in DOMAIN fields /\ Truthy(fields[key])
HasText(fields, key) == key \in DOMAIN fields /\ Is(fields[key], "text")

RequiredString(raw, key) == HasText(raw, key) /\ Truthy(raw[key])
OptionalString(raw, key) == key \in DOMAIN raw => Is(raw[key], "null") \/ Is(raw[key], "text")
RequiredBool(raw, key) == key \in DOMAIN raw /\ Is(raw[key], "bool")

-----------------------------------------------------------------------------
(* Which fields an event must and may have *)

HookEventTypes ==
  [SessionStart |-> "session.start", UserPromptSubmit |-> "prompt.submit",
   PermissionRequest |-> "permission.request", PreToolUse |-> "tool.before",
   PostToolUse |-> "tool.after", PostToolUseFailure |-> "tool.error",
   PreCompact |-> "compaction.before", PostCompact |-> "compaction.after",
   SubagentStart |-> "subagent.start", SubagentStop |-> "subagent.stop",
   TaskCompleted |-> "task.completed", Stop |-> "agent.stop",
   StopFailure |-> "agent.error", SessionEnd |-> "session.end"]

AllowedHooks(platform) ==
  IF platform = "codex"
  THEN DOMAIN HookEventTypes \ {"PostToolUseFailure", "TaskCompleted", "StopFailure"}
  ELSE DOMAIN HookEventTypes

CallTypes == {"tool.before"} \cup ResultTypes

RequiredStrings(type) ==
  CASE type = "session.start" -> {"source"}
    [] type = "session.end" -> {"reason"}
    [] type = "prompt.submit" -> {"prompt"}
    [] type = "permission.request" -> {"tool_name"}
    [] type \in CallTypes -> {"tool_name", "tool_use_id"}
    [] type \in {"compaction.before", "compaction.after"} -> {"trigger"}
    [] type \in {"subagent.start", "subagent.stop"} -> {"agent_type"}
    [] type = "task.completed" -> {"task_id", "task_subject"}
    [] type = "agent.error" -> {"error"}
    [] type = "agent.stop" -> {}

OptionalStrings(type) ==
  CASE type = "permission.request" -> {"tool_use_id"}
    [] type = "compaction.before" -> {"custom_instructions"}
    [] type = "compaction.after" -> {"compact_summary"}
    [] type \in TurnStops -> {"last_assistant_message"}
    [] type = "task.completed" -> {"task_description", "teammate_name", "team_name"}
    [] type = "agent.error" -> {"error_details", "last_assistant_message"}
    [] OTHER -> {}

ResultKey(type) == IF type = "tool.error" THEN "error" ELSE "tool_response"

RequiredValues(type) ==
  (IF type \in CallTypes \cup PreTypes THEN {"tool_input"} ELSE {})
    \cup (IF type \in ResultTypes THEN {ResultKey(type)} ELSE {})

OptionalValues(type) ==
  CASE type = "permission.request" -> {"permission_suggestions"}
    [] type = "agent.stop" -> {"background_tasks", "session_crons"}
    [] OTHER -> {}

\* No field makes the adapter raise an error.
Readable(platform, raw) ==
  /\ raw # None
  /\ RequiredString(raw, "hook_event_name")
  /\ Word(raw.hook_event_name) \in AllowedHooks(platform)
  /\ RequiredString(raw, "session_id") /\ RequiredString(raw, "cwd")
  /\ OptionalString(raw, "turn_id") /\ OptionalString(raw, "agent_id")
  /\ Given(raw, "turn_id") \/ OptionalString(raw, "prompt_id")
  /\ LET type == HookEventTypes[Word(raw.hook_event_name)]
     IN  /\ \A key \in RequiredStrings(type) : RequiredString(raw, key)
         /\ \A key \in OptionalStrings(type) : OptionalString(raw, key)
         /\ RequiredValues(type) \subseteq DOMAIN raw
         /\ type \in TurnStops => RequiredBool(raw, "stop_hook_active")
         /\ type \in CallTypes /\ "duration_ms" \in DOMAIN raw =>
              \/ Is(raw["duration_ms"], "null")
              \/ Is(raw["duration_ms"], "number") /\ raw["duration_ms"].number >= 0

-----------------------------------------------------------------------------
(* What the fields say *)

CanonicalToolName(name) ==
  CASE name \in {"Bash", "PowerShell"} -> "shell"
    [] name = "apply_patch" -> "file.patch"
    [] name = "Edit" -> "file.edit"
    [] name = "Write" -> "file.write"
    [] name = "Read" -> "file.read"
    [] OTHER -> name

\* The lines of a text, as the set of <<first, last>> positions.
LinesOf(text) ==
  {line \in (1..(Len(text) + 1)) \X (0..Len(text)) :
     /\ line[1] <= line[2] + 1
     /\ line[1] = 1 \/ text[line[1] - 1] = "\n"
     /\ line[2] = Len(text) \/ text[line[2] + 1] = "\n"
     /\ \A i \in line[1]..line[2] : text[i] # "\n"}

\* "*** Update File: " at the start of a line is one token.
PatchPaths(text) ==
  {SubSeq(text, line[1] + 1, line[2]) :
     line \in {l \in LinesOf(text) : l[1] < l[2] /\ text[l[1]] = "*** File: "}}

ExtractPaths(tool, arguments) ==
  IF ~Is(arguments, "object") THEN {}
  ELSE LET fields == arguments.object
           key == IF Given(fields, "file_path") THEN "file_path" ELSE "path"
       IN  (IF HasText(fields, key) THEN {fields[key].text} ELSE {})
             \cup (IF tool = "file.patch" /\ HasText(fields, "command")
                   THEN PatchPaths(fields["command"].text) ELSE {})

\* The terminal status of unittest: OK or FAILED on the last line that is not blank.
InferUnittestOutcome(text) ==
  LET status == {line \in LinesOf(text) :
                   /\ line[1] <= line[2]
                   /\ \A i \in (line[2] + 1)..Len(text) : text[i] \in {" ", "\n"}}
      word(line) == SelectSeq(SubSeq(text, line[1], line[2]), LAMBDA t : t # " ")
  IN  CASE \E line \in status : word(line) = <<"FAILED">> -> "failure"
        [] \E line \in status : word(line) = <<"OK">> -> "success"
        [] OTHER -> "unknown"

InferOutcome_Mutant(result, error_event) ==
  LET Field(key, kind) == key \in DOMAIN result.object /\ Is(result.object[key], kind)
      codes == {key \in {"exit_code", "exitCode", "status_code"} : Field(key, "number")}
  IN  CASE Is(result, "text") -> InferUnittestOutcome(result.text)
        [] Is(result, "object") /\ Field("success", "bool")
             -> IF result.object["success"].bool THEN "success" ELSE "failure"
        [] Is(result, "object") /\ \E key \in codes : result.object[key].number = 0 -> "success"
        [] OTHER -> "unknown"

\* Any structured sign of failure wins, then any of success, then the status line.
InferOutcome(result, error_event) ==
  LET fields == result.object
      Flag(key, b) == key \in DOMAIN fields /\ fields[key] = Bool(b)
      codes == {fields[key].number :
                  key \in {k \in {"exit_code", "exitCode", "status_code"} \cap DOMAIN fields :
                             Is(fields[k], "number")}}
      streams == SelectSeq(<<"stdout", "stderr">>, LAMBDA key : HasText(fields, key))
      output == FoldLeft(LAMBDA text, key :
                           IF key = streams[1] THEN fields[key].text
                           ELSE text \o <<"\n">> \o fields[key].text, <<>>, streams)
  IN  CASE error_event -> "failure"
        [] ~error_event /\ Is(result, "text") -> InferUnittestOutcome(result.text)
        [] ~error_event /\ Is(result, "object") ->
             CASE Flag("success", FALSE) \/ Flag("is_error", TRUE) \/ codes \ {0} # {} -> "failure"
               [] Flag("success", TRUE) \/ Flag("is_error", FALSE) \/ 0 \in codes -> "success"
               [] OTHER -> InferUnittestOutcome(output)
        [] OTHER -> "unknown"

-----------------------------------------------------------------------------
(* The normalised event *)

Renamed == [tool_name |-> "tool", tool_input |-> "arguments", tool_use_id |-> "tool_call_id",
            tool_response |-> "result", compact_summary |-> "summary"]

PayloadName(type, key) ==
  CASE key \in DOMAIN Renamed -> Renamed[key]
    [] key = "error" /\ type = "tool.error" -> "result"
    [] key = "last_assistant_message" /\ type \in TurnStops -> "last_message"
    [] OTHER -> key

\* The fields of raw that the payload of this type takes over.
PayloadKeys(type, raw) ==
  LET keys == RequiredStrings(type) \cup RequiredValues(type) \cup OptionalValues(type)
                \cup (OptionalStrings(type) \ {"tool_use_id"})
                \cup (IF type \in TurnStops THEN {"stop_hook_active"} ELSE {})
                \cup (IF type \in CallTypes /\ "duration_ms" \in DOMAIN raw
                         /\ ~Is(raw["duration_ms"], "null") THEN {"duration_ms"} ELSE {})
                \cup (IF type = "permission.request" /\ Given(raw, "tool_use_id")
                      THEN {"tool_use_id"} ELSE {})
  IN  keys \cap DOMAIN raw

NormalizedPayload(type, raw) ==
  LET keys == PayloadKeys(type, raw)
      taken == [name \in {PayloadName(type, key) : key \in keys} |->
                  LET value == raw[CHOOSE key \in keys : PayloadName(type, key) = name]
                  IN  IF name = "tool" THEN Text(<<CanonicalToolName(Word(value))>>) ELSE value]
      call == IF type \notin CallTypes \cup PreTypes THEN <<>>
              ELSE [paths |-> Array(SetToSeq({Text(p) : p \in
                       ExtractPaths(CanonicalToolName(Word(raw["tool_name"])), raw["tool_input"])}))]
      result == IF type \notin ResultTypes THEN <<>>
                ELSE [outcome |-> Text(<<InferOutcome(raw[ResultKey(type)], type = "tool.error")>>)]
      message == IF type \notin TurnStops THEN <<>> ELSE [last_message |-> Null]
  IN  taken @@ call @@ result @@ message

CommonKeys ==
  {"session_id", "turn_id", "prompt_id", "transcript_path", "cwd", "permission_mode", "effort",
   "hook_event_name", "model", "agent_id", "agent_type"}

\* A field no event type knows; what it holds is kept as an extension.
ExtraKeys(raw) ==
  {key \in DOMAIN raw \ CommonKeys :
     /\ \A type \in EventTypes : key \notin RequiredStrings(type) \cup RequiredValues(type)
                                     \cup OptionalStrings(type) \cup OptionalValues(type)
     /\ key \notin {"stop_hook_active", "duration_ms", "agent_transcript_path"}}

Extensions(type, raw) ==
  LET kept == {"hook_event_name", "transcript_path", "permission_mode", "model", "prompt_id", "effort"}
                \cup (IF type \in CallTypes \cup PreTypes THEN {"tool_name"} ELSE {})
  IN  [key \in kept \cap DOMAIN raw |-> raw[key]]
        @@ (IF ExtraKeys(raw) = {} THEN <<>>
            ELSE [extra |-> Object([key \in ExtraKeys(raw) |-> raw[key]])])

\* The event, or None for an input the adapter refuses.
BuildEvent(platform, raw) ==
  IF ~Readable(platform, raw) THEN None
  ELSE LET type == HookEventTypes[Word(raw.hook_event_name)]
           Field(key, missing) == IF Given(raw, key) THEN raw[key] ELSE missing
       IN  [type |-> type, session_id |-> raw.session_id, cwd |-> raw.cwd,
            turn_id |-> Field("turn_id", IF "prompt_id" \in DOMAIN raw THEN raw["prompt_id"] ELSE Null),
            agent_id |-> Field("agent_id", Text(<<"unknown">>)),
            payload |-> NormalizedPayload(type, raw), extensions |-> Extensions(type, raw)]

-----------------------------------------------------------------------------
(* Redaction *)

\* The event as it is stored and judged.
RedactEvent(event) ==
  [event EXCEPT !.payload = RedactValue(Object(@)).object, !.extensions = RedactValue(Object(@)).object,
                !.cwd = RedactValue(@), !.turn_id = RedactValue(@)]

\* How many values of it were replaced.
RedactionCount(event) ==
  Redactions(Object(event.payload)) + Redactions(Object(event.extensions))
    + Redactions(event.cwd) + Redactions(event.turn_id)

-----------------------------------------------------------------------------
(* Paths *)

Slashes(path) == [i \in DOMAIN path |-> IF path[i] = "\\" THEN "/" ELSE path[i]]

LStrip(path, tokens) ==
  SubSeq(path, Min({i \in 1..(Len(path) + 1) : i > Len(path) \/ path[i] \notin tokens}), Len(path))
RStrip(path, tokens) ==
  SubSeq(path, 1, Max({i \in 0..Len(path) : i = 0 \/ path[i] \notin tokens}))

RelativePath_Mutant(path, root) == [path |-> LStrip(Slashes(path), {".", "/"}), inside |-> TRUE]

\* The path below the repository's root, and whether it is there at all.
RelativePath(path, root) ==
  LET normalized == RStrip(Slashes(path), {"/"})
      base == RStrip(Slashes(root), {"/"})
      below == base \o <<"/">>
      absolute == \/ normalized # <<>> /\ normalized[1] = "/"
                  \/ Len(normalized) > 2 /\ SubSeq(normalized, 2, 3) = <<":", "/">>
  IN  CASE root = None -> [path |-> LStrip(normalized, {"/"}), inside |-> TRUE]
        [] root # None /\ normalized = base -> [path |-> <<".">>, inside |-> TRUE]
        [] root # None /\ IsPrefix(below, normalized)
             -> [path |-> SubSeq(normalized, Len(below) + 1, Len(normalized)), inside |-> TRUE]
        [] OTHER -> [path |-> IF absolute THEN normalized ELSE LStrip(normalized, {".", "/"}),
                     inside |-> ~absolute]

\* match[i, j]: the first j tokens of the pattern match the first i of the path.
FnMatch(path, pattern) ==
  LET match[i \in 0..Len(path), j \in 0..Len(pattern)] ==
        IF j = 0 THEN i = 0
        ELSE IF pattern[j] = "*" THEN match[i, j - 1] \/ (i > 0 /\ match[i - 1, j])
        ELSE i > 0 /\ path[i] = pattern[j] /\ match[i - 1, j - 1]
  IN  match[Len(path), Len(pattern)]

MatchesPattern(path, pattern) ==
  LET normalized == LStrip(Slashes(pattern), {".", "/"})
      root == RStrip(SubSeq(normalized, 1, Len(normalized) - 3), {"/"})
  IN  IF IsSuffix(<<"/", "*", "*">>, normalized)
      THEN path = root \/ IsPrefix(root \o <<"/">>, path)
      ELSE FnMatch(path, normalized)

\* What Guard's ScopeDetector takes as AllowedPaths.
AllowedBy(patterns, path, root) ==
  LET relative == RelativePath(path, root)
  IN  relative.inside /\ \E pattern \in patterns : MatchesPattern(relative.path, pattern)
=============================================================================
