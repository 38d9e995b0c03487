---------------------------- MODULE HookResponse ----------------------------
(***************************************************************************)
(* How a decision becomes the native answer of a hook process: the adapter *)
(* renders the decision or its fallback, the runtime hides it in observe   *)
(* mode, and the command turns an error into an exit code.                 *)
(*                                                                         *)
(* A response is [applied_action, stdout, exit_code].  stdout is None or   *)
(* the kind of control field it holds: "message", "context", "deny" (a     *)
(* permission denied), "block" or "halt" (continue: false).                *)
(***************************************************************************)
EXTENDS Guard

EventTypes ==
  {"session.start", "prompt.submit", "permission.request", "tool.before", "tool.after",
   "tool.error", "compaction.before", "compaction.after", "subagent.start",
   "subagent.stop", "task.completed", "agent.stop", "agent.error", "session.end"}

Platforms == {"codex", "claude-code"}
Modes == {"enforce", "observe"}

AppliedActions ==
  {"allow", "defer", "warn", "reanchor", "continue", "block", "abort", "observe", "error"}
Controls == {"message", "context", "deny", "block", "halt"}
Responses ==
  [applied_action : AppliedActions, stdout : Controls \cup {None}, exit_code : {0, 2}]

ASSUME ResponseAssumption == None \notin AppliedActions \cup Controls \cup Responses

Native(action, stdout) == [applied_action |-> action, stdout |-> stdout, exit_code |-> 0]
ExitTwo(action) == [applied_action |-> action, stdout |-> None, exit_code |-> 2]

ObservationResponse == Native("observe", None)

\* The answers that keep the host from going on.
Prevents(response) ==
  response.stdout \in {"deny", "block", "halt"} \/ response.exit_code = 2

TurnStops == {"agent.stop", "subagent.stop"}
AbortTypes ==
  {"session.start", "prompt.submit", "compaction.before", "compaction.after"}
    \cup ResultTypes \cup TurnStops

CommonHookResponse_Mutant(type, action, precompact_uses_continue) ==
  CASE action = "allow" -> Native(action, None)
    [] action = "warn" -> Native(action, "message")
    [] action \in {"continue", "reanchor", "block"} /\ type \in TurnStops -> Native(action, "block")
    [] action = "reanchor" /\ type \notin TurnStops -> Native(action, "context")
    [] action = "block" /\ type = "tool.before" -> Native(action, "deny")
    [] OTHER -> None

\* The response, or None when the host has no way to apply the action there.
CommonHookResponse(type, action, precompact_uses_continue) ==
  CASE action = "allow" -> Native(IF type = "permission.request" THEN "defer" ELSE action, None)
    [] action = "warn" -> Native(action, "message")
    [] action \in {"continue", "block"} /\ type = "task.completed" -> ExitTwo(action)
    [] action \in {"continue", "reanchor", "block"} /\ type \in TurnStops -> Native(action, "block")
    [] action = "reanchor" /\ type \notin TurnStops \cup {"session.end"} -> Native(action, "context")
    [] action = "block" /\ type \in PreTypes -> Native(action, "deny")
    [] action = "block" /\ type \in {"prompt.submit"} \cup ResultTypes -> Native(action, "block")
    [] action = "block" /\ type = "compaction.before"
         -> Native(action, IF precompact_uses_continue THEN "halt" ELSE "block")
    [] action = "abort" /\ type \in AbortTypes -> Native(action, "halt")
    [] OTHER -> None

RenderWithFallback_Mutant(platform, type, decision) ==
  CommonHookResponse(type, decision.action, platform = "codex")

\* The response, or None for UnsupportedDecisionError.
RenderWithFallback(platform, type, decision) ==
  LET Render(action) == CommonHookResponse(type, action, platform = "codex")
  IN  IF Render(decision.action) = None /\ decision.fallback # None
      THEN Render(decision.fallback) ELSE Render(decision.action)

\* The hook command on an error: silence and exit 0 in observe mode, else exit 2.
FailureResponse_FailOpen(mode) == Native("error", None)
FailureResponse(mode) == IF mode = "observe" THEN Native("error", None) ELSE ExitTwo("error")

Handle_Mutant(mode, platform, type, decision, exported) ==
  LET response == RenderWithFallback(platform, type, decision)
  IN  CASE ~exported -> FailureResponse(mode)
        [] exported /\ mode = "observe" -> ObservationResponse
        [] OTHER -> IF response = None THEN FailureResponse(mode) ELSE response

\* What the hook process answers, whether or not the observation was exported.
Handle(mode, platform, type, decision, exported) ==
  LET response == RenderWithFallback(platform, type, decision)
  IN  CASE mode = "observe" -> ObservationResponse
        [] mode # "observe" /\ response # None -> response
        [] OTHER -> FailureResponse(mode)
=============================================================================
