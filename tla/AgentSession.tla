---------------------------- MODULE AgentSession ----------------------------
(***************************************************************************)
(* A guarded agent: the host runs a hook process before and after every    *)
(* tool call and when the agent wants to stop, and obeys its answer.  Calls*)
(* in different slots run in parallel; the stop is asked for when no call  *)
(* is under way.                                                           *)
(*                                                                         *)
(* A hook process does two things the others can observe: it stores its    *)
(* event, which fixes the history its verdict depends on (GuardLog, which  *)
(* DurableSupervisor implements), and it answers.  In between any other    *)
(* process may do either.  The host and the agent are not part of the      *)
(* program; they are modelled from how the adapters use them.              *)
(***************************************************************************)
EXTENDS HookResponse

CONSTANTS
  Slots,          \* tool calls the host runs in parallel
  ToolCalls,      \* the tool calls the agent may propose
  Platform,
  MaxFailures     \* bound: hook processes that fail (bad input, store error, ...)

Outcomes == {"success", "failure", "unknown"}

\* What the host sends to its hooks, and what a hook has stored: its event, and
\* the history before it.
Event ==
  [type : {"agent.stop", "tool.before", "tool.after", "tool.error"}, actor : {"main"},
   tool : {c.tool : c \in ToolCalls} \cup {None},
   command : {c.command : c \in ToolCalls} \cup {None},
   paths : {c.paths : c \in ToolCalls} \cup {{}},
   description : {None}, outcome : Outcomes \cup {None}, claim : {TRUE}]

Stored == [event : Event, history : Seq(Event)]

ASSUME SessionAssumption ==
  /\ Platform \in Platforms /\ MaxFailures \in Nat
  /\ "stop" \notin Slots /\ None \notin Stored

VARIABLES
  mode,      \* --mode of the installed runner
  window,    \* the newest HistoryLimit stored events of the session
  phase,     \* slot -> idle, asking, running, reporting; stop -> idle, asking, stopped
  call,      \* slot -> the tool call, or None
  outcome,   \* slot -> how the call ended, or None
  hook,      \* thread -> what its hook stored, or None
  covered,   \* slots whose running validation started after the last write
  dirty,     \* history variable: written, and no validation since then succeeded
  status,    \* history variable: clean, missing, or how the last validation ended,
             \* where an edit that was held back counts as a write
  failures   \* history variable: hook processes that failed

vars == <<mode, window, phase, call, outcome, hook, covered, dirty, status, failures>>
host == <<call, outcome, covered, dirty, status>>

Threads == Slots \cup {"stop"}

Init ==
  /\ mode \in Modes
  /\ window = <<>>
  /\ phase = [t \in Threads |-> "idle"]
  /\ call = [t \in Slots |-> None]
  /\ outcome = [t \in Slots |-> None]
  /\ hook = [t \in Threads |-> None]
  /\ covered = {}
  /\ dirty = FALSE /\ status = "clean" /\ failures = 0

Writes(c) == c.tool \in WriteTools
Validates(c) == c.tool = "shell" /\ c.command \in ValidationCommands

-----------------------------------------------------------------------------
(* What the host sends to its hooks *)

Body(type, c, result) ==
  [type |-> type, actor |-> "main", tool |-> c.tool, command |-> c.command,
   paths |-> c.paths, description |-> None, outcome |-> result, claim |-> TRUE]

NoTool == [tool |-> None, command |-> None, paths |-> {}]

\* Only Claude Code reports a failed call by an event of its own.
ResultType(result) ==
  IF result = "failure" /\ Platform = "claude-code" THEN "tool.error" ELSE "tool.after"

EventOf(t) ==
  CASE t = "stop" -> Body("agent.stop", NoTool, None)
    [] t # "stop" /\ phase[t] = "asking" -> Body("tool.before", call[t], None)
    [] OTHER -> Body(ResultType(outcome[t]), call[t], outcome[t])

Remember(h, e) ==
  LET longer == Append(h, e)
  IN  IF Len(longer) > HistoryLimit THEN Tail(longer) ELSE longer

-----------------------------------------------------------------------------
(* The agent and the host *)

Propose(t, c) ==
  /\ phase[t] = "idle" /\ phase["stop"] = "idle"
  /\ phase' = [phase EXCEPT ![t] = "asking"]
  /\ call' = [call EXCEPT ![t] = c]
  /\ UNCHANGED <<mode, window, outcome, hook, covered, dirty, status, failures>>

RequestStop ==
  /\ \A t \in Threads : phase[t] = "idle"
  /\ phase' = [phase EXCEPT !["stop"] = "asking"]
  /\ UNCHANGED <<mode, window, hook, host, failures>>

\* The user prompts again.
NewTurn ==
  /\ phase["stop"] = "stopped"
  /\ phase' = [phase EXCEPT !["stop"] = "idle"]
  /\ UNCHANGED <<mode, window, hook, host, failures>>

\* A running call takes effect and ends.
Finish(t, result) ==
  /\ phase[t] = "running"
  /\ phase' = [phase EXCEPT ![t] = "reporting"]
  /\ outcome' = [outcome EXCEPT ![t] = result]
  /\ covered' = IF Writes(call[t]) THEN {} ELSE covered \ {t}
  /\ dirty' = CASE Writes(call[t]) -> TRUE
                [] Validates(call[t]) /\ result = "success" /\ t \in covered -> FALSE
                [] OTHER -> dirty
  /\ status' = CASE Writes(call[t]) -> "missing"
                 [] Validates(call[t]) /\ status # "clean" /\ t \in covered -> result
                 [] OTHER -> status
  /\ UNCHANGED <<mode, window, call, hook, failures>>

\* The host obeys the answer of the hook it ran for thread t.
React(t, response) ==
  /\ hook' = [hook EXCEPT ![t] = None]
  /\ \/ /\ phase[t] = "reporting"
        /\ phase' = [phase EXCEPT ![t] = "idle"]
        /\ call' = [call EXCEPT ![t] = None]
        /\ outcome' = [outcome EXCEPT ![t] = None]
        /\ UNCHANGED <<covered, status>>
     \/ /\ phase[t] = "asking" /\ t # "stop" /\ Prevents(response)
        /\ phase' = [phase EXCEPT ![t] = "idle"]
        /\ call' = [call EXCEPT ![t] = None]
        /\ status' = IF Writes(call[t]) THEN "missing" ELSE status
        /\ UNCHANGED <<outcome, covered>>
     \/ /\ phase[t] = "asking" /\ t # "stop" /\ ~Prevents(response)
        /\ phase' = [phase EXCEPT ![t] = "running"]
        /\ covered' = IF Validates(call[t]) THEN covered \cup {t} ELSE covered
        /\ UNCHANGED <<call, outcome, status>>
     \/ /\ phase[t] = "asking" /\ t = "stop"
        /\ phase' = [phase EXCEPT ![t] = IF Prevents(response) THEN "idle" ELSE "stopped"]
        /\ UNCHANGED <<call, outcome, covered, status>>
  /\ UNCHANGED <<mode, dirty>>

-----------------------------------------------------------------------------
(* The hook process *)

InHook(t) == phase[t] \in {"asking", "reporting"}

\* The event is stored; nothing stored later is part of its history.
Store(t) ==
  /\ InHook(t) /\ hook[t] = None
  /\ hook' = [hook EXCEPT ![t] = [event |-> EventOf(t), history |-> window]]
  /\ window' = Remember(window, EventOf(t))
  /\ UNCHANGED <<mode, phase, host, failures>>

Respond(t, exported) ==
  /\ hook[t] # None
  /\ \E h \in {DetectionHistory(hook[t].event, hook[t].history)} :
     \E evidence \in {DetectIn(hook[t].event, h)} :
     \E decision \in {Decide(hook[t].event, evidence)} :
     \E response \in {Handle(mode, Platform, hook[t].event.type, decision, exported)} :
       React(t, response)
  /\ UNCHANGED <<window, failures>>

\* The process fails before or after it stored the event.
Fail(t) ==
  /\ failures < MaxFailures
  /\ InHook(t)
  /\ React(t, FailureResponse(mode))
  /\ failures' = failures + 1
  /\ UNCHANGED window

HookStep(t) == Store(t) \/ \E exported \in BOOLEAN : Respond(t, exported)

Next ==
  \/ \E t \in Threads : HookStep(t) \/ Fail(t)
  \/ \E t \in Slots, c \in ToolCalls : Propose(t, c)
  \/ \E t \in Slots, result \in Outcomes : Finish(t, result)
  \/ RequestStop
  \/ NewTurn

Spec == Init /\ [][Next]_vars

-----------------------------------------------------------------------------
(* In enforce mode a forbidden call never runs, whatever ran before, in     *)
(* parallel, or failed: not when the telemetry fails and not when the hook  *)
(* fails as a whole (constraint.py:14-57, runtime.py:44-83, cli.py:285-293).*)
ForbiddenNeverRuns ==
  mode = "enforce" => \A t \in Slots : phase[t] = "running" =>
    call[t].tool \notin ForbiddenTools /\ call[t].command \notin ForbiddenCommands

(* In enforce mode, in a session that fits in the window: when the host     *)
(* lets the agent stop, a validation that started after the last write has  *)
(* succeeded, even if hooks failed and results were never stored            *)
(* (validation.py:17-61; docs/supervisor.md:37).                            *)
AcceptedStopIsValidated ==
  mode = "enforce" /\ phase["stop"] = "stopped" /\ Len(window) < HistoryLimit => ~dirty

Held(t) == phase[t] = "asking" /\ phase'[t] = "idle"

(* The guard holds nothing without a reason: never in observe mode, also    *)
(* when the hook fails, and in enforce mode a working hook holds only what  *)
(* there is evidence against; a failure to export the observation is no     *)
(* reason (runtime.py:60-77, cli.py:285-295).                               *)
HeldForAReason ==
  [][\A t \in Threads : Held(t) =>
       /\ mode = "enforce"
       /\ failures' = 0 =>
            hook[t] # None /\ Detect(hook[t].event, hook[t].history) # <<>>]_vars

(* In enforce mode, with working hooks and without parallel calls, a stop   *)
(* is let through exactly when nothing was written or the last validation   *)
(* that started after the last write succeeded; and what fell out of the    *)
(* window never holds a stop (validation.py:17-61, helpers.py:97-107).      *)
StopFollowsStatus ==
  [][mode = "enforce" /\ failures' = 0 =>
       /\ Held("stop") => status \notin {"clean", "success"}
       /\ phase["stop"] = "asking" /\ phase'["stop"] = "stopped" /\ Len(window) < HistoryLimit
            => status \in {"clean", "success"}]_vars
=============================================================================
