------------------------------- MODULE Guard -------------------------------
(***************************************************************************)
(* The deterministic core of agent-drift: what the five detectors find in  *)
(* an event and the bounded history before it, and what the policy decides *)
(* from that evidence.  Pure operators over the anchors, no state.         *)
(*                                                                         *)
(* An event's body is a record with the fields the detectors read:         *)
(*   type      the canonical event type                                    *)
(*   actor     <<platform, repo_root, agent_id>>                           *)
(*   tool, command, paths, description                                     *)
(*             the tool call; command is None for a tool without a command *)
(*   outcome   "success", "failure", "unknown" or None                     *)
(*   claim     does last_message claim completion                          *)
(* The detectors see the actor's prior events as a function h from their   *)
(* positions in the session, which keeps their order.                      *)
(* A command or a path is a value; whether a pattern matches it is given   *)
(* by the sets below.  Scores are in hundredths.                           *)
(***************************************************************************)
EXTENDS Integers, Sequences, FiniteSets, FiniteSetsExt

CONSTANTS
  None,                \* an absent optional field
  ForbiddenTools,      \* ConstraintAnchor.forbidden_tools
  ForbiddenCommands,   \* commands some forbidden_command_pattern matches
  ScopeConfigured,     \* is allowed_write_paths non-empty
  AllowedPaths,        \* paths inside the repository some allowed pattern matches
  ValidationCommands,  \* commands recognised as a foreground validation run
  RepeatThreshold, FailureThreshold, OscillationCycles, \* LoopDetector(...)
  HistoryLimit         \* Supervisor(history_limit)

ASSUME GuardAssumption ==
  /\ RepeatThreshold \in Nat /\ RepeatThreshold >= 2
  /\ FailureThreshold \in Nat /\ FailureThreshold >= 2
  /\ OscillationCycles \in Nat /\ OscillationCycles >= 2
  /\ HistoryLimit \in Nat /\ HistoryLimit >= 1
  /\ ScopeConfigured \in BOOLEAN

WriteTools == {"file.patch", "file.edit", "file.write"}
PreTypes == {"tool.before", "permission.request"}
ResultTypes == {"tool.after", "tool.error"}
StopTypes == {"agent.stop", "subagent.stop", "task.completed"}

Evidence(detector, drift, severity, score) ==
  [detector |-> detector, drift_type |-> drift, severity |-> severity, score |-> score]

-----------------------------------------------------------------------------
(* Constraint and scope *)

ConstraintDetector(e) ==
  IF e.type \in PreTypes /\ (e.tool \in ForbiddenTools \/ e.command \in ForbiddenCommands)
  THEN <<Evidence("constraint", "constraint_drift", "critical", 100)>>
  ELSE <<>>

ScopeDetector(e) ==
  IF /\ e.type \in PreTypes
     /\ e.tool \in WriteTools
     /\ ScopeConfigured
     /\ e.paths \ AllowedPaths # {}
  THEN <<Evidence("scope", "scope_drift", "high", 95)>>
  ELSE <<>>

-----------------------------------------------------------------------------
(* Loops: the fingerprint of a call leaves the display-only description out *)

Fingerprint(e) == [tool |-> e.tool, command |-> e.command, paths |-> e.paths]

ToolResults(h) == {i \in DOMAIN h : h[i].type \in ResultTypes}
Calls(h) == {i \in DOMAIN h : h[i].type = "tool.before"}

FailureRun_Mutant(e, h) ==
  1 + Cardinality({i \in ToolResults(h) : h[i].outcome = "failure" /\ Fingerprint(h[i]) = Fingerprint(e)})

\* The identical failing results that end with e, a failing result itself: a
\* result counts when it and all younger ones are identical failures.
FailureRun(e, h) ==
  LET Same(i) == h[i].outcome = "failure" /\ Fingerprint(h[i]) = Fingerprint(e)
  IN  1 + Cardinality({i \in ToolResults(h) : \A j \in ToolResults(h) : j >= i => Same(j)})

RepeatRun(e, h) ==
  1 + Cardinality({i \in Calls(h) :
                     \A j \in Calls(h) : j >= i => Fingerprint(h[j]) = Fingerprint(e)})

\* How many calls are younger than the one at i, e included.
CallsSince(h, i) == 1 + Cardinality({j \in Calls(h) : j > i})

Oscillates_Mutant(e, h) ==
  LET size == 2 * OscillationCycles
  IN  /\ Cardinality(Calls(h)) + 1 >= size
      /\ \A i \in Calls(h) :
           CallsSince(h, i) < size /\ CallsSince(h, i) % 2 = 0 => Fingerprint(h[i]) = Fingerprint(e)

\* The last 2 * OscillationCycles calls, e among them, alternate between two fingerprints.
Oscillates(e, h) ==
  LET size == 2 * OscillationCycles
  IN  /\ Cardinality(Calls(h)) + 1 >= size
      /\ \E other \in {Fingerprint(h[i]) : i \in Calls(h)} \ {Fingerprint(e)} :
           \A i \in Calls(h) : CallsSince(h, i) < size =>
             Fingerprint(h[i]) = IF CallsSince(h, i) % 2 = 0 THEN Fingerprint(e) ELSE other

LoopEvidence(score) ==
  <<Evidence("loop", "loop_drift", "high", Min({100, score}))>>

LoopDetector(e, h) ==
  CASE /\ e.type \in ResultTypes
       /\ e.outcome = "failure"
       /\ FailureRun(e, h) >= FailureThreshold
         -> LoopEvidence(75 + 4 * FailureRun(e, h))
    [] e.type = "tool.before" /\ RepeatRun(e, h) >= RepeatThreshold
         -> LoopEvidence(70 + 5 * RepeatRun(e, h))
    [] /\ e.type = "tool.before"
       /\ RepeatRun(e, h) < RepeatThreshold
       /\ Oscillates(e, h)
         -> LoopEvidence(90)
    [] OTHER -> <<>>

-----------------------------------------------------------------------------
(* Writes, validations, and what may be claimed at a stop *)

IsWrite(e) == e.type = "tool.before" /\ e.tool \in WriteTools

IsValidation(e) ==
  /\ e.type \in ResultTypes
  /\ e.tool = "shell"
  /\ e.command \in ValidationCommands

\* Position of the last write, 0 when there is none.
LatestWrite(h) == Max({0} \cup {i \in DOMAIN h : IsWrite(h[i])})

ValidationsAfter_Mutant(h, index) == {i \in DOMAIN h : IsValidation(h[i])}
ValidationsAfter(h, index) == {i \in DOMAIN h : i > index /\ IsValidation(h[i])}

ValidationState_Mutant(h) ==
  LET runs == ValidationsAfter(h, LatestWrite(h))
  IN  IF LatestWrite(h) = 0 THEN "clean" ELSE IF runs = {} THEN "missing" ELSE h[Min(runs)].outcome

\* What the last validation after the last write showed.
ValidationState(h) ==
  LET runs == ValidationsAfter(h, LatestWrite(h))
      outcome == h[Max(runs)].outcome
  IN  CASE LatestWrite(h) = 0 -> "clean"
        [] LatestWrite(h) # 0 /\ runs = {} -> "missing"
        [] OTHER -> IF outcome \in {"success", "failure"} THEN outcome ELSE "unknown"

ValidationDetector(e, h) ==
  IF e.type \notin StopTypes THEN <<>>
  ELSE CASE ValidationState(h) \in {"clean", "success"} -> <<>>
         [] ValidationState(h) = "failure"
              -> <<Evidence("validation", "validation_drift", "high", 95)>>
         [] OTHER -> <<Evidence("validation", "validation_drift", "medium", 75)>>

StateDetector(e, h) ==
  IF /\ e.type \in {"agent.stop", "subagent.stop"}
     /\ e.claim
     /\ ValidationState(h) = "failure"
  THEN <<Evidence("state", "state_drift", "high", 98)>>
  ELSE <<>>

-----------------------------------------------------------------------------
(* The supervisor's detection pass and the policy *)

DetectionHistory_Mutant(e, history) == history

\* Only the events of the same platform, repository and agent are evidence.
DetectionHistory(e, history) ==
  [i \in {i \in 1..Len(history) : history[i].actor = e.actor} |-> history[i]]

\* What the detectors find in the part of the history they are given.
DetectIn(e, h) ==
  ConstraintDetector(e) \o ScopeDetector(e) \o LoopDetector(e, h)
    \o ValidationDetector(e, h) \o StateDetector(e, h)

Detect(e, history) == DetectIn(e, DetectionHistory(e, history))

Rank == [info |-> 0, low |-> 1, medium |-> 2, high |-> 3, critical |-> 4]

Weaker(a, b) ==
  \/ Rank[a.severity] < Rank[b.severity]
  \/ Rank[a.severity] = Rank[b.severity] /\ a.score < b.score

Primary_Mutant(evidence) == evidence[Len(evidence)]

\* max() keeps the first of the strongest items.
Primary(evidence) ==
  evidence[Min({i \in 1..Len(evidence) :
                  \A j \in 1..Len(evidence) : ~Weaker(evidence[i], evidence[j])})]

Action(e, primary) ==
  CASE primary.severity = "low" -> "warn"
    [] /\ primary.severity # "low"
       /\ e.type \in PreTypes /\ primary.severity \in {"high", "critical"} -> "block"
    [] primary.severity # "low" /\ e.type \in StopTypes -> "continue"
    [] OTHER -> "reanchor"

Decide(e, evidence) ==
  IF evidence = <<>>
  THEN [action |-> "allow", fallback |-> None, severity |-> "info",
        drift_type |-> None, score |-> None]
  ELSE LET primary == Primary(evidence)
           action == Action(e, primary)
       IN  [action |-> action,
            fallback |-> IF action = "warn" THEN None ELSE "warn",
            severity |-> primary.severity,
            drift_type |-> primary.drift_type,
            score |-> Max({evidence[i].score : i \in 1..Len(evidence)})]
=============================================================================
