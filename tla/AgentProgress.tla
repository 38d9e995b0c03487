---------------------------- MODULE AgentProgress ----------------------------
(***************************************************************************)
(* An agent that wants to end its turn and heeds the guard.  Once a stop   *)
(* was held it writes nothing any more, runs the validation it was asked   *)
(* for now and again, and after a call was held it tries one it did not    *)
(* just try.  The validation detector holds its stop until a validation    *)
(* succeeded, the loop detector holds a call that is repeated or alternates*)
(* with another: together they must leave this agent a way out.            *)
(*                                                                         *)
(* The guard, the hooks and the host are those of AgentSession; what is    *)
(* added is what the agent chooses, so it is external.                     *)
(***************************************************************************)
EXTENDS AgentSession

VARIABLES
  turn,     \* "work": any call; "end": a stop was held, the agent makes amends
  tried,    \* in "end": the last two different calls proposed, latest last
  avoided   \* calls the agent does not try next: those of tried, when one was held

progressVars == <<vars, turn, tried, avoided>>

\* In observe mode nothing is ever held.
ProgressInit ==
  /\ Init /\ mode = "enforce"
  /\ turn = "work" /\ tried = <<>> /\ avoided = {}

Tried(c) == IF tried # <<>> /\ tried[Len(tried)] = c THEN tried
            ELSE IF Len(tried) = 2 THEN <<tried[2], c>> ELSE Append(tried, c)

AgentProposes(t, c) ==
  /\ Propose(t, c)
  /\ turn = "end" => ~Writes(c) /\ c \notin avoided
  /\ tried' = IF turn = "end" THEN Tried(c) ELSE tried
  /\ avoided' = {}
  /\ UNCHANGED turn

\* The agent learns from the answer to a call or to its stop.
AgentHears ==
  /\ turn' = IF Held("stop") THEN "end" ELSE turn
  /\ avoided' = IF \E t \in Slots : Held(t) THEN {tried[i] : i \in DOMAIN tried} ELSE avoided
  /\ UNCHANGED tried

Answered(t) ==
  /\ \/ \E exported \in BOOLEAN : Respond(t, exported)
     \/ Fail(t)
  /\ AgentHears

Quietly(A) == A /\ UNCHANGED <<turn, tried, avoided>>

\* Only the outcome of a validation matters to a demand for one.
Ends(t) ==
  \E result \in {"success", "failure"} :
    /\ Quietly(Finish(t, result))
    /\ result = "success" \/ Validates(call[t])

TurnEnds ==
  /\ NewTurn
  /\ turn' = "work" /\ tried' = <<>> /\ avoided' = {}

ProgressNext ==
  \/ \E t \in Slots, c \in ToolCalls : AgentProposes(t, c)
  \/ \E t \in Threads : Answered(t) \/ Quietly(Store(t))
  \/ \E t \in Slots : Ends(t)
  \/ Quietly(RequestStop)
  \/ TurnEnds

\* The host runs every hook it started to its end and every call finishes; an
\* agent whose stop was held goes on with some call, and if it may try the
\* validation again and again it does so.
Fairness ==
  /\ \A t \in Threads : WF_progressVars(Quietly(Store(t)) \/ Answered(t))
  /\ \A t \in Slots :
       /\ WF_progressVars(Ends(t))
       /\ SF_progressVars(\E c \in ToolCalls : AgentProposes(t, c))
       /\ \A c \in ToolCalls : Validates(c) => SF_progressVars(AgentProposes(t, c))

ProgressSpec == ProgressInit /\ [][ProgressNext]_progressVars /\ Fairness

(* The guard never demands what it does not let happen: in enforce mode,    *)
(* once it held a stop for want of a validation, a validation of the agent  *)
(* runs, or the agent may stop after all, although the loop detector holds  *)
(* calls that repeat or alternate and counts the held ones too              *)
(* (validation.py:17-61, loop.py:72-106).                                   *)
DemandCanBeMet ==
  turn = "end" ~>
    \/ phase["stop"] = "stopped"
    \/ \E t \in Slots : phase[t] = "running" /\ Validates(call[t])
=============================================================================
