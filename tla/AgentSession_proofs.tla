------------------------- MODULE AgentSession_proofs -------------------------
(***************************************************************************)
(* A guarded agent never runs what is forbidden, and is held only for a    *)
(* reason; an agent that makes one call at a time stops exactly when what  *)
(* it wrote has been validated.                                            *)
(***************************************************************************)
EXTENDS AgentSession, Guard_proofs

Phases == {"idle", "asking", "running", "reporting", "stopped"}

Types ==
  /\ mode \in Modes
  /\ window \in Seq(Event) /\ Len(window) <= HistoryLimit
  /\ phase \in [Threads -> Phases]
  /\ call \in [Slots -> ToolCalls \cup {None}]
  /\ outcome \in [Slots -> Outcomes \cup {None}]
  /\ hook \in [Threads -> {None} \cup Stored]
  /\ covered \subseteq Slots
  /\ dirty \in BOOLEAN
  /\ failures \in Nat

\* A thread's phase fits the thread, and its hook is about what it does now.
Fits(t) ==
  /\ t # "stop" => /\ phase[t] # "stopped"
                   /\ phase[t] # "idle" => call[t] \in ToolCalls
                   /\ phase[t] = "reporting" => outcome[t] \in Outcomes
  /\ t = "stop" => phase[t] \in {"idle", "asking", "stopped"}
  /\ hook[t] # None => InHook(t) /\ hook[t].event = EventOf(t)

SessionInv ==
  /\ Types
  /\ \A t \in Threads : Fits(t)
  /\ ForbiddenNeverRuns

-----------------------------------------------------------------------------
(* One call at a time                                                       *)

StopEvent == Body("agent.stop", NoTool, None)

\* The state of the validations as a stop would see it.
State(w) == ValidationState(DetectionHistory(StopEvent, w))

\* What a validation proves stays proved until the next write takes effect.
Validated(t) ==
  /\ phase["stop"] # "idle" => phase[t] = "idle"
  /\ phase[t] = "running" /\ Validates(call[t]) => t \in covered
  /\ phase[t] = "reporting" /\ Validates(call[t]) /\ outcome[t] = "success" => ~dirty

\* The write of t is stored and has not been reported.
Writing(t) ==
  /\ phase[t] = "running" \/ (phase[t] = "asking" /\ hook[t] # None)
  /\ Writes(call[t])

\* In a session that fits in the window, a stop sees every write that took effect.
Dirtied ==
  Len(window) < HistoryLimit =>
    /\ dirty => State(window) \notin {"clean", "success"}
    /\ hook["stop"] # None => State(hook["stop"].history) = State(window)
    /\ phase["stop"] = "stopped" => ~dirty

\* What the window shows is the status, unless the last write fell out of it.
Shows(state) ==
  /\ state \in {"clean", status}
  /\ Len(window) < HistoryLimit => state = status

Known(t) ==
  failures = 0 =>
    /\ ~Writing(t) =>
         Shows(IF phase[t] = "reporting" /\ hook[t] = None
               THEN NextStatus(State(window), EventOf(t)) ELSE State(window))
    /\ hook["stop"] # None => Shows(State(hook["stop"].history))

Judged(t) ==
  /\ Validated(t)
  /\ mode = "enforce" =>
       /\ Writing(t) => State(window) = "missing"
       /\ Dirtied
       /\ Known(t)

-----------------------------------------------------------------------------
(* What the answers mean                                                    *)

\* Of the answers a hook gives, a host obeys the blocks and exit 2 only.
LEMMA NativeResponses ==
  /\ \A text \in {"allow", "defer", "observe", "error"} :
       /\ Native(text, None) \in Responses /\ ~Prevents(Native(text, None))
  /\ Native("block", "deny") \in Responses /\ Prevents(Native("block", "deny"))
  /\ Native("continue", "block") \in Responses /\ Prevents(Native("continue", "block"))
  /\ Prevents(ExitTwo("error"))
<1>1. None \notin {"deny", "block", "halt"}
  BY ResponseAssumption DEF Controls
<1> QED BY <1>1 DEF Native, ExitTwo, Prevents, Responses, AppliedActions, Controls

\* What the host makes of a decision in each mode.
LEMMA Answering ==
  ASSUME NEW type, NEW decision, NEW exported
  PROVE  /\ ~Prevents(Handle("observe", Platform, type, decision, exported))
         /\ decision.action = "allow" =>
              ~Prevents(Handle("enforce", Platform, type, decision, exported))
         /\ decision.action = "block" /\ type = "tool.before" =>
              Prevents(Handle("enforce", Platform, type, decision, exported))
         /\ decision.action = "continue" /\ type = "agent.stop" =>
              Prevents(Handle("enforce", Platform, type, decision, exported))
<1> DEFINE rendered == RenderWithFallback(Platform, type, decision)
           Render(action) == CommonHookResponse(type, action, Platform = "codex")
<1>1. ASSUME NEW r \in Responses, Render(decision.action) = r
      PROVE  /\ rendered = r
             /\ Handle("enforce", Platform, type, decision, exported) = r
  <2>1. Render(decision.action) # None
    BY <1>1, ResponseAssumption
  <2>2. rendered = r
    BY <1>1, <2>1 DEF RenderWithFallback
  <2>3. rendered # None
    BY <2>2, ResponseAssumption
  <2> QED BY <2>2, <2>3 DEF Handle
<1>2. ~Prevents(Handle("observe", Platform, type, decision, exported))
  BY NativeResponses DEF Handle, ObservationResponse
<1>3. ASSUME decision.action = "allow"
      PROVE  ~Prevents(Handle("enforce", Platform, type, decision, exported))
  <2>1. Render("allow") \in {Native("defer", None), Native("allow", None)}
    BY DEF CommonHookResponse
  <2> QED BY <1>1, <1>3, <2>1, NativeResponses
<1>4. ASSUME decision.action = "block", type = "tool.before"
      PROVE  Prevents(Handle("enforce", Platform, type, decision, exported))
  <2>1. Render("block") = Native("block", "deny")
    BY <1>4 DEF CommonHookResponse, TurnStops, PreTypes, ResultTypes
  <2> QED BY <1>1, <1>4, <2>1, NativeResponses
<1>5. ASSUME decision.action = "continue", type = "agent.stop"
      PROVE  Prevents(Handle("enforce", Platform, type, decision, exported))
  <2>1. Render("continue") = Native("continue", "block")
    BY <1>5 DEF CommonHookResponse, TurnStops
  <2> QED BY <1>1, <1>5, <2>1, NativeResponses
<1> QED BY <1>2, <1>3, <1>4, <1>5

-----------------------------------------------------------------------------
(* What the hooks are about                                                 *)

\* The event a thread submits is the one its phase is about.
LEMMA EventsAreEvents ==
  ASSUME NEW t \in Threads, Types, Fits(t), InHook(t)
  PROVE  /\ EventOf(t) \in Event /\ EventOf(t).actor = "main"
         /\ t = "stop" => EventOf(t) = StopEvent
         /\ t # "stop" /\ phase[t] = "asking" => EventOf(t) = Body("tool.before", call[t], None)
         /\ t # "stop" /\ phase[t] = "reporting" =>
              EventOf(t) = Body(ResultType(outcome[t]), call[t], outcome[t])
<1>1. CASE t = "stop"
  BY <1>1 DEF EventOf, Body, NoTool, Event, StopEvent
<1>2. ASSUME t # "stop", phase[t] = "asking"
      PROVE  /\ EventOf(t) = Body("tool.before", call[t], None)
             /\ EventOf(t) \in Event /\ EventOf(t).actor = "main"
  <2>1. PICK c \in ToolCalls : c = call[t]
    BY <1>2 DEF Fits
  <2>2. EventOf(t) = Body("tool.before", call[t], None)
    BY <1>2 DEF EventOf
  <2> QED BY <2>1, <2>2 DEF Body, Event
<1>3. ASSUME t # "stop", phase[t] = "reporting"
      PROVE  /\ EventOf(t) = Body(ResultType(outcome[t]), call[t], outcome[t])
             /\ EventOf(t) \in Event /\ EventOf(t).actor = "main"
  <2>1. PICK c \in ToolCalls, o \in Outcomes : c = call[t] /\ o = outcome[t]
    BY <1>3 DEF Fits
  <2>2. EventOf(t) = Body(ResultType(outcome[t]), call[t], outcome[t])
    BY <1>3 DEF EventOf
  <2>3. ResultType(outcome[t]) \in {"tool.error", "tool.after"}
    BY DEF ResultType
  <2> QED BY <2>1, <2>2, <2>3 DEF Body, Event
<1> QED BY <1>1, <1>2, <1>3 DEF InHook

(* A hook that works prevents only what there is evidence against; in       *)
(* enforce mode it prevents every forbidden call, and a stop exactly when   *)
(* the validations it sees are not in order.                                *)
LEMMA Answers ==
  ASSUME Types, NEW t \in Threads, Fits(t), NEW exported \in BOOLEAN, Respond(t, exported)
  PROVE  \E response :
           /\ React(t, response) /\ window' = window /\ failures' = failures
           /\ hook[t] # None
           /\ mode = "observe" => ~Prevents(response)
           /\ Prevents(response) => Detect(hook[t].event, hook[t].history) # <<>>
           /\ mode = "enforce" /\ t # "stop" /\ phase[t] = "asking"
              /\ (call[t].tool \in ForbiddenTools \/ call[t].command \in ForbiddenCommands)
              => Prevents(response)
           /\ mode = "enforce" /\ t = "stop" =>
                (Prevents(response) <=> State(hook[t].history) \notin {"clean", "success"})
<1>1. /\ hook[t] # None /\ hook[t].event = EventOf(t) /\ InHook(t)
      /\ Len(hook[t].history) \in Nat
  BY DEF Respond, Fits, Types
<1> DEFINE e == hook[t].event
           history == hook[t].history
           found == Detect(e, history)
           decision == Decide(e, found)
           response == Handle(mode, Platform, e.type, decision, exported)
<1>2. React(t, response) /\ window' = window /\ failures' = failures
  BY DEF Respond, Detect
<1>3. mode = "observe" => ~Prevents(response)
  BY Answering
<1> HIDE DEF e, history, response
<1>4. ASSUME Prevents(response) PROVE found # <<>>
  <2> SUFFICES ASSUME found = <<>> PROVE FALSE
    OBVIOUS
  <2>1. decision.action = "allow"
    BY DEF Decide
  <2> HIDE DEF decision, found
  <2>2. mode = "enforce" \/ mode = "observe"
    BY DEF Types, Modes
  <2> QED BY <1>4, <2>1, <2>2, Answering DEF response
<1>5. ASSUME mode = "enforce", t # "stop", phase[t] = "asking",
             call[t].tool \in ForbiddenTools \/ call[t].command \in ForbiddenCommands
      PROVE  Prevents(response)
  <2>1. e = Body("tool.before", call[t], None)
    BY <1>1, <1>5, EventsAreEvents DEF e
  <2>2. e.type = "tool.before" /\ e.tool = call[t].tool /\ e.command = call[t].command
    BY <2>1 DEF Body
  <2>3. Forbidden(e)
    BY <1>5, <2>2 DEF Forbidden, PreTypes
  <2>4. decision.action = "block"
    BY <1>1, <2>3, ForbiddenIsBlocked DEF history
  <2> HIDE DEF decision
  <2> QED BY <1>5, <2>2, <2>4, Answering DEF response
<1>6. ASSUME mode = "enforce", t = "stop"
      PROVE  Prevents(response) <=> State(history) \notin {"clean", "success"}
  <2>1. e = StopEvent
    BY <1>1, <1>6, EventsAreEvents DEF e
  <2>2. e.type = "agent.stop" /\ e.type \in StopTypes
    BY <2>1 DEF StopEvent, Body, StopTypes
  <2>3. State(history) = ValidationState(DetectionHistory(e, history))
    BY <2>1 DEF State
  <2>4. /\ State(history) \in {"clean", "success"} => found = <<>>
        /\ State(history) \notin {"clean", "success"} => decision.action = "continue"
    BY <1>1, <2>2, <2>3, StopsFollowTheState DEF history
  <2> HIDE DEF decision, found
  <2> QED BY <1>4, <1>6, <2>2, <2>4, Answering DEF response
<1> QED BY <1>1, <1>2, <1>3, <1>4, <1>5, <1>6 DEF e, history

\* A hook that fails holds its call in enforce mode, and in no other.
LEMMA FailureAnswers ==
  ASSUME mode \in Modes
  PROVE  Prevents(FailureResponse(mode)) <=> mode = "enforce"
BY NativeResponses DEF FailureResponse, Modes

-----------------------------------------------------------------------------
(* Types, and what every hook is about                                      *)

\* Nothing about thread u changes.
Still(u) ==
  /\ phase'[u] = phase[u] /\ hook'[u] = hook[u]
  /\ u # "stop" => call'[u] = call[u] /\ outcome'[u] = outcome[u]

\* A thread that does not move keeps its event.
LEMMA StillFits ==
  ASSUME NEW u \in Threads, Fits(u), Still(u)
  PROVE  Fits(u)' /\ EventOf(u)' = EventOf(u)
<1>1. EventOf(u)' = EventOf(u)
  BY DEF Still, EventOf
<1> QED BY <1>1 DEF Still, Fits, InHook

\* The window keeps events, and not too many.
LEMMA RememberedWindow ==
  ASSUME Types, NEW e \in Event
  PROVE  Remember(window, e) \in Seq(Event) /\ Len(Remember(window, e)) <= HistoryLimit
<1>1. /\ Append(window, e) \in Seq(Event) /\ Len(Append(window, e)) = Len(window) + 1
      /\ Len(window) \in Nat /\ Len(window) <= HistoryLimit /\ HistoryLimit \in Nat
      /\ HistoryLimit >= 1
  BY GuardAssumption DEF Types
<1> DEFINE longer == Append(window, e)
<1> HIDE DEF longer
<1>2. longer \in Seq(Event) /\ Len(longer) = Len(window) + 1
  BY <1>1 DEF longer
<1>3. Remember(window, e) = IF Len(longer) > HistoryLimit THEN Tail(longer) ELSE longer
  BY DEF Remember, longer
<1>4. longer # <<>> /\ Tail(longer) \in Seq(Event) /\ Len(Tail(longer)) = Len(window)
  BY <1>1, <1>2
<1> QED BY <1>1, <1>2, <1>3, <1>4

(* The host's reaction to any answer leaves every thread in order.          *)
LEMMA ReactionInOrder ==
  ASSUME Types, \A u \in Threads : Fits(u), NEW t \in Threads, NEW response, React(t, response),
         window' = window, failures' \in Nat
  PROVE  Types' /\ \A u \in Threads : Fits(u)'
<1>1. /\ phase \in [Threads -> Phases] /\ hook' = [hook EXCEPT ![t] = None]
      /\ call \in [Slots -> ToolCalls \cup {None}]
      /\ outcome \in [Slots -> Outcomes \cup {None}]
      /\ hook \in [Threads -> {None} \cup Stored]
      /\ mode' = mode /\ dirty' = dirty
  BY DEF Types, React
<1>2. hook' \in [Threads -> {None} \cup Stored] /\ hook'[t] = None
  BY <1>1
<1>3. "stop" \notin Slots /\ Threads = Slots \cup {"stop"}
  BY SessionAssumption DEF Threads
<1>4. ASSUME t # "stop"
      PROVE  /\ phase' \in [Threads -> Phases]
             /\ call' \in [Slots -> ToolCalls \cup {None}]
             /\ outcome' \in [Slots -> Outcomes \cup {None}]
             /\ covered' \subseteq Slots
             /\ \A u \in Threads \ {t} : Still(u)
             /\ \/ phase'[t] = "idle"
                \/ phase'[t] = "running" /\ phase[t] = "asking" /\ call' = call
  <2>1. t \in Slots
    BY <1>3, <1>4
  <2>2. CASE phase[t] = "reporting"
    <3>1. /\ phase' = [phase EXCEPT ![t] = "idle"] /\ call' = [call EXCEPT ![t] = None]
          /\ outcome' = [outcome EXCEPT ![t] = None] /\ covered' = covered
      BY <2>2 DEF React
    <3> QED BY <1>1, <1>3, <2>1, <3>1 DEF Still, Phases, Types
  <2>3. CASE phase[t] = "asking" /\ Prevents(response)
    <3>1. /\ phase' = [phase EXCEPT ![t] = "idle"] /\ call' = [call EXCEPT ![t] = None]
          /\ outcome' = outcome /\ covered' = covered
      BY <1>4, <2>3 DEF React
    <3> QED BY <1>1, <1>3, <2>1, <3>1 DEF Still, Phases, Types
  <2>4. CASE phase[t] = "asking" /\ ~Prevents(response)
    <3>1. /\ phase' = [phase EXCEPT ![t] = "running"] /\ call' = call
          /\ outcome' = outcome /\ covered' \in {covered, covered \cup {t}}
      BY <1>4, <2>4 DEF React
    <3> QED BY <1>1, <1>3, <2>1, <2>4, <3>1 DEF Still, Phases, Types
  <2> QED BY <1>4, <2>2, <2>3, <2>4 DEF React
<1>5. ASSUME t = "stop"
      PROVE  /\ phase' \in [Threads -> Phases] /\ phase'[t] \in {"idle", "stopped"}
             /\ call' = call /\ outcome' = outcome /\ covered' = covered
             /\ \A u \in Threads \ {t} : Still(u)
  <2>1. phase[t] # "reporting"
    BY <1>5 DEF Fits
  <2>2. /\ phase' = [phase EXCEPT ![t] = IF Prevents(response) THEN "idle" ELSE "stopped"]
        /\ call' = call /\ outcome' = outcome /\ covered' = covered
    BY <1>5, <2>1 DEF React
  <2> QED BY <1>1, <2>2 DEF Still, Phases
<1>6. Types'
  BY <1>1, <1>2, <1>4, <1>5 DEF Types
<1>7. Fits(t)'
  BY <1>2, <1>4, <1>5 DEF Fits
<1> QED BY <1>4, <1>5, <1>6, <1>7, StillFits

(* Storing the event of thread t changes nothing else about the threads.    *)
LEMMA StoringInOrder ==
  ASSUME Types, \A u \in Threads : Fits(u), NEW t \in Threads, Store(t)
  PROVE  /\ Types' /\ \A u \in Threads : Fits(u)'
         /\ \A u \in Threads \ {t} : Still(u)
         /\ hook'[t] # None => hook'[t].history = window
         /\ EventOf(t)' = EventOf(t)
<1>1. /\ EventOf(t) \in Event /\ InHook(t) /\ hook[t] = None
      /\ phase' = phase /\ call' = call /\ outcome' = outcome
      /\ hook' = [hook EXCEPT ![t] = [event |-> EventOf(t), history |-> window]]
      /\ window' = Remember(window, EventOf(t))
      /\ mode' = mode /\ covered' = covered /\ dirty' = dirty /\ failures' = failures
  BY EventsAreEvents DEF Store, host
<1>2. hook' \in [Threads -> {None} \cup Stored]
  BY <1>1 DEF Types, Stored
<1>3. Types'
  BY <1>1, <1>2, RememberedWindow DEF Types
<1>4. EventOf(t)' = EventOf(t)
  BY <1>1 DEF EventOf
<1>5. hook'[t].event = EventOf(t) /\ hook'[t].history = window
  BY <1>1 DEF Types
<1>6. Fits(t)'
  BY <1>1, <1>4, <1>5 DEF Fits, InHook
<1>7. ASSUME NEW u \in Threads \ {t} PROVE Still(u)
  BY <1>1 DEF Still, Types
<1> QED BY <1>3, <1>4, <1>5, <1>6, <1>7, StillFits

(* The agent's and the host's own steps start and end a call or a turn.     *)
LEMMA HostInOrder ==
  ASSUME Types, \A u \in Threads : Fits(u),
         \/ \E t \in Slots, c \in ToolCalls : Propose(t, c)
         \/ \E t \in Slots, result \in Outcomes : Finish(t, result)
         \/ RequestStop
         \/ NewTurn
  PROVE  Types' /\ \A u \in Threads : Fits(u)'
<1>1. "stop" \notin Slots /\ Threads = Slots \cup {"stop"}
  BY SessionAssumption DEF Threads
<1>2. ASSUME NEW t \in Slots, NEW c \in ToolCalls, Propose(t, c)
      PROVE  Types' /\ \A u \in Threads : Fits(u)'
  <2>1. /\ phase[t] = "idle" /\ hook' = hook /\ outcome' = outcome
        /\ phase' = [phase EXCEPT ![t] = "asking"] /\ call' = [call EXCEPT ![t] = c]
        /\ UNCHANGED <<mode, window, covered, dirty, failures>>
    BY <1>2 DEF Propose
  <2>2. Types'
    BY <1>1, <2>1 DEF Types, Phases
  <2>3. hook[t] = None /\ t # "stop" /\ t \in Threads
    BY <1>1, <2>1 DEF Fits, InHook
  <2>4. phase'[t] = "asking" /\ call'[t] = c
    BY <2>1, <2>3 DEF Types
  <2>5. Fits(t)'
    BY <2>1, <2>3, <2>4 DEF Fits
  <2>6. \A u \in Threads \ {t} : Still(u)
    BY <1>1, <2>1 DEF Still, Types
  <2> QED BY <2>2, <2>5, <2>6, StillFits
<1>3. ASSUME NEW t \in Slots, NEW result \in Outcomes, Finish(t, result)
      PROVE  Types' /\ \A u \in Threads : Fits(u)'
  <2>1. /\ phase[t] = "running" /\ hook' = hook /\ call' = call
        /\ phase' = [phase EXCEPT ![t] = "reporting"]
        /\ outcome' = [outcome EXCEPT ![t] = result]
        /\ UNCHANGED <<mode, window, failures>>
        /\ covered' \subseteq covered
    BY <1>3 DEF Finish
  <2>2. dirty' \in BOOLEAN
    BY <1>3 DEF Finish, Types
  <2>3. Types'
    BY <1>1, <2>1, <2>2 DEF Types, Phases
  <2>4. hook[t] = None /\ t # "stop" /\ t \in Threads /\ call[t] \in ToolCalls
    BY <1>1, <2>1 DEF Fits, InHook
  <2>5. phase'[t] = "reporting" /\ outcome'[t] = result
    BY <2>1, <2>4 DEF Types
  <2>6. Fits(t)'
    BY <2>1, <2>4, <2>5 DEF Fits
  <2>7. \A u \in Threads \ {t} : Still(u)
    BY <1>1, <2>1 DEF Still, Types
  <2> QED BY <2>3, <2>6, <2>7, StillFits
<1>4. ASSUME RequestStop \/ NewTurn PROVE Types' /\ \A u \in Threads : Fits(u)'
  <2>1. /\ phase["stop"] \in {"idle", "stopped"}
        /\ \E p \in {"idle", "asking"} : phase' = [phase EXCEPT !["stop"] = p]
        /\ hook' = hook /\ call' = call /\ outcome' = outcome
        /\ UNCHANGED <<mode, window, covered, dirty, failures>>
    BY <1>1, <1>4 DEF RequestStop, NewTurn, host
  <2>2. Types'
    BY <2>1 DEF Types, Phases
  <2>3. hook["stop"] = None /\ phase'["stop"] \in {"idle", "asking"}
    BY <1>1, <2>1 DEF Fits, InHook, Types
  <2>4. Fits("stop")'
    BY <2>1, <2>3 DEF Fits
  <2>5. \A u \in Threads \ {"stop"} : Still(u)
    BY <1>1, <2>1 DEF Still, Types
  <2> QED BY <2>2, <2>4, <2>5, StillFits
<1> QED BY <1>2, <1>3, <1>4

\* Every step leaves the types and every hook in flight in order.
LEMMA StepInOrder ==
  ASSUME Types, \A u \in Threads : Fits(u), [Next]_vars
  PROVE  Types' /\ \A u \in Threads : Fits(u)'
<1>1. ASSUME NEW t \in Threads, NEW exported \in BOOLEAN, Respond(t, exported)
      PROVE  Types' /\ \A u \in Threads : Fits(u)'
  <2>1. PICK response : React(t, response) /\ window' = window /\ failures' = failures
    BY <1>1, Answers
  <2> QED BY <2>1, ReactionInOrder DEF Types
<1>2. ASSUME NEW t \in Threads, Fail(t)
      PROVE  Types' /\ \A u \in Threads : Fits(u)'
  <2>1. React(t, FailureResponse(mode)) /\ window' = window /\ failures' \in Nat
    BY <1>2 DEF Fail, Types
  <2> QED BY <2>1, ReactionInOrder
<1>3. CASE UNCHANGED vars
  BY <1>3 DEF vars, Types, Fits, InHook, EventOf
<1> QED BY <1>1, <1>2, <1>3, StoringInOrder, HostInOrder DEF Next, HookStep

\* A session begins in order.
LEMMA InitInOrder ==
  Init => SessionInv
<1> SUFFICES ASSUME Init PROVE SessionInv
  OBVIOUS
<1>1. "stop" \notin Slots /\ Threads = Slots \cup {"stop"}
  BY SessionAssumption DEF Threads
<1>2. Types
  <2>1. window \in Seq(Event) /\ Len(window) = 0 /\ HistoryLimit \in Nat
    BY GuardAssumption DEF Init
  <2>2. /\ phase \in [Threads -> Phases] /\ call \in [Slots -> ToolCalls \cup {None}]
        /\ outcome \in [Slots -> Outcomes \cup {None}]
        /\ hook \in [Threads -> {None} \cup Stored]
    BY DEF Init, Phases
  <2>3. /\ mode \in Modes /\ covered \subseteq Slots /\ dirty \in BOOLEAN /\ failures \in Nat
    BY DEF Init
  <2> QED BY <2>1, <2>2, <2>3 DEF Types
<1>3. ASSUME NEW u \in Threads PROVE Fits(u)
  BY <1>1, <1>3 DEF Init, Fits
<1>4. ForbiddenNeverRuns
  BY <1>1 DEF Init, ForbiddenNeverRuns
<1> QED BY <1>2, <1>3, <1>4 DEF SessionInv

-----------------------------------------------------------------------------
(* Nothing forbidden runs, nothing is held without a reason                 *)

\* Whatever the host does next, thread u does not start a call now.
StartsNothing(u) == phase'[u] = "running" => phase[u] = "running" /\ call'[u] = call[u]

\* What a step of the hook of t means for what the host does.
LEMMA Reacting ==
  ASSUME Types, \A u \in Threads : Fits(u), NEW t \in Threads, NEW response, React(t, response)
  PROVE  /\ mode' = mode /\ dirty' = dirty /\ hook' = [hook EXCEPT ![t] = None]
         /\ \A u \in Threads \ {t} : Still(u)
         /\ phase[t] = "asking" /\ phase'[t] = "idle" => Prevents(response)
         /\ phase'[t] \in {"running", "stopped"} => phase[t] = "asking" /\ ~Prevents(response)
         /\ phase'[t] = "running" => t # "stop" /\ call' = call
         /\ phase'[t] = "stopped" => t = "stop" /\ status' = status
<1>1. /\ phase \in [Threads -> Phases] /\ hook' = [hook EXCEPT ![t] = None]
      /\ call \in [Slots -> ToolCalls \cup {None}]
      /\ outcome \in [Slots -> Outcomes \cup {None}]
      /\ mode' = mode /\ dirty' = dirty
      /\ hook \in [Threads -> {None} \cup Stored]
      /\ "stop" \notin Slots /\ Threads = Slots \cup {"stop"}
  BY SessionAssumption DEF Types, React, Threads
<1>2. t = "stop" => phase[t] # "reporting"
  BY DEF Fits
<1>3. CASE phase[t] = "reporting"
  <2>1. /\ phase' = [phase EXCEPT ![t] = "idle"] /\ call' = [call EXCEPT ![t] = None]
        /\ outcome' = [outcome EXCEPT ![t] = None]
    BY <1>3 DEF React
  <2> QED BY <1>1, <1>2, <1>3, <2>1 DEF Still, Phases
<1>4. CASE phase[t] = "asking" /\ t # "stop" /\ Prevents(response)
  <2>1. /\ phase' = [phase EXCEPT ![t] = "idle"] /\ call' = [call EXCEPT ![t] = None]
        /\ outcome' = outcome
    BY <1>4 DEF React
  <2> QED BY <1>1, <1>4, <2>1 DEF Still, Phases
<1>5. CASE phase[t] = "asking" /\ t # "stop" /\ ~Prevents(response)
  <2>1. phase' = [phase EXCEPT ![t] = "running"] /\ call' = call /\ outcome' = outcome
    BY <1>5 DEF React
  <2> QED BY <1>1, <1>5, <2>1 DEF Still, Phases
<1>6. CASE phase[t] = "asking" /\ t = "stop"
  <2>1. /\ phase' = [phase EXCEPT ![t] = IF Prevents(response) THEN "idle" ELSE "stopped"]
        /\ call' = call /\ outcome' = outcome /\ status' = status
    BY <1>6 DEF React
  <2> QED BY <1>1, <1>6, <2>1 DEF Still, Phases
<1> QED BY <1>3, <1>4, <1>5, <1>6 DEF React

(* Only the answer of a working hook that sees nothing forbidden starts a   *)
(* call in enforce mode, and only an answer against it holds a thread.      *)
LEMMA StepIsSafe ==
  ASSUME SessionInv, [Next]_vars
  PROVE  /\ mode' = mode
         /\ ForbiddenNeverRuns'
         /\ \A t \in Threads : Held(t) =>
              /\ mode = "enforce"
              /\ failures' = 0 =>
                   hook[t] # None /\ Detect(hook[t].event, hook[t].history) # <<>>
<1> DEFINE Allowed(c) == c.tool \notin ForbiddenTools /\ c.command \notin ForbiddenCommands
           Safe(u) == mode = "enforce" /\ phase'[u] = "running" => Allowed(call'[u])
           Reason(u) == Held(u) =>
              /\ mode = "enforce"
              /\ failures' = 0 =>
                   hook[u] # None /\ Detect(hook[u].event, hook[u].history) # <<>>
<1>1. /\ Types /\ \A u \in Threads : Fits(u)
      /\ "stop" \notin Slots /\ Threads = Slots \cup {"stop"}
      /\ mode = "enforce" \/ mode = "observe"
  BY SessionAssumption DEF SessionInv, Threads, Types, Modes
<1>2. \A u \in Slots : mode = "enforce" /\ phase[u] = "running" => Allowed(call[u])
  BY DEF SessionInv, ForbiddenNeverRuns
<1>3. ASSUME NEW u \in Slots, StartsNothing(u) PROVE Safe(u)
  BY <1>2, <1>3 DEF StartsNothing
<1>4. ASSUME NEW u \in Threads, Still(u) PROVE Reason(u) /\ (u \in Slots => Safe(u))
  BY <1>1, <1>2, <1>4 DEF Still, Held
<1>5. ASSUME NEW t \in Threads, NEW exported \in BOOLEAN, Respond(t, exported)
      PROVE  mode' = mode /\ (\A u \in Slots : Safe(u)) /\ \A u \in Threads : Reason(u)
  <2>1. PICK response :
          /\ React(t, response) /\ hook[t] # None
          /\ mode = "observe" => ~Prevents(response)
          /\ Prevents(response) => Detect(hook[t].event, hook[t].history) # <<>>
          /\ mode = "enforce" /\ t # "stop" /\ phase[t] = "asking"
             /\ (call[t].tool \in ForbiddenTools \/ call[t].command \in ForbiddenCommands)
             => Prevents(response)
    BY <1>1, <1>5, Answers
  <2>2. /\ mode' = mode /\ \A u \in Threads \ {t} : Still(u)
        /\ phase[t] = "asking" /\ phase'[t] = "idle" => Prevents(response)
        /\ phase'[t] = "running" =>
             phase[t] = "asking" /\ ~Prevents(response) /\ t # "stop" /\ call' = call
    BY <1>1, <2>1, Reacting
  <2>3. t \in Slots => Safe(t)
    BY <2>1, <2>2
  <2>4. Reason(t)
    BY <1>1, <2>1, <2>2 DEF Held
  <2> QED BY <1>1, <1>4, <2>2, <2>3, <2>4
<1>6. ASSUME NEW t \in Threads, Fail(t)
      PROVE  mode' = mode /\ (\A u \in Slots : Safe(u)) /\ \A u \in Threads : Reason(u)
  <2>1. /\ React(t, FailureResponse(mode)) /\ failures' # 0
        /\ Prevents(FailureResponse(mode)) <=> mode = "enforce"
    BY <1>1, <1>6, FailureAnswers DEF Fail, Types
  <2>2. /\ mode' = mode /\ \A u \in Threads \ {t} : Still(u)
        /\ phase[t] = "asking" /\ phase'[t] = "idle" => Prevents(FailureResponse(mode))
        /\ phase'[t] = "running" => ~Prevents(FailureResponse(mode))
    BY <1>1, <2>1, Reacting
  <2>3. Safe(t) /\ Reason(t)
    BY <2>1, <2>2 DEF Held
  <2> QED BY <1>1, <1>4, <2>2, <2>3
<1>7. ASSUME \/ \E t \in Threads : Store(t)
             \/ \E t \in Slots, c \in ToolCalls : Propose(t, c)
             \/ \E t \in Slots, result \in Outcomes : Finish(t, result)
             \/ RequestStop
             \/ NewTurn
             \/ UNCHANGED vars
      PROVE  mode' = mode /\ (\A u \in Slots : Safe(u)) /\ \A u \in Threads : Reason(u)
  <2>1. /\ mode' = mode
        /\ \/ phase' = phase /\ call' = call
           \/ \E t \in Slots, c \in ToolCalls :
                /\ phase[t] = "idle" /\ phase' = [phase EXCEPT ![t] = "asking"]
                /\ call' = [call EXCEPT ![t] = c]
           \/ \E t \in Slots : /\ phase[t] = "running" /\ call' = call
                              /\ phase' = [phase EXCEPT ![t] = "reporting"]
           \/ phase["stop"] = "idle" /\ phase' = [phase EXCEPT !["stop"] = "asking"] /\ call' = call
           \/ /\ phase["stop"] = "stopped" /\ call' = call
              /\ phase' = [phase EXCEPT !["stop"] = "idle"]
    BY <1>1, <1>7 DEF Store, Propose, Finish, RequestStop, NewTurn, vars, host
  <2>2. phase \in [Threads -> Phases] /\ call \in [Slots -> ToolCalls \cup {None}]
    BY <1>1 DEF Types
  <2>3. ASSUME NEW u \in Slots PROVE StartsNothing(u)
    BY <1>1, <2>1, <2>2 DEF StartsNothing
  <2>4. ASSUME NEW u \in Threads PROVE ~Held(u)
    BY <1>1, <2>1, <2>2 DEF Held
  <2> QED BY <1>3, <2>1, <2>3, <2>4
<1>8. mode' = mode /\ (\A u \in Slots : Safe(u)) /\ \A u \in Threads : Reason(u)
  BY <1>5, <1>6, <1>7 DEF Next, HookStep
<1> QED BY <1>8 DEF ForbiddenNeverRuns

(* What the threads do, and what every hook in flight is about, is in order *)
(* in every session: the invariant the theorems below rest on.              *)
THEOREM SessionInvariant ==
  Spec => []SessionInv
<1>1. SessionInv /\ [Next]_vars => SessionInv'
  BY StepInOrder, StepIsSafe DEF SessionInv
<1> QED BY <1>1, InitInOrder, PTL DEF Spec

(* In enforce mode no call runs that the anchors forbid, with any number of *)
(* parallel calls and of failing hooks (constraint.py:14-57, cli.py:285-293)*)
THEOREM NothingForbiddenRuns ==
  Spec => []ForbiddenNeverRuns
<1>1. SessionInv => ForbiddenNeverRuns
  BY DEF SessionInv
<1> QED BY <1>1, SessionInvariant, PTL

(* The guard holds an agent in enforce mode only, and a working hook holds  *)
(* it only on evidence (runtime.py:60-77, cli.py:285-295).                  *)
THEOREM HoldsHaveReasons ==
  Spec => HeldForAReason
<1>1. SessionInv /\ [Next]_vars =>
        [\A t \in Threads : Held(t) =>
           /\ mode = "enforce"
           /\ failures' = 0 =>
                hook[t] # None /\ Detect(hook[t].event, hook[t].history) # <<>>]_vars
  BY StepIsSafe
<1> QED BY <1>1, SessionInvariant, PTL DEF Spec, HeldForAReason

-----------------------------------------------------------------------------
(* One call at a time: the state of the validations is the status           *)

(* What an event does to the state depends on the call it is about.         *)
LEMMA EventKinds ==
  ASSUME NEW t \in Threads, Types, Fits(t), InHook(t)
  PROVE  /\ t = "stop" => \A s : NextStatus(s, EventOf(t)) = s
         /\ t # "stop" /\ phase[t] = "asking" =>
              \A s : NextStatus(s, EventOf(t)) = IF Writes(call[t]) THEN "missing" ELSE s
         /\ t # "stop" /\ phase[t] = "reporting" =>
              \A s : NextStatus(s, EventOf(t)) =
                       IF Validates(call[t]) /\ s # "clean" THEN outcome[t] ELSE s
<1>1. ASSUME t = "stop", NEW s PROVE NextStatus(s, EventOf(t)) = s
  <2>1. EventOf(t).type = "agent.stop"
    BY <1>1, EventsAreEvents DEF StopEvent, Body
  <2>2. ~IsWrite(EventOf(t)) /\ ~IsValidation(EventOf(t))
    BY <2>1 DEF IsWrite, IsValidation, ResultTypes
  <2> QED BY <2>2 DEF NextStatus
<1>2. ASSUME t # "stop", phase[t] = "asking", NEW s
      PROVE  NextStatus(s, EventOf(t)) = IF Writes(call[t]) THEN "missing" ELSE s
  <2>1. EventOf(t).type = "tool.before" /\ EventOf(t).tool = call[t].tool
    BY <1>2, EventsAreEvents DEF Body
  <2>2. (IsWrite(EventOf(t)) <=> Writes(call[t])) /\ ~IsValidation(EventOf(t))
    BY <2>1 DEF IsWrite, IsValidation, ResultTypes, Writes
  <2> QED BY <2>2 DEF NextStatus
<1>3. ASSUME t # "stop", phase[t] = "reporting", NEW s
      PROVE  NextStatus(s, EventOf(t)) =
               IF Validates(call[t]) /\ s # "clean" THEN outcome[t] ELSE s
  <2>1. /\ EventOf(t).type \in {"tool.after", "tool.error"} /\ EventOf(t).tool = call[t].tool
        /\ EventOf(t).command = call[t].command /\ EventOf(t).outcome = outcome[t]
    BY <1>3, EventsAreEvents DEF Body, ResultType
  <2>2. ~IsWrite(EventOf(t)) /\ (IsValidation(EventOf(t)) <=> Validates(call[t]))
    BY <2>1 DEF IsWrite, IsValidation, ResultTypes, Validates
  <2>3. outcome[t] \in {"success", "failure", "unknown"}
    BY <1>3 DEF Fits, Outcomes
  <2> QED BY <2>1, <2>2, <2>3 DEF NextStatus
<1> QED BY <1>1, <1>2, <1>3

(* A full window loses its oldest event before it takes the new one.        *)
LEMMA StateRemembers ==
  ASSUME Types, NEW e \in Event
  PROVE  \E s \in {"clean", State(window)} :
           /\ State(Remember(window, e)) = NextStatus(s, e)
           /\ Len(Remember(window, e)) < HistoryLimit =>
                s = State(window) /\ Len(window) < HistoryLimit
<1>1. /\ Len(window) \in Nat /\ Len(window) <= HistoryLimit /\ HistoryLimit \in Nat
      /\ HistoryLimit >= 1 /\ window \in Seq(Event)
  BY GuardAssumption DEF Types
<1>2. /\ Append(window, e) \in Seq(Event) /\ Len(Append(window, e)) = Len(window) + 1
      /\ \A i \in 1..Len(window) : Append(window, e)[i] = window[i]
      /\ Append(window, e)[Len(window) + 1] = e
  BY <1>1
<1>3. e.actor = StopEvent.actor
  BY DEF Event, StopEvent, Body
<1>4. CASE Len(window) < HistoryLimit
  <2>1. Remember(window, e) = Append(window, e)
    BY <1>1, <1>2, <1>4 DEF Remember
  <2>2. State(Append(window, e)) = NextStatus(State(window), e)
    BY <1>1, <1>3, StateOfWindow DEF State
  <2> QED BY <1>4, <2>1, <2>2
<1>5. CASE Len(window) = HistoryLimit
  <2>1. Remember(window, e) = Tail(Append(window, e))
    BY <1>1, <1>2, <1>5 DEF Remember
  <2>2. window # <<>> /\ Tail(window) \in Seq(Event)
    BY <1>1, <1>5
  <2>3. PICK rest \in Seq(Event) : rest = Tail(window) /\ Remember(window, e) = Append(rest, e)
    BY <1>1, <2>1, <2>2, HeadTailAppend
  <2>4. State(Append(rest, e)) = NextStatus(State(rest), e)
    BY <1>3, StateOfWindow DEF State
  <2>5. State(rest) \in {"clean", State(window)}
    BY <1>1, <2>2, <2>3, StateOfWindow DEF State
  <2>6. Len(Append(rest, e)) = HistoryLimit
    BY <1>1, <1>5, <2>2, <2>3
  <2>7. PICK s : s = State(rest)
    OBVIOUS
  <2> QED BY <1>1, <2>3, <2>4, <2>5, <2>6, <2>7
<1> QED BY <1>1, <1>4, <1>5

\* Storing an event keeps what is known of the window and the status.
LEMMA StoringIsJudged ==
  ASSUME SessionInv, NEW one, Slots = {one}, Judged(one), NEW t \in Threads, Store(t)
  PROVE  Judged(one)'
<1>1. /\ Types /\ (\A u \in Threads : Fits(u)) /\ one \in Threads /\ one \in Slots /\ one # "stop"
      /\ "stop" \in Threads /\ (t = "stop" \/ t = one) /\ InHook(t) /\ hook[t] = None
  BY SessionAssumption DEF SessionInv, Threads, Store
<1>2. /\ phase' = phase /\ call' = call /\ outcome' = outcome /\ mode' = mode
      /\ covered' = covered /\ dirty' = dirty /\ status' = status /\ failures' = failures
      /\ window' = Remember(window, EventOf(t))
      /\ hook' = [hook EXCEPT ![t] = [event |-> EventOf(t), history |-> window]]
  BY DEF Store, host
<1>3. /\ hook'[t] # None /\ hook'[t].history = window
      /\ \A u \in Threads \ {t} : hook'[u] = hook[u]
  <2>1. [event |-> EventOf(t), history |-> window] \in Stored
    BY <1>1, EventsAreEvents DEF Stored, Types
  <2>2. hook'[t] = [event |-> EventOf(t), history |-> window]
    BY <1>2 DEF Types, SessionInv
  <2> QED BY <1>1, <1>2, <2>1, <2>2, SessionAssumption DEF Types
<1>4. PICK s \in {"clean", State(window)} :
        /\ State(window') = NextStatus(s, EventOf(t))
        /\ Len(window') < HistoryLimit => s = State(window) /\ Len(window) < HistoryLimit
  BY <1>1, <1>2, EventsAreEvents, StateRemembers
<1>5. EventOf(one)' = EventOf(one)
  BY <1>2 DEF EventOf
<1>6. Validated(one)'
  BY <1>2 DEF Judged, Validated
<1>7. CASE t = "stop"
  <2>1. phase["stop"] = "asking" /\ phase[one] = "idle"
    BY <1>1, <1>7 DEF InHook, Fits, Judged, Validated
  <2>2. State(window') = s
    BY <1>1, <1>4, <1>7, EventKinds
  <2>3. ~Writing(one) /\ ~Writing(one)'
    BY <1>2, <2>1 DEF Writing
  <2>4. mode = "enforce" => Dirtied'
    BY <1>1, <1>2, <1>3, <1>4, <1>7, <2>1, <2>2 DEF Judged, Dirtied
  <2>5. ASSUME mode = "enforce", failures = 0 PROVE Known(one)'
    <3>1. Shows(State(window))
      BY <2>1, <2>3, <2>5 DEF Judged, Known
    <3>2. Shows(State(window))' /\ hook'["stop"].history = window
      BY <1>2, <1>3, <1>4, <1>7, <2>2, <3>1 DEF Shows
    <3>3. /\ State(window') \in {"clean", status'} /\ State(window) \in {"clean", status'}
          /\ Len(window') < HistoryLimit =>
               State(window') = status' /\ State(window) = status'
      BY <1>2, <1>4, <2>2, <3>1 DEF Shows
    <3> QED BY <1>2, <2>1, <3>2, <3>3 DEF Known, Shows
  <2> QED BY <1>2, <1>6, <2>3, <2>4, <2>5 DEF Judged, Known
<1>8. CASE t = one
  <2>1. phase["stop"] = "idle" /\ hook["stop"] = None /\ hook'["stop"] = None
    BY <1>1, <1>3, <1>8 DEF InHook, Fits, Judged, Validated
  <2>2. CASE phase[one] = "asking" /\ Writes(call[one])
    <3>1. State(window') = "missing"
      BY <1>1, <1>4, <1>8, <2>2, EventKinds
    <3>2. Writing(one)'
      BY <1>2, <1>3, <1>8, <2>2 DEF Writing
    <3> QED BY <1>2, <1>6, <2>1, <3>1, <3>2 DEF Judged, Known, Dirtied
  <2>3. CASE phase[one] = "asking" /\ ~Writes(call[one])
    <3>1. State(window') = s
      BY <1>1, <1>4, <1>8, <2>3, EventKinds
    <3>2. ~Writing(one) /\ ~Writing(one)'
      BY <1>2, <2>3 DEF Writing
    <3>3. mode = "enforce" => Dirtied'
      BY <1>2, <1>4, <2>1, <3>1 DEF Judged, Dirtied
    <3>4. ASSUME mode = "enforce", failures = 0
          PROVE  /\ State(window') \in {"clean", status'}
                 /\ Len(window') < HistoryLimit => State(window') = status'
      BY <1>2, <1>4, <2>3, <3>1, <3>2, <3>4 DEF Judged, Known, Shows
    <3> QED BY <1>2, <1>6, <2>1, <2>3, <3>2, <3>3, <3>4 DEF Judged, Known, Shows
  <2>4. CASE phase[one] = "reporting"
    <3>1. /\ State(window') = IF Validates(call[one]) /\ s # "clean" THEN outcome[one] ELSE s
          /\ NextStatus(State(window), EventOf(one)) =
               IF Validates(call[one]) /\ State(window) # "clean" THEN outcome[one]
               ELSE State(window)
      BY <1>1, <1>4, <1>8, <2>4, EventKinds
    <3>2. ~Writing(one) /\ ~Writing(one)'
      BY <1>2, <2>4 DEF Writing
    <3>3. mode = "enforce" => Dirtied'
      <4>1. outcome[one] \in {"success", "failure", "unknown"}
        BY <1>1, <2>4 DEF Fits, Outcomes
      <4>2. Validates(call[one]) /\ outcome[one] = "success" => ~dirty
        BY <2>4 DEF Judged, Validated
      <4> QED BY <1>2, <1>4, <2>1, <3>1, <4>1, <4>2 DEF Judged, Dirtied
    <3>4. ASSUME mode = "enforce", failures = 0
          PROVE  /\ State(window') \in {"clean", status'}
                 /\ Len(window') < HistoryLimit => State(window') = status'
      <4>1. Shows(NextStatus(State(window), EventOf(one)))
        BY <1>1, <1>8, <2>4, <3>2, <3>4 DEF Judged, Known
      <4> QED BY <1>2, <1>4, <3>1, <4>1 DEF Shows
    <3> QED BY <1>2, <1>3, <1>6, <1>8, <2>1, <3>2, <3>3, <3>4 DEF Judged, Known, Shows
  <2> QED BY <1>1, <1>8, <2>2, <2>3, <2>4 DEF InHook
<1> QED BY <1>1, <1>7, <1>8

(* The answers of the hooks: a working one is right about what its history  *)
(* shows, a failing one prevents everything in enforce mode.                *)
LEMMA ReactionIsJudged ==
  ASSUME SessionInv, NEW one, Slots = {one}, Judged(one),
         NEW t \in Threads, NEW response, React(t, response), window' = window,
         \/ failures' = failures /\ hook[t] # None
         \/ failures' # 0 /\ (mode = "enforce" => Prevents(response)),
         mode = "enforce" /\ t = "stop" /\ ~Prevents(response) =>
           hook[t] # None /\ State(hook[t].history) \in {"clean", "success"}
  PROVE  Judged(one)'
<1>1. /\ Types /\ (\A u \in Threads : Fits(u)) /\ one \in Threads /\ one \in Slots /\ one # "stop"
      /\ "stop" \in Threads /\ (t = "stop" \/ t = one)
      /\ phase \in [Threads -> Phases] /\ hook \in [Threads -> {None} \cup Stored]
      /\ call \in [Slots -> ToolCalls \cup {None}]
  BY SessionAssumption DEF SessionInv, Threads, Types
<1>2. /\ mode' = mode /\ dirty' = dirty /\ hook'[t] = None
      /\ \A u \in Threads \ {t} : Still(u)
      /\ phase[t] \in {"asking", "reporting"}
  BY <1>1, Reacting DEF React
<1>3. CASE t = "stop"
  <2>1. /\ phase[t] = "asking" /\ phase[one] = "idle" /\ call' = call /\ outcome' = outcome
        /\ phase'[t] \in {"idle", "stopped"} /\ (phase'[t] = "stopped" => ~Prevents(response))
        /\ phase'[one] = "idle" /\ hook'[one] = hook[one] /\ status' = status
    BY <1>1, <1>2, <1>3 DEF React, Fits, Judged, Validated, Still
  <2>2. Validated(one)'
    BY <2>1 DEF Validated
  <2>3. ~Writing(one) /\ ~Writing(one)'
    BY <2>1 DEF Writing
  <2>4. mode = "enforce" => Dirtied'
    BY <1>2, <1>3, <2>1 DEF Judged, Dirtied
  <2>5. mode = "enforce" => Known(one)'
    BY <1>2, <1>3, <2>1, <2>3 DEF Judged, Known, Shows
  <2> QED BY <1>2, <2>2, <2>3, <2>4, <2>5 DEF Judged
<1>4. CASE t = one
  <2>1. /\ phase["stop"] = "idle" /\ hook["stop"] = None
        /\ phase'["stop"] = "idle" /\ hook'["stop"] = None
    BY <1>1, <1>2, <1>4 DEF InHook, Fits, Judged, Validated, Still
  <2>2. mode = "enforce" => Dirtied'
    BY <1>2, <2>1 DEF Judged, Dirtied
  <2>3. CASE phase[one] = "reporting"
    <3>1. phase'[one] = "idle" /\ status' = status
      BY <1>1, <1>4, <2>3 DEF React
    <3>2. ~Writing(one) /\ ~Writing(one)' /\ Validated(one)'
      BY <1>2, <1>4, <2>1, <2>3, <3>1 DEF Writing, Validated
    <3>3. mode = "enforce" => Known(one)'
      BY <1>2, <1>4, <2>1, <2>3, <3>1, <3>2 DEF Judged, Known, Shows
    <3> QED BY <1>2, <2>2, <3>2, <3>3 DEF Judged
  <2>4. CASE phase[one] = "asking" /\ Prevents(response)
    <3>1. phase'[one] = "idle" /\ status' = IF Writes(call[one]) THEN "missing" ELSE status
      BY <1>1, <1>4, <2>4 DEF React
    <3>2. ~Writing(one)' /\ Validated(one)'
      BY <1>2, <1>4, <2>1, <3>1 DEF Writing, Validated
    <3>3. ASSUME mode = "enforce", failures' = 0 PROVE Shows(State(window))'
      <4>1. failures = 0 /\ hook[one] # None
        BY <1>4, <3>3
      <4>2. CASE Writes(call[one])
        <5>1. State(window) = "missing"
          BY <2>4, <3>3, <4>1, <4>2 DEF Judged, Writing
        <5> QED BY <3>1, <4>2, <5>1 DEF Shows
      <4>3. CASE ~Writes(call[one])
        <5>1. Shows(State(window))
          BY <2>4, <3>3, <4>1, <4>3 DEF Judged, Known, Writing
        <5> QED BY <3>1, <4>3, <5>1 DEF Shows
      <4> QED BY <4>2, <4>3
    <3>4. mode = "enforce" => Known(one)'
      BY <1>2, <2>1, <3>1, <3>3 DEF Known
    <3> QED BY <1>2, <2>2, <3>2, <3>4 DEF Judged
  <2>5. CASE phase[one] = "asking" /\ ~Prevents(response)
    <3>1. /\ phase'[one] = "running" /\ status' = status /\ call' = call
          /\ Validates(call[one]) => one \in covered'
      BY <1>1, <1>4, <2>5 DEF React
    <3>2. Validated(one)'
      BY <2>1, <3>1 DEF Validated
    <3>3. mode = "enforce" => failures' = failures /\ hook[one] # None
      BY <1>4, <2>5
    <3>4. mode = "enforce" => (Writing(one)' <=> Writing(one))
      BY <2>5, <3>1, <3>3 DEF Writing
    <3>5. mode = "enforce" => Known(one)'
      BY <1>2, <2>1, <2>5, <3>1, <3>3, <3>4 DEF Judged, Known, Shows
    <3> QED BY <1>2, <2>2, <3>2, <3>4, <3>5 DEF Judged
  <2> QED BY <1>2, <1>4, <2>3, <2>4, <2>5
<1> QED BY <1>1, <1>3, <1>4

(* The state after the end of a call is the status, before it is reported.  *)
LEMMA EndOfCall ==
  ASSUME NEW c, NEW result \in Outcomes, NEW s
  PROVE  NextStatus(s, Body(ResultType(result), c, result)) =
           IF Validates(c) /\ s # "clean" THEN result ELSE s
<1> DEFINE e == Body(ResultType(result), c, result)
<1>1. e.type \in {"tool.after", "tool.error"} /\ e.tool = c.tool /\ e.command = c.command
      /\ e.outcome = result
  BY DEF Body, ResultType
<1> HIDE DEF e
<1>2. ~IsWrite(e) /\ (IsValidation(e) <=> Validates(c))
  BY <1>1 DEF IsWrite, IsValidation, ResultTypes, Validates
<1>3. NextStatus(s, e) = IF Validates(c) /\ s # "clean" THEN result ELSE s
  BY <1>1, <1>2 DEF NextStatus, Outcomes
<1> QED BY <1>3 DEF e

\* What the host and the agent do stores nothing and keeps it too.
LEMMA HostIsJudged ==
  ASSUME SessionInv, NEW one, Slots = {one}, Judged(one),
         \/ \E c \in ToolCalls : Propose(one, c)
         \/ \E result \in Outcomes : Finish(one, result)
         \/ RequestStop
         \/ NewTurn
  PROVE  Judged(one)'
<1>1. /\ Types /\ (\A u \in Threads : Fits(u)) /\ one \in Threads /\ one \in Slots /\ one # "stop"
      /\ "stop" \in Threads
      /\ phase \in [Threads -> Phases] /\ hook \in [Threads -> {None} \cup Stored]
      /\ call \in [Slots -> ToolCalls \cup {None}]
      /\ outcome \in [Slots -> Outcomes \cup {None}]
  BY SessionAssumption DEF SessionInv, Threads, Types
<1>2. ASSUME NEW c \in ToolCalls, Propose(one, c) PROVE Judged(one)'
  <2>1. /\ phase[one] = "idle" /\ phase["stop"] = "idle"
        /\ phase'[one] = "asking" /\ phase'["stop"] = "idle"
        /\ UNCHANGED <<mode, window, hook, dirty, status, failures>>
    BY <1>1, <1>2 DEF Propose
  <2>2. hook[one] = None /\ hook'[one] = None /\ hook["stop"] = None /\ hook'["stop"] = None
    BY <1>1, <2>1 DEF Fits, InHook
  <2>3. ~Writing(one) /\ ~Writing(one)' /\ Validated(one)'
    BY <2>1, <2>2 DEF Writing, Validated
  <2>4. mode = "enforce" => Dirtied'
    BY <2>1, <2>2 DEF Judged, Dirtied
  <2>5. mode = "enforce" => Known(one)'
    BY <2>1, <2>2, <2>3 DEF Judged, Known, Shows
  <2> QED BY <2>1, <2>3, <2>4, <2>5 DEF Judged
<1>3. ASSUME NEW result \in Outcomes, Finish(one, result) PROVE Judged(one)'
  <2>1. /\ phase[one] = "running" /\ phase'[one] = "reporting"
        /\ phase'["stop"] = phase["stop"] /\ outcome'[one] = result /\ call' = call
        /\ UNCHANGED <<mode, window, hook, failures>>
    BY <1>1, <1>3 DEF Finish
  <2>2. phase["stop"] = "idle" /\ hook[one] = None /\ hook["stop"] = None
    BY <1>1, <2>1 DEF Fits, InHook, Judged, Validated
  <2>3. ~(Writes(call[one]) /\ Validates(call[one]))
    BY DEF Writes, Validates, WriteTools
  <2>4. Validates(call[one]) => one \in covered
    BY <2>1 DEF Judged, Validated
  <2>5. /\ Writes(call[one]) => dirty' = TRUE /\ status' = "missing"
        /\ Validates(call[one]) =>
             /\ dirty' = IF result = "success" THEN FALSE ELSE dirty
             /\ status' = IF status # "clean" THEN result ELSE status
        /\ ~Writes(call[one]) /\ ~Validates(call[one]) => dirty' = dirty /\ status' = status
    BY <1>3, <2>3, <2>4 DEF Finish
  <2>6. Validated(one)'
    BY <2>1, <2>2, <2>5 DEF Validated
  <2>7. ~Writing(one)' /\ (Writing(one) <=> Writes(call[one]))
    BY <2>1, <2>2 DEF Writing
  <2>8. ASSUME mode = "enforce" PROVE Dirtied'
    <3>1. Writes(call[one]) => State(window) = "missing"
      BY <2>7, <2>8 DEF Judged
    <3>2. ~Writes(call[one]) => (dirty' => dirty)
      BY <2>5
    <3> QED BY <2>1, <2>2, <2>8, <3>1, <3>2 DEF Judged, Dirtied
  <2>9. EventOf(one)' = Body(ResultType(result), call[one], result)
    BY <1>1, <2>1 DEF EventOf
  <2>10. NextStatus(State(window), EventOf(one)') =
           IF Validates(call[one]) /\ State(window) # "clean" THEN result ELSE State(window)
    BY <2>9, EndOfCall
  <2>11. ASSUME mode = "enforce", failures = 0
         PROVE  LET state == NextStatus(State(window), EventOf(one)')
                IN  /\ state \in {"clean", status'}
                    /\ Len(window) < HistoryLimit => state = status'
    <3>1. CASE Writes(call[one])
      <4>1. State(window) = "missing"
        BY <2>7, <2>11, <3>1 DEF Judged
      <4> QED BY <2>3, <2>5, <2>10, <3>1, <4>1
    <3>2. CASE ~Writes(call[one])
      <4>1. /\ State(window) \in {"clean", status}
            /\ Len(window) < HistoryLimit => State(window) = status
        BY <2>1, <2>7, <2>11, <3>2 DEF Judged, Known, Shows
      <4> QED BY <2>5, <2>10, <3>2, <4>1
    <3> QED BY <3>1, <3>2
  <2>12. mode = "enforce" => Known(one)'
    BY <2>1, <2>2, <2>7, <2>11 DEF Known, Shows
  <2> QED BY <2>1, <2>6, <2>7, <2>8, <2>12 DEF Judged
<1>4. ASSUME RequestStop \/ NewTurn PROVE Judged(one)'
  <2>1. /\ phase["stop"] \in {"idle", "stopped"} /\ phase[one] = "idle"
        /\ phase'["stop"] \in {"idle", "asking"} /\ phase'[one] = "idle"
        /\ UNCHANGED <<mode, window, hook, call, outcome, covered, dirty, status, failures>>
    BY <1>1, <1>4 DEF RequestStop, NewTurn, host, Judged, Validated
  <2>2. hook[one] = None /\ hook["stop"] = None
    BY <1>1, <2>1 DEF Fits, InHook
  <2>3. ~Writing(one) /\ ~Writing(one)' /\ Validated(one)'
    BY <2>1 DEF Writing, Validated
  <2>4. mode = "enforce" => Dirtied'
    BY <2>1, <2>2 DEF Judged, Dirtied
  <2>5. mode = "enforce" => Known(one)'
    BY <2>1, <2>2, <2>3 DEF Judged, Known, Shows
  <2> QED BY <2>1, <2>3, <2>4, <2>5 DEF Judged
<1> QED BY <1>2, <1>3, <1>4

\* No step breaks what is known of the window and the status.
LEMMA StepIsJudged ==
  ASSUME SessionInv, NEW one, Slots = {one}, Judged(one), [Next]_vars
  PROVE  Judged(one)'
<1>1. Types /\ (\A u \in Threads : Fits(u)) /\ mode \in Modes
  BY DEF SessionInv, Types
<1>2. ASSUME NEW t \in Threads, NEW exported \in BOOLEAN, Respond(t, exported) PROVE Judged(one)'
  <2>1. PICK response :
          /\ React(t, response) /\ window' = window /\ failures' = failures /\ hook[t] # None
          /\ mode = "enforce" /\ t = "stop" =>
               (Prevents(response) <=> State(hook[t].history) \notin {"clean", "success"})
    BY <1>1, <1>2, Answers
  <2> QED BY <2>1, ReactionIsJudged
<1>3. ASSUME NEW t \in Threads, Fail(t) PROVE Judged(one)'
  <2>1. /\ React(t, FailureResponse(mode)) /\ window' = window /\ failures' # 0
        /\ mode = "enforce" => Prevents(FailureResponse(mode))
    BY <1>1, <1>3, FailureAnswers DEF Fail, Types
  <2> QED BY <2>1, ReactionIsJudged
<1>4. CASE UNCHANGED vars
  <2>1. UNCHANGED <<mode, window, phase, call, outcome, hook, covered, dirty, status, failures>>
    BY <1>4 DEF vars
  <2>2. EventOf(one)' = EventOf(one)
    BY <2>1 DEF EventOf
  <2> QED BY <2>1, <2>2 DEF Judged, Validated, Writing, Dirtied, Known, Shows
<1> QED BY <1>2, <1>3, <1>4, StoringIsJudged, HostIsJudged DEF Next, HookStep

\* An empty window is one of a clean session.
LEMMA InitIsJudged ==
  ASSUME NEW one, Slots = {one}, Init
  PROVE  Judged(one)
<1>1. /\ phase[one] = "idle" /\ phase["stop"] = "idle" /\ hook["stop"] = None /\ hook[one] = None
      /\ dirty = FALSE /\ status = "clean" /\ window = <<>>
  BY DEF Init, Threads
<1>2. State(window) = "clean"
  <2>1. Len(window) = 0
    BY <1>1
  <2>2. DOMAIN DetectionHistory(StopEvent, window) = {}
    BY <2>1 DEF DetectionHistory
  <2>3. Placed(DetectionHistory(StopEvent, window), 0)
    BY <2>2 DEF Placed
  <2>4. Untouched(DetectionHistory(StopEvent, window))
    BY <2>2 DEF Untouched
  <2> QED BY <2>3, <2>4, StateOfValidations DEF State
<1> QED BY <1>1, <1>2 DEF Judged, Validated, Writing, Dirtied, Known, Shows

\* The window and the status agree in every session of one slot.
LEMMA SessionIsJudged ==
  ASSUME NEW one, Slots = {one}
  PROVE  Spec => [](SessionInv /\ Judged(one))
<1>1. Init => SessionInv /\ Judged(one)
  BY InitInOrder, InitIsJudged
<1>2. (SessionInv /\ Judged(one)) /\ [Next]_vars => (SessionInv /\ Judged(one))'
  BY StepInOrder, StepIsSafe, StepIsJudged DEF SessionInv
<1> QED BY <1>1, <1>2, PTL DEF Spec

(* In enforce mode, with one call at a time and while the session fits in   *)
(* the window, an agent whose stop is accepted has validated what it wrote, *)
(* whatever hooks failed (validation.py:17-61; docs/supervisor.md:37).      *)
THEOREM AcceptedStopsAreValidated ==
  ASSUME NEW one, Slots = {one}
  PROVE  Spec => []AcceptedStopIsValidated
<1>1. SessionInv /\ Judged(one) => AcceptedStopIsValidated
  BY DEF Judged, Dirtied, AcceptedStopIsValidated
<1>2. Spec => [](SessionInv /\ Judged(one))
  BY SessionIsJudged
<1> QED BY <1>1, <1>2, PTL

(* In enforce mode, with one call at a time and hooks that work, a stop is  *)
(* held only while the last write is unvalidated, and let through, in a     *)
(* session that fits in the window, only when it is not                     *)
(* (validation.py:17-61, helpers.py:97-107).                                *)
THEOREM StopsAreHeldByStatus ==
  ASSUME NEW one, Slots = {one}
  PROVE  Spec => StopFollowsStatus
<1> DEFINE Followed ==
      mode = "enforce" /\ failures' = 0 =>
        /\ Held("stop") => status \notin {"clean", "success"}
        /\ phase["stop"] = "asking" /\ phase'["stop"] = "stopped" /\ Len(window) < HistoryLimit
             => status \in {"clean", "success"}
<1>1. ASSUME SessionInv, Judged(one), [Next]_vars PROVE Followed
  <2> SUFFICES ASSUME mode = "enforce", failures' = 0, phase["stop"] = "asking",
                      phase'["stop"] \in {"idle", "stopped"}
               PROVE  /\ phase'["stop"] = "idle" => status \notin {"clean", "success"}
                      /\ phase'["stop"] = "stopped" /\ Len(window) < HistoryLimit
                           => status \in {"clean", "success"}
    BY DEF Held
  <2>1. /\ Types /\ (\A u \in Threads : Fits(u)) /\ "stop" \in Threads /\ "stop" \notin Slots
        /\ phase \in [Threads -> Phases] /\ failures \in Nat
    BY <1>1, SessionAssumption DEF SessionInv, Types, Threads
  <2>2. \E exported \in BOOLEAN : Respond("stop", exported)
    <3>1. ASSUME NEW t \in Threads, t # "stop", NEW response, React(t, response) PROVE FALSE
      BY <2>1, <3>1, Reacting DEF Still
    <3>2. ASSUME NEW t \in Threads, Store(t) PROVE FALSE
      BY <3>2 DEF Store
    <3>3. ASSUME NEW t \in Threads, Fail(t) PROVE FALSE
      BY <2>1, <3>3 DEF Fail
    <3>4. ASSUME NEW t \in Slots, NEW c \in ToolCalls, Propose(t, c) PROVE FALSE
      BY <3>4 DEF Propose
    <3>5. ASSUME NEW t \in Slots, NEW result \in Outcomes, Finish(t, result) PROVE FALSE
      BY <2>1, <3>5 DEF Finish
    <3>6. ~RequestStop /\ ~NewTurn /\ ~UNCHANGED vars
      BY <2>1 DEF RequestStop, NewTurn, vars
    <3>7. ASSUME NEW t \in Threads, NEW exported \in BOOLEAN, Respond(t, exported) PROVE t = "stop"
      BY <2>1, <3>1, <3>7, Answers
    <3> QED BY <1>1, <3>2, <3>3, <3>4, <3>5, <3>6, <3>7 DEF Next, HookStep
  <2>3. PICK response :
          /\ React("stop", response) /\ failures' = failures /\ hook["stop"] # None
          /\ Prevents(response) <=> State(hook["stop"].history) \notin {"clean", "success"}
    BY <2>1, <2>2, Answers
  <2>4. /\ phase'["stop"] = "idle" => Prevents(response)
        /\ phase'["stop"] = "stopped" => ~Prevents(response)
    BY <2>1, <2>3, Reacting
  <2>5. Shows(State(hook["stop"].history))
    BY <1>1, <2>3 DEF Judged, Known
  <2> QED BY <2>3, <2>4, <2>5 DEF Shows
<1>2. SessionInv /\ Judged(one) /\ [Next]_vars => [Followed]_vars
  BY <1>1
<1>3. Spec => [](SessionInv /\ Judged(one))
  BY SessionIsJudged
<1> QED BY <1>2, <1>3, PTL DEF Spec, StopFollowsStatus, Followed
=============================================================================
