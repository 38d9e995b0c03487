-------------------------- MODULE HookPipeline_proofs --------------------------
(***************************************************************************)
(* What the policy makes of evidence, whatever detectors gave it and for   *)
(* all inputs of the hook: the answer can be rendered, strong evidence     *)
(* prevents, and more evidence never weakens an answer.                    *)
(***************************************************************************)
EXTENDS HookPipeline, Guard_proofs

\* What any detector may report; Items is what the built-in ones do.
Reported == [detector : Detectors \cup {"any"}, drift_type : DriftTypes,
             severity : Severities, score : 0..100]

\* The answer that is given is the one to the evidence collected so far.
Answered ==
  stored # None =>
    /\ stored.type \in EventTypes
    /\ response = Handle(mode, platform, stored.type, Decide(Body(stored), evidence), TRUE)

PipelineInv ==
  /\ mode \in Modes /\ platform \in Platforms /\ done \in Nat
  /\ evidence \in Seq(Reported)
  /\ \E S : history \in Seq(S)
  /\ Answered

-----------------------------------------------------------------------------
(* The strongest evidence                                                   *)

\* The weight of an item: severity first, then score.
Weight(item) == 101 * Rank[item.severity] + item.score

\* An item is weaker when it weighs less.
LEMMA WeakerWeighsLess ==
  ASSUME NEW a \in Reported, NEW b \in Reported
  PROVE  /\ Rank[a.severity] \in 0..4 /\ Weight(a) \in 0..504
         /\ Weaker(a, b) <=> Weight(a) < Weight(b)
         /\ ~Weaker(a, b) => Rank[a.severity] >= Rank[b.severity]
<1>1. PICK ra \in 0..4, sa \in 0..100 : ra = Rank[a.severity] /\ sa = a.score
  BY Ranks DEF Reported, Severities
<1>2. PICK rb \in 0..4, sb \in 0..100 : rb = Rank[b.severity] /\ sb = b.score
  BY Ranks DEF Reported, Severities
<1>3. Weight(a) = 101 * ra + sa /\ Weight(b) = 101 * rb + sb
  BY <1>1, <1>2 DEF Weight
<1>4. Weaker(a, b) <=> ra < rb \/ (ra = rb /\ sa < sb)
  BY <1>1, <1>2 DEF Weaker
<1>5. (ra < rb \/ (ra = rb /\ sa < sb)) <=> 101 * ra + sa < 101 * rb + sb
  OBVIOUS
<1>6. 101 * ra + sa \in 0..504
  OBVIOUS
<1>7. ~(ra < rb \/ (ra = rb /\ sa < sb)) => ra >= rb
  OBVIOUS
<1> QED BY <1>1, <1>2, <1>3, <1>4, <1>5, <1>6, <1>7

(* The item that decides is one of them, and none is of a higher severity.  *)
LEMMA PrimaryIsStrongest ==
  ASSUME NEW found \in Seq(Reported), found # <<>>
  PROVE  /\ Primary(found) \in Reported
         /\ \E i \in 1..Len(found) : Primary(found) = found[i]
         /\ \A j \in 1..Len(found) : Rank[Primary(found).severity] >= Rank[found[j].severity]
<1> DEFINE Best == {i \in 1..Len(found) :
                      \A j \in 1..Len(found) : ~Weaker(found[i], found[j])}
           weights == {Weight(found[i]) : i \in 1..Len(found)}
<1>1. Len(found) \in Nat /\ Len(found) >= 1 /\ \A i \in 1..Len(found) : found[i] \in Reported
  OBVIOUS
<1>2. weights \subseteq 0..504 /\ weights # {} /\ 504 \in Nat
  <2>1. ASSUME NEW i \in 1..Len(found) PROVE Weight(found[i]) \in 0..504
    <3>1. found[i] \in Reported
      BY <1>1
    <3> QED BY <3>1, WeakerWeighsLess
  <2>2. Weight(found[1]) \in weights
    BY <1>1
  <2>3. weights \subseteq 0..504
    BY <2>1
  <2> HIDE DEF weights
  <2> QED BY <2>2, <2>3
<1>3. PICK i \in 1..Len(found) : \A j \in 1..Len(found) : Weight(found[j]) <= Weight(found[i])
  <2>1. PICK m \in weights : \A w \in weights : w <= m
    <3> HIDE DEF weights
    <3>1. Max(weights) \in weights /\ \A w \in weights : w <= Max(weights)
      BY <1>2, LargestOf
    <3> QED BY <3>1
  <2> QED BY <2>1
<1>4. i \in Best
  <2>1. ASSUME NEW j \in 1..Len(found) PROVE ~Weaker(found[i], found[j])
    <3>1. PICK a \in Reported, b \in Reported : a = found[i] /\ b = found[j]
      BY <1>1
    <3>2. PICK wa, wb \in 0..504 : wa = Weight(a) /\ wb = Weight(b)
      BY WeakerWeighsLess
    <3>3. wb <= wa /\ (Weaker(a, b) <=> wa < wb)
      BY <1>3, <3>1, <3>2, WeakerWeighsLess
    <3>4. ~(wa < wb)
      BY <3>3
    <3> QED BY <3>1, <3>3, <3>4
  <2> QED BY <2>1
<1>5. Best \subseteq 1..Len(found)
  OBVIOUS
<1>6. \A b \in Best : \A j \in 1..Len(found) : ~Weaker(found[b], found[j])
  OBVIOUS
<1>7. Primary(found) = found[Min(Best)]
  BY DEF Primary
<1> HIDE DEF Best, weights
<1>8. Min(Best) \in Best
  <2>1. Best \subseteq 0..Len(found) /\ Best # {}
    BY <1>1, <1>4, <1>5
  <2> QED BY <1>1, <2>1, SmallestOf
<1>9. PICK b \in Best : b = Min(Best)
  BY <1>8
<1>10. b \in 1..Len(found) /\ Primary(found) = found[b] /\ found[b] \in Reported
  BY <1>1, <1>5, <1>7, <1>9
<1>11. ASSUME NEW j \in 1..Len(found)
       PROVE  Rank[Primary(found).severity] >= Rank[found[j].severity]
  <2>1. found[j] \in Reported /\ ~Weaker(found[b], found[j])
    BY <1>1, <1>6
  <2> QED BY <1>10, <2>1, WeakerWeighsLess
<1> QED BY <1>10, <1>11

-----------------------------------------------------------------------------
(* What the host makes of the action                                        *)

\* A native answer is not the absence of one.
LEMMA Rendered ==
  ASSUME NEW action \in AppliedActions, NEW text \in Controls \cup {None}
  PROVE  Native(action, text) # None /\ ExitTwo(action) # None
<1>1. Native(action, text) \in Responses /\ ExitTwo(action) \in Responses
  BY DEF Native, ExitTwo, Responses
<1> QED BY <1>1, ResponseAssumption

\* Of the evidence that decides, what severity keeps the host from going on.
Preventive(type, severity) ==
  severity # "low" /\ (type \in StopTypes \/ (type \in PreTypes /\ severity \in {"high", "critical"}))

(* What a host is told for each action of the policy.                       *)
LEMMA Tells ==
  ASSUME NEW type \in EventTypes, NEW precompact
  PROVE  LET Told(action) == CommonHookResponse(type, action, precompact)
         IN  /\ Told("allow") \in {Native("defer", None), Native("allow", None)}
             /\ Told("warn") = Native("warn", "message")
             /\ type \in PreTypes => Told("block") = Native("block", "deny")
             /\ type \in StopTypes => Told("continue") \in {Native("continue", "block"),
                                                           ExitTwo("continue")}
             /\ type \notin StopTypes => Told("reanchor") \in {None, Native("reanchor", "context")}
<1> USE DEF CommonHookResponse
<1>1. CommonHookResponse(type, "allow", precompact) \in {Native("defer", None), Native("allow", None)}
  OBVIOUS
<1>2. CommonHookResponse(type, "warn", precompact) = Native("warn", "message")
  OBVIOUS
<1>3. type \in PreTypes => CommonHookResponse(type, "block", precompact) = Native("block", "deny")
  BY DEF PreTypes, TurnStops, ResultTypes
<1>4. type \in StopTypes =>
        CommonHookResponse(type, "continue", precompact)
          \in {Native("continue", "block"), ExitTwo("continue")}
  BY DEF StopTypes, TurnStops
<1>5. type \notin StopTypes =>
        CommonHookResponse(type, "reanchor", precompact) \in {None, Native("reanchor", "context")}
  BY DEF StopTypes, TurnStops
<1> QED BY <1>1, <1>2, <1>3, <1>4, <1>5

(* The policy's decision on evidence of any detectors.                      *)
LEMMA Decisions ==
  ASSUME NEW e, NEW found \in Seq(Reported), found # <<>>
  PROVE  /\ Decide(e, found).action = Action(e, Primary(found))
         /\ Action(e, Primary(found)) \in {"warn", "block", "continue", "reanchor"}
         /\ Action(e, Primary(found)) = "warn" <=> Primary(found).severity = "low"
         /\ Action(e, Primary(found)) # "warn" => Decide(e, found).fallback = "warn"
         /\ Action(e, Primary(found)) = "block" => e.type \in PreTypes
         /\ Action(e, Primary(found)) = "continue" => e.type \in StopTypes
         /\ Action(e, Primary(found)) = "reanchor" => e.type \notin StopTypes
         /\ Action(e, Primary(found)) \in {"block", "continue"}
              <=> Preventive(e.type, Primary(found).severity)
<1>1. PICK first \in Reported : first = Primary(found)
  BY PrimaryIsStrongest
<1>2. /\ Decide(e, found).action = Action(e, first)
      /\ Action(e, first) # "warn" => Decide(e, found).fallback = "warn"
  BY <1>1 DEF Decide
<1>3. PreTypes \cap StopTypes = {}
  BY DEF PreTypes, StopTypes
<1>4. CASE first.severity = "low"
  <2>1. Action(e, first) = "warn"
    BY <1>4 DEF Action
  <2> QED BY <1>1, <1>2, <1>4, <2>1 DEF Preventive
<1>5. CASE first.severity # "low" /\ e.type \in PreTypes /\ first.severity \in {"high", "critical"}
  <2>1. Action(e, first) = "block"
    BY <1>5, BlockAction
  <2> QED BY <1>1, <1>2, <1>5, <2>1 DEF Preventive
<1>6. CASE first.severity # "low" /\ e.type \in StopTypes
  <2>1. Action(e, first) = "continue"
    BY <1>3, <1>6 DEF Action
  <2> QED BY <1>1, <1>2, <1>6, <2>1 DEF Preventive
<1>7. CASE /\ first.severity # "low" /\ e.type \notin StopTypes
           /\ ~(e.type \in PreTypes /\ first.severity \in {"high", "critical"})
  <2>1. Action(e, first) = "reanchor"
    BY <1>7 DEF Action
  <2> QED BY <1>1, <1>2, <1>7, <2>1 DEF Preventive
<1> QED BY <1>4, <1>5, <1>6, <1>7

(* Every decision can be rendered at every event, and it keeps the host     *)
(* from going on exactly when the strongest evidence is preventive.         *)
LEMMA AnswersFollowEvidence ==
  ASSUME NEW m \in Modes, NEW p \in Platforms, NEW e, e.type \in EventTypes,
         NEW found \in Seq(Reported)
  PROVE  LET answer == Handle(m, p, e.type, Decide(e, found), TRUE)
         IN  /\ answer.applied_action # "error"
             /\ Prevents(answer) <=> /\ m = "enforce" /\ found # <<>>
                                     /\ Preventive(e.type, Primary(found).severity)
<1> DEFINE d == Decide(e, found)
           Told(action) == CommonHookResponse(e.type, action, p = "codex")
           answer == Handle(m, p, e.type, d, TRUE)
<1>1. None \notin {"deny", "block", "halt"}
  BY ResponseAssumption DEF Controls
<1>2. \A a \in {Native("defer", None), Native("allow", None), Native("warn", "message"),
                Native("reanchor", "context"), Native("observe", None)} :
        a.applied_action # "error" /\ ~Prevents(a)
  BY <1>1 DEF Native, Prevents
<1>3. \A a \in {Native("block", "deny"), Native("continue", "block"), ExitTwo("continue")} :
        a.applied_action # "error" /\ Prevents(a)
  BY DEF Native, ExitTwo, Prevents
<1>4. m \in {"enforce", "observe"}
  BY DEF Modes
<1>5. CASE m = "observe"
  <2>1. answer = Native("observe", None)
    BY <1>5 DEF Handle, ObservationResponse
  <2> QED BY <1>2, <1>5, <2>1
<1>6. ASSUME m = "enforce", Told(d.action) # None PROVE answer = Told(d.action)
  <2>1. RenderWithFallback(p, e.type, d) = Told(d.action)
    BY <1>6 DEF RenderWithFallback
  <2> QED BY <1>6, <2>1 DEF Handle
<1>7. ASSUME m = "enforce", Told(d.action) = None, d.fallback = "warn"
      PROVE  answer = Native("warn", "message")
  <2>1. None # "warn"
    BY ResponseAssumption DEF AppliedActions
  <2>2. RenderWithFallback(p, e.type, d) = Native("warn", "message")
    BY <1>7, <2>1, Tells DEF RenderWithFallback
  <2>3. Native("warn", "message") # None
    BY Rendered DEF Controls, AppliedActions
  <2> QED BY <1>7, <2>2, <2>3 DEF Handle
<1>8. CASE m = "enforce" /\ found = <<>>
  <2>1. d.action = "allow"
    BY <1>8 DEF Decide
  <2>2. Told(d.action) \in {Native("defer", None), Native("allow", None)}
    BY <2>1, Tells
  <2>3. Told(d.action) # None
    BY <2>2, Rendered DEF AppliedActions
  <2>4. answer \in {Native("defer", None), Native("allow", None)}
    BY <1>6, <1>8, <2>2, <2>3
  <2> QED BY <1>8, <1>2, <2>4
<1>9. CASE m = "enforce" /\ found # <<>>
  <2> DEFINE action == Action(e, Primary(found))
  <2>1. /\ d.action = action /\ action \in {"warn", "block", "continue", "reanchor"}
        /\ action # "warn" => d.fallback = "warn"
        /\ action = "block" => e.type \in PreTypes
        /\ action = "continue" => e.type \in StopTypes
        /\ action = "reanchor" => e.type \notin StopTypes
        /\ action \in {"block", "continue"} <=> Preventive(e.type, Primary(found).severity)
    BY <1>9, Decisions
  <2> HIDE DEF d, action, answer
  <2>2. CASE action = "warn"
    <3>1. Told("warn") = Native("warn", "message") /\ Told("warn") # None
      BY Tells, Rendered DEF Controls, AppliedActions
    <3>2. answer = Native("warn", "message")
      BY <1>6, <1>9, <2>1, <2>2, <3>1
    <3> QED BY <1>2, <2>1, <2>2, <3>2 DEF answer, d
  <2>3. CASE action = "block"
    <3>1. Told("block") = Native("block", "deny") /\ Told("block") # None
      BY <2>1, <2>3, Tells, Rendered DEF Controls, AppliedActions
    <3>2. answer = Native("block", "deny")
      BY <1>6, <1>9, <2>1, <2>3, <3>1
    <3> QED BY <1>9, <1>3, <2>1, <2>3, <3>2 DEF answer, d
  <2>4. CASE action = "continue"
    <3>1. Told("continue") \in {Native("continue", "block"), ExitTwo("continue")}
      BY <2>1, <2>4, Tells
    <3>2. Told("continue") # None
      BY <3>1, Rendered DEF Controls, AppliedActions
    <3>3. answer \in {Native("continue", "block"), ExitTwo("continue")}
      BY <1>6, <1>9, <2>1, <2>4, <3>1, <3>2
    <3> QED BY <1>9, <1>3, <2>1, <2>4, <3>3 DEF answer, d
  <2>5. CASE action = "reanchor"
    <3>1. Told("reanchor") \in {None, Native("reanchor", "context")}
      BY <2>1, <2>5, Tells
    <3>2. answer \in {Native("reanchor", "context"), Native("warn", "message")}
      BY <1>6, <1>7, <1>9, <2>1, <2>5, <3>1
    <3> QED BY <1>2, <2>1, <2>5, <3>2 DEF answer, d
  <2> QED BY <2>1, <2>2, <2>3, <2>4, <2>5
<1> QED BY <1>5, <1>4, <1>8, <1>9

-----------------------------------------------------------------------------
(* The invariant                                                            *)

\* What the detectors read of an event has its type.
LEMMA BodyHasType ==
  ASSUME NEW e
  PROVE  Body(e).type = e.type
BY DEF Body

\* Every event the adapter builds is of a type it knows, and keeps it.
LEMMA EventsHaveTypes ==
  ASSUME NEW p \in Platforms, NEW raw, BuildEvent(p, raw) # None
  PROVE  LET kept == RedactEvent(BuildEvent(p, raw))
         IN  kept.type \in EventTypes /\ Body(kept).type = kept.type
<1>1. Readable(p, raw)
  BY DEF BuildEvent
<1>2. PICK name \in DOMAIN HookEventTypes : name = Word(raw.hook_event_name)
  BY <1>1 DEF Readable, AllowedHooks
<1>3. HookEventTypes[name] \in EventTypes
  BY DEF HookEventTypes, EventTypes
<1>4. BuildEvent(p, raw).type = HookEventTypes[name]
  BY <1>1, <1>2 DEF BuildEvent
<1>5. RedactEvent(BuildEvent(p, raw)).type = BuildEvent(p, raw).type
  BY DEF RedactEvent, BuildEvent
<1> QED BY <1>3, <1>4, <1>5, BodyHasType

\* The built-in detectors report what any detector may.
LEMMA DetectReports ==
  ASSUME NEW e, NEW past, Len(past) \in Nat
  PROVE  Detect(e, past) \in Seq(Reported)
<1> DEFINE h == DetectionHistory(e, past)
<1>1. Placed(h, Len(past))
  BY OwnPlaced
<1> HIDE DEF h
<1>2. Items \subseteq Reported
  BY DEF Items, Reported
<1>3. ASSUME NEW found \in Seq(Items) PROVE found \in Seq(Reported)
  BY <1>2
<1>4. /\ ConstraintDetector(e) \in Seq(Reported) /\ ScopeDetector(e) \in Seq(Reported)
      /\ LoopDetector(e, h) \in Seq(Reported) /\ ValidationDetector(e, h) \in Seq(Reported)
      /\ StateDetector(e, h) \in Seq(Reported)
  BY <1>1, <1>3, Findings, AtMostOneIsSeq
<1>5. PICK s1, s2, s3, s4, s5 \in Seq(Reported) : Detect(e, past) = s1 \o s2 \o s3 \o s4 \o s5
  BY <1>4 DEF Detect, DetectIn, h
<1> QED BY <1>5

\* No input, no answer.
LEMMA InitPipeline == Init => PipelineInv
<1> SUFFICES ASSUME Init PROVE PipelineInv
  OBVIOUS
<1>1. history \in Seq({})
  BY DEF Init
<1> QED BY <1>1 DEF Init, PipelineInv, Answered

\* Every hook answers what its evidence calls for.
LEMMA NextPipeline ==
  ASSUME PipelineInv, [Next]_vars
  PROVE  PipelineInv'
<1>1. CASE UNCHANGED vars
  BY <1>1 DEF vars, PipelineInv, Answered
<1>2. CASE Refuse
  <2>1. UNCHANGED <<mode, platform, history>> /\ done' \in Nat /\ evidence' = <<>> /\ stored' = None
    BY <1>2 DEF Refuse, PipelineInv
  <2> QED BY <2>1 DEF PipelineInv, Answered
<1>3. CASE HandleInput
  <2> DEFINE body == Body(stored')
  <2>1. /\ BuildEvent(platform, Input) # None
        /\ stored' = RedactEvent(BuildEvent(platform, Input))
        /\ UNCHANGED <<mode, platform>> /\ done' \in Nat
        /\ evidence' = Detect(body, history)
        /\ response' = Handle(mode, platform, body.type, Decide(body, evidence'), TRUE)
        /\ history' = Append(history, body)
    BY <1>3 DEF HandleInput, PipelineInv
  <2>2. stored'.type \in EventTypes /\ body.type = stored'.type
    BY <2>1, EventsHaveTypes DEF PipelineInv
  <2> HIDE DEF body
  <2>3. PICK S : history \in Seq(S)
    BY DEF PipelineInv
  <2>4. evidence' \in Seq(Reported)
    BY <2>1, <2>3, DetectReports
  <2>5. history' \in Seq(S \cup {body})
    BY <2>1, <2>3
  <2>6. Answered'
    BY <2>1, <2>2 DEF Answered, body
  <2> QED BY <2>1, <2>4, <2>5, <2>6 DEF PipelineInv
<1>4. ASSUME NEW item \in OwnItems, Detected(item) PROVE PipelineInv'
  <2>1. item \in Reported
    BY PipelineAssumption DEF OwnItems, Evidence, Reported, DriftTypes, Severities, Rank
  <2>2. evidence' \in Seq(Reported)
    BY <1>4, <2>1 DEF Detected, PipelineInv
  <2> QED BY <1>4, <2>2 DEF Detected, PipelineInv, Answered
<1> QED BY <1>1, <1>2, <1>3, <1>4 DEF Next

-----------------------------------------------------------------------------
(* The theorems                                                             *)

\* The answer is the one to the evidence, in every behaviour.
LEMMA PipelineAnswers == Spec => []PipelineInv
<1> QED BY InitPipeline, NextPipeline, PTL DEF Spec

\* Evidence of a high severity is preventive at every call and every stop.
LEMMA StrongIsPreventive ==
  ASSUME NEW found \in Seq(Reported), NEW type \in PreTypes \cup StopTypes,
         NEW i \in 1..Len(found), Rank[found[i].severity] >= Rank["high"]
  PROVE  found # <<>> /\ Preventive(type, Primary(found).severity)
<1>1. found # <<>> /\ found[i] \in Reported
  OBVIOUS
<1>2. PICK first \in Reported : first = Primary(found) /\ Rank[first.severity] >= Rank[found[i].severity]
  BY <1>1, PrimaryIsStrongest
<1>3. PICK r \in 0..4, r2 \in 0..4 : r = Rank[first.severity] /\ r2 = Rank[found[i].severity]
  BY <1>1, Ranks DEF Reported, Severities
<1>4. r >= 3
  BY <1>2, <1>3, Ranks
<1>5. first.severity \in {"high", "critical"}
  BY <1>3, <1>4, Ranks DEF Reported, Severities
<1> QED BY <1>1, <1>2, <1>5 DEF Preventive

\* What is preventive stays so under a stronger severity.
LEMMA StrongerIsPreventive ==
  ASSUME NEW type, NEW a \in Severities \ {"info"}, NEW b \in Severities \ {"info"},
         Preventive(type, a), Rank[b] >= Rank[a]
  PROVE  Preventive(type, b)
<1>1. CASE a \in {"high", "critical"}
  <2>1. b \in {"high", "critical"}
    BY <1>1, Ranks DEF Severities
  <2> QED BY <2>1 DEF Preventive
<1>2. CASE a = "medium"
  <2>1. b # "low"
    BY <1>2, Ranks
  <2>2. type \in StopTypes
    BY <1>2 DEF Preventive
  <2> QED BY <2>1, <2>2 DEF Preventive
<1> QED BY <1>1, <1>2 DEF Severities, Preventive

(* An answer prevents exactly when the strongest evidence is preventive.    *)
LEMMA AnswerOfState ==
  ASSUME PipelineInv, stored # None
  PROVE  /\ response.applied_action # "error"
         /\ Prevents(response) <=> /\ mode = "enforce" /\ evidence # <<>>
                                  /\ Preventive(stored.type, Primary(evidence).severity)
<1>1. /\ mode \in Modes /\ platform \in Platforms /\ evidence \in Seq(Reported)
      /\ stored.type \in EventTypes
      /\ response = Handle(mode, platform, stored.type, Decide(Body(stored), evidence), TRUE)
  BY DEF PipelineInv, Answered
<1>2. PICK e : e = Body(stored)
  OBVIOUS
<1>3. e.type = stored.type
  BY <1>2, BodyHasType
<1> QED BY <1>1, <1>2, <1>3, AnswersFollowEvidence

(* Whatever any detector reports, and however often, the answer to it can   *)
(* be rendered (engine.py:40-66, decision_mapping.py:20-32).                *)
THEOREM EveryDecisionIsRendered == Spec => []AlwaysRenderable
<1>1. PipelineInv => AlwaysRenderable
  BY AnswerOfState DEF AlwaysRenderable
<1> QED BY <1>1, PipelineAnswers, PTL

(* Evidence of high or critical severity prevents a tool call and any stop, *)
(* whatever other evidence there is, in enforce mode and in no other        *)
(* (engine.py:31-49, decision_mapping.py:57-123).                           *)
THEOREM StrongEvidenceHolds == Spec => []StrongEvidencePrevents
<1>1. PipelineInv => StrongEvidencePrevents
  <2> SUFFICES ASSUME PipelineInv, stored # None, stored.type \in PreTypes \cup StopTypes,
                      NEW i \in 1..Len(evidence), Rank[evidence[i].severity] >= Rank["high"]
               PROVE  Prevents(response) <=> mode = "enforce"
    BY DEF StrongEvidencePrevents
  <2>1. evidence # <<>> /\ Preventive(stored.type, Primary(evidence).severity)
    BY StrongIsPreventive DEF PipelineInv
  <2> QED BY <2>1, AnswerOfState
<1> QED BY <1>1, PipelineAnswers, PTL

(* Further evidence, of any detector and in any number, never undoes an     *)
(* answer that prevents, severity info aside (engine.py:31-49).             *)
THEOREM EvidenceNeverWeakens == Spec => MoreEvidenceNeverWeakens
<1> DEFINE Stays == (done' = done /\ \A i \in 1..Len(evidence') : evidence'[i].severity # "info")
                      => (Prevents(response) => Prevents(response'))
<1>1. PipelineInv /\ PipelineInv' /\ [Next]_vars => [Stays]_vars
  <2> SUFFICES ASSUME PipelineInv, PipelineInv', [Next]_vars, done' = done, Prevents(response),
                      \A i \in 1..Len(evidence') : evidence'[i].severity # "info"
               PROVE  Prevents(response')
    OBVIOUS
  <2>1. CASE UNCHANGED vars
    BY <2>1 DEF vars
  <2>2. ASSUME NEW item \in OwnItems, Detected(item) PROVE Prevents(response')
    <3>1. /\ stored # None /\ evidence' = Append(evidence, item)
          /\ UNCHANGED <<mode, stored>>
          /\ evidence \in Seq(Reported) /\ evidence' \in Seq(Reported)
      BY <2>2 DEF Detected, PipelineInv
    <3>2. /\ mode = "enforce" /\ evidence # <<>>
          /\ Preventive(stored.type, Primary(evidence).severity)
      BY <3>1, AnswerOfState
    <3>3. PICK a \in Reported, i \in 1..Len(evidence) : a = Primary(evidence) /\ a = evidence[i]
      BY <3>1, <3>2, PrimaryIsStrongest
    <3>4. evidence' # <<>> /\ i \in 1..Len(evidence') /\ evidence'[i] = a
      BY <3>1, <3>3
    <3>5. PICK b \in Reported, j \in 1..Len(evidence') :
            b = Primary(evidence') /\ b = evidence'[j] /\ Rank[b.severity] >= Rank[a.severity]
      BY <3>1, <3>4, PrimaryIsStrongest
    <3>6. a.severity \in Severities \ {"info"} /\ b.severity \in Severities \ {"info"}
      BY <3>4, <3>5 DEF Reported
    <3>7. Preventive(stored.type, b.severity)
      BY <3>2, <3>3, <3>5, <3>6, StrongerIsPreventive
    <3>8. (PipelineInv /\ stored # None)' =>
            (Prevents(response) <=> /\ mode = "enforce" /\ evidence # <<>>
                                    /\ Preventive(stored.type, Primary(evidence).severity))'
      BY AnswerOfState, PTL
    <3> QED BY <3>1, <3>2, <3>4, <3>5, <3>7, <3>8
  <2>3. CASE Refuse \/ HandleInput
    <3>1. done \in Nat /\ done' = done + 1
      BY <2>3 DEF Refuse, HandleInput, PipelineInv
    <3> QED BY <3>1
  <2> QED BY <2>1, <2>2, <2>3 DEF Next
<1> QED BY <1>1, PipelineAnswers, PTL DEF Spec, MoreEvidenceNeverWeakens
=============================================================================
