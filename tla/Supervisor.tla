----------------------------- MODULE Supervisor -----------------------------
(***************************************************************************)
(* The in-memory supervisor: Supervisor.process without a store.  One      *)
(* instance serves every session of a daemon, a test or a replay.  Each    *)
(* session keeps the last HistoryLimit events in the order they arrived.   *)
(***************************************************************************)
EXTENDS GuardWatch

CONSTANTS
  Sessions,            \* session ids
  Bodies,              \* the events that may arrive, without their sequence
  ExplicitSequences,   \* sequences a caller may supply
  MaxEvents            \* bound: events processed in a behaviour

\* The fields of an event but its sequence.
Fields == {"type", "actor", "tool", "command", "paths", "description", "outcome", "claim"}

ASSUME SupervisorAssumption == ExplicitSequences \subseteq Nat /\ MaxEvents \in Nat

VARIABLES
  history,     \* session -> the bounded deque of processed events
  sequences,   \* session -> the next default sequence
  last,        \* the last SupervisionResult, or None
  watch,       \* history variable: session, actor -> the reference observer
  processed    \* number of events processed

vars == <<history, sequences, last, watch, processed>>

Actors == {b.actor : b \in Bodies}

Init ==
  /\ history = [s \in Sessions |-> <<>>]
  /\ sequences = [s \in Sessions |-> 0]
  /\ last = None
  /\ watch = [s \in Sessions |-> [a \in Actors |-> Unwatched]]
  /\ processed = 0

Stamp(body, sequence) ==
  [f \in Fields \cup {"sequence"} |-> IF f = "sequence" THEN sequence ELSE body[f]]

NextSequence(s, sequence) == Max({sequences[s], sequence + 1})

Remember_Mutant(h, e) == IF Len(h) > HistoryLimit THEN Append(Tail(h), e) ELSE Append(h, e)

\* deque(maxlen=HistoryLimit).append
Remember(h, e) ==
  LET longer == Append(h, e)
  IN  IF Len(longer) > HistoryLimit THEN Tail(longer) ELSE longer

Process(s, body, requested) ==
  LET sequence == IF requested = None THEN sequences[s] ELSE requested
      e == Stamp(body, sequence)
      evidence == Detect(e, history[s])
  IN  /\ processed < MaxEvents
      /\ processed' = processed + 1
      /\ sequences' = [sequences EXCEPT ![s] = NextSequence(s, sequence)]
      /\ last' = [session |-> s, event |-> e, evidence |-> evidence,
                  decision |-> Decide(e, evidence)]
      /\ history' = [history EXCEPT ![s] = Remember(@, e)]
      /\ watch' = [watch EXCEPT ![s][e.actor] = Observe(@, e)]

Next == \E s \in Sessions, b \in Bodies, q \in {None} \cup ExplicitSequences : Process(s, b, q)

Spec == Init /\ [][Next]_vars

-----------------------------------------------------------------------------
TypeOK ==
  /\ sequences \in [Sessions -> Nat]
  /\ processed \in 0..MaxEvents
  /\ \A s \in Sessions :
       /\ Len(history[s]) <= HistoryLimit
       /\ \A i \in 1..Len(history[s]) :
            /\ history[s][i].sequence \in Nat
            /\ \E b \in Bodies : history[s][i] = Stamp(b, history[s][i].sequence)

(* A stop is held only for a reason that is real: the actor wrote and no    *)
(* successful validation came after its last write.  That is true however   *)
(* much of the session fell out of the window, because a validation is      *)
(* younger than the write it vouches for.  While the session fits in the    *)
(* window every such stop is held, and nothing another actor did can vouch  *)
(* for it (validation.py:17-61, helpers.py:97-107, supervisor.py:57-69).    *)
StopsAreJudgedRight ==
  last # None /\ last.event.type \in StopTypes =>
    LET validated == watch[last.session][last.event.actor].status \in {"clean", "success"}
    IN  /\ last.decision.action = "continue" => ~validated
        /\ Len(history[last.session]) < HistoryLimit =>
             (last.decision.action = "allow" <=> validated)

(* Loop evidence on a failing result means that identical call really did   *)
(* fail FailureThreshold times in a row for this actor, whatever its other  *)
(* calls and the other actors did in between.  While the session fits in the*)
(* window every such streak, and every call made RepeatThreshold times in a *)
(* row, is reported (loop.py:41-93).                                        *)
LoopsAreReal ==
  last # None =>
    LET w == watch[last.session][last.event.actor]
        result == last.event.type \in ResultTypes
        failing == result /\ w.failures >= FailureThreshold
        repeating == last.event.type = "tool.before" /\ w.repeats >= RepeatThreshold
        reported == \E i \in 1..Len(last.evidence) : last.evidence[i].detector = "loop"
    IN  /\ result /\ reported => failing
        /\ failing \/ repeating =>
             reported \/ Len(history[last.session]) >= HistoryLimit
=============================================================================
