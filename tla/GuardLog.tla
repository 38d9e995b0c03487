------------------------------ MODULE GuardLog ------------------------------
(***************************************************************************)
(* What the durable supervisor promises its callers, without tables,       *)
(* processes or crashes: every session is a log that only grows, every     *)
(* logged event gets at most one verdict, that verdict depends on nothing  *)
(* but the event and the bounded stretch of log right before it, and a     *)
(* caller is told nothing but a verdict on the very event it submitted.    *)
(***************************************************************************)
EXTENDS Guard

CONSTANTS Sessions, Requests, Redact(_)

VARIABLES
  log,        \* session -> sequence of accepted events
  verdicts,   \* set of [id, evidence, decision]
  answers     \* set of [request, event, evidence, decision]

logVars == <<log, verdicts, answers>>

LogInit ==
  /\ log = [s \in Sessions |-> <<>>]
  /\ verdicts = {}
  /\ answers = {}

Logged(s, i) == s \in Sessions /\ i \in 1..Len(log[s])
Known(id) == \E s \in Sessions : \E i \in 1..Len(log[s]) : log[s][i].id = id

Accept(r) ==
  /\ ~Known(r.id)
  /\ log' = [log EXCEPT ![r.session] =
               Append(@, [id |-> r.id, session |-> r.session,
                          body |-> Redact(r.body), sequence |-> Len(@)])]
  /\ UNCHANGED <<verdicts, answers>>

Window(s, i) == SubSeq(log[s], Max({1, i - HistoryLimit}), i - 1)

Verdict(s, i) ==
  LET window == Window(s, i)
      found == Detect(log[s][i].body, [j \in DOMAIN window |-> window[j].body])
  IN  [id |-> log[s][i].id, evidence |-> found, decision |-> Decide(log[s][i].body, found)]

Tell(r, s, i, v) ==
  /\ r.session = s /\ log[s][i].id = r.id /\ log[s][i].body = Redact(r.body)
  /\ answers' = answers \cup {[request |-> r, event |-> log[s][i],
                               evidence |-> v.evidence, decision |-> v.decision]}

\* The first verdict on an event is the one that stays.
Settle(r, s, i) ==
  /\ \A v \in verdicts : v.id # log[s][i].id
  /\ verdicts' = verdicts \cup {Verdict(s, i)}
  /\ Tell(r, s, i, Verdict(s, i))
  /\ UNCHANGED log

Repeat(r, s, i) ==
  /\ \E v \in verdicts : v.id = log[s][i].id /\ Tell(r, s, i, v)
  /\ UNCHANGED <<log, verdicts>>

LogNext ==
  \E r \in Requests :
    \/ Accept(r)
    \/ \E s \in Sessions : \E i \in 1..Len(log[s]) : Settle(r, s, i) \/ Repeat(r, s, i)

LogSpec == LogInit /\ [][LogNext]_logVars
=============================================================================
