------------------------------ MODULE MCDurable ------------------------------
(***************************************************************************)
(* Small instances of DurableSupervisor: an edit, a failing validation and *)
(* a stop of one agent, so that the verdict on the stop tells which of the *)
(* other two events its history held.                                      *)
(***************************************************************************)
EXTENDS DurableSupervisor, TLC

CONSTANTS p1, p2

MCProcs == {p1, p2}
Symmetry == Permutations(MCProcs)

NoCall == [tool |-> None, command |-> None, paths |-> {}, description |-> None, secret |-> FALSE]
Body(type, call, outcome) ==
  call @@ [type |-> type, actor |-> "main", outcome |-> outcome, claim |-> TRUE]

Edit == Body("tool.before", [NoCall EXCEPT !.tool = "file.edit", !.secret = TRUE], None)
Validate(outcome) ==
  Body("tool.after", [NoCall EXCEPT !.tool = "shell", !.command = "test"], outcome)
Stop == Body("agent.stop", NoCall, None)

\* Redaction masks the secret an event carries, once.
MCRedact(body) == [body EXCEPT !.secret = FALSE]

Req(id, session, body, sequence) ==
  [id |-> id, session |-> session, body |-> body, sequence |-> sequence]

MCSessions == {"s1"}
MCValidationCommands == {"test"}

\* Every id has one content and the store numbers the events.
MCRequests ==
  {Req("e1", "s1", Edit, None), Req("e2", "s1", Validate("failure"), None),
   Req("e3", "s1", Stop, None)}

\* A second session, whose stop must not see the first one's edit.
MCTwoSessions == {"s1", "s2"}
MCTwoSessionRequests ==
  MCRequests \cup {Req("e4", "s2", Stop, None), Req("e5", "s1", Validate("success"), None)}

\* Two sequences of the caller's own that arrive in any order and never collide:
\* the verdict on the stop depends on whether the edit before it has arrived.
MCLateRequests ==
  {Req("e1", "s1", Stop, 3), Req("e2", "s1", Edit, 1),
   Req("e3", "s1", Body("prompt.submit", NoCall, None), None)}

MCNoPolicies == {}
Keep(age, count) == [max_age |-> age, max_events |-> count]
MCDefaultPolicy == Keep(1, 2)
\* store-prune by count, and by age.
MCManualPolicies == {Keep(None, 1), Keep(0, None)}
=============================================================================
