---------------------------- MODULE MCSupervisor ----------------------------
(***************************************************************************)
(* Two actors share one session.  Thresholds and the window are small so   *)
(* that streaks, oscillations and truncation all happen within MaxEvents.  *)
(***************************************************************************)
EXTENDS Supervisor, TLC

NoCall == [tool |-> None, command |-> None, paths |-> {}, description |-> None]

Body(type, actor, call, outcome, claim) ==
  call @@ [type |-> type, actor |-> actor, outcome |-> outcome, claim |-> claim]

Edit == [NoCall EXCEPT !.tool = "file.edit", !.paths = {"in"}]
EditOutside == [NoCall EXCEPT !.tool = "file.edit", !.paths = {"in", "out"}]
Test(note) == [NoCall EXCEPT !.tool = "shell", !.command = "test", !.description = note]
Remove == [NoCall EXCEPT !.tool = "shell", !.command = "remove"]

MCBodies ==
  {Body("tool.before", "main", Edit, None, FALSE),
   Body("tool.before", "main", Remove, None, FALSE),
   Body("tool.before", "main", EditOutside, None, FALSE),
   Body("tool.after", "main", Test("first"), "failure", FALSE),
   Body("tool.error", "main", Test("again"), "failure", FALSE),
   Body("tool.after", "main", Test("first"), "success", FALSE),
   Body("tool.after", "sub", Test("first"), "success", FALSE),
   Body("agent.stop", "main", NoCall, None, TRUE)}

MCSessions == {"s1"}
MCExplicitSequences == {1}
MCForbiddenCommands == {"remove"}
MCAllowedPaths == {"in"}
MCValidationCommands == {"test"}
=============================================================================
