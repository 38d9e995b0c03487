------------------------------ MODULE MCSession ------------------------------
(***************************************************************************)
(* Small instances of AgentSession.  Sessions are unbounded: only the      *)
(* window of stored events is remembered, as in the code.                  *)
(***************************************************************************)
EXTENDS AgentSession, TLC

CONSTANTS a, b

MCSlots == {a, b}
Symmetry == Permutations(MCSlots)

NoCall == [tool |-> None, command |-> None, paths |-> {}]
Edit == [NoCall EXCEPT !.tool = "file.edit", !.paths = {"in"}]
Validate == [NoCall EXCEPT !.tool = "shell", !.command = "test"]
Remove == [NoCall EXCEPT !.tool = "shell", !.command = "remove"]

MCCalls == {Edit, Validate, Remove}
MCWorkCalls == {Edit, Validate}

MCForbiddenCommands == {"remove"}
MCAllowedPaths == {"in"}
MCValidationCommands == {"test"}
=============================================================================
