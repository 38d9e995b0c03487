------------------------------ MODULE MCProgress ------------------------------
(***************************************************************************)
(* A small instance of AgentProgress: one edit, the validation, and two    *)
(* calls that only look at something.                                      *)
(***************************************************************************)
EXTENDS AgentProgress

NoCall == [tool |-> None, command |-> None, paths |-> {}]
Edit == [NoCall EXCEPT !.tool = "file.edit", !.paths = {"in"}]
Validate == [NoCall EXCEPT !.tool = "shell", !.command = "test"]
Look(what) == [NoCall EXCEPT !.tool = "shell", !.command = what]

MCCalls == {Edit, Validate, Look("status"), Look("diff")}
MCValidationCommands == {"test"}
=============================================================================
