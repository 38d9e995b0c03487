----------------------------- MODULE MCPipeline -----------------------------
(***************************************************************************)
(* The scripts: every short shell command that mentions the tests between  *)
(* an edit and a stop, every shape of result, every field of every hook    *)
(* missing or of another type, nested arguments with credentials, and many *)
(* spellings of a path.                                                    *)
(***************************************************************************)
EXTENDS Redaction

CONSTANT CommandLength   \* bound: tokens of a shell command

T(word) == Text(<<word>>)
Args(fields) == Object(fields)

Base(hook) ==
  [hook_event_name |-> T(hook), session_id |-> T("s1"), cwd |-> T("cwd"), turn_id |-> T("t1"),
   agent_id |-> Null, model |-> T("model")]

ToolHook(hook, tool, arguments) ==
  Base(hook) @@ [tool_name |-> T(tool), tool_input |-> arguments, tool_use_id |-> T("call")]

PathOf(path) == Args([file_path |-> Text(path)])
Edit(path) == ToolHook("PreToolUse", "Edit", PathOf(path))
Ran(command, result) ==
  ToolHook("PostToolUse", "Bash", Args([command |-> Text(command)])) @@ [tool_response |-> result]
Failed(command) ==
  ToolHook("PostToolUseFailure", "Bash", Args([command |-> Text(command)])) @@ [error |-> T("boom")]
Stop == Base("Stop") @@ [stop_hook_active |-> Bool(FALSE), last_assistant_message |-> T("done")]

In == <<"src", "/", "a">>
Good == Args([exit_code |-> Number(0)])
Bad == Args([exit_code |-> Number(1)])
Test == <<"test", " ", "word">>

-----------------------------------------------------------------------------
(* Commands *)

Tokens == {"test", "word", ";", "&", "|", "'", "\"", "\\", "#", " ", "\n"}
Longer == {<<"word", " ", "'", "\\", "'", ";", "test">>, <<"word", " ", "\"", "\\", "\"", ";", "test">>,
           <<"word", " ", "'", "#", "'", ";", "test">>, <<"word", " ", "#", ";", "\n", ";", "test">>,
           <<"word", "&", "&", " ", "test", " ", "'", ";", "'">>, <<"test", " ", "word", " ", "&">>}
Operators == {<<"&", "&">>, <<"|", "|">>, <<"|">>, <<"&">>, <<";">>, <<"\n">>}
Lists ==
  {<<a, " ">> \o o \o <<" ", b, " ">> \o p \o <<" ", c>> :
     a, b, c \in {"test", "word"}, o, p \in Operators}
MCCommands ==
  {c \in BoundedSeq(Tokens, CommandLength) \cup Lists : "test" \in ToSet(c)}
    \cup Longer \cup {Test, <<"remove", " ", "word">>}
MCValidationCommands == [validation : {TRUE}, forbidden : BOOLEAN]
MCForbiddenCommands == [validation : BOOLEAN, forbidden : {TRUE}]

CommandScripts == {<<Edit(In), Ran(c, Good), Stop>> : c \in MCCommands}

-----------------------------------------------------------------------------
(* Results *)

Outputs == {<<>>, <<"OK">>, <<"OK", "\n", " ">>, <<"FAILED", "\n">>, <<"OK", "\n", "word">>,
            <<"word", "OK">>, <<"word", "\n", "OK">>}
Optional(key, values) == {<<>>} \cup {key :> v : v \in values}

Structured ==
  {Args(s @@ c @@ d @@ e) : s \in Optional("success", {Bool(TRUE), Bool(FALSE), T("true")}),
     c \in Optional("exit_code", {Number(0), Number(1)}), d \in Optional("exitCode", {Number(0), Number(1)}),
     e \in Optional("is_error", {Bool(TRUE), Bool(FALSE)})}
Streams ==
  {Args(o @@ e @@ c) : o \in Optional("stdout", {Text(t) : t \in Outputs}),
     e \in Optional("stderr", {Text(t) : t \in Outputs}), c \in Optional("status_code", {Number(0), Number(1)})}
Results == Structured \cup Streams \cup {Text(t) : t \in Outputs} \cup {Null, Bool(TRUE), Array(<<T("OK")>>)}

ResultScripts ==
  UNION {{<<Edit(In), Ran(Test, r), Stop>>, <<Edit(In), Ran(Test, Good), Ran(Test, r), Stop>>,
          <<Edit(In), Ran(Test, r), Edit(In), Stop>>} : r \in Results}
    \cup {<<Edit(In), Ran(Test, Good), Failed(Test), Stop>>, <<Stop>>, <<Ran(Test, Bad), Stop>>}

-----------------------------------------------------------------------------
(* Fields *)

Hooks ==
  {Stop, Edit(In), Ran(Test, Good) @@ [duration_ms |-> Number(3)], Failed(Test),
   ToolHook("PermissionRequest", "apply_patch",
            Args([command |-> Text(<<"*** File: ", "out", "\n", "word", "\n", "*** File: ", "src", "/", "a">>)])),
   ToolHook("PermissionRequest", "Bash", Args([command |-> Text(<<"remove", " ", "word">>)])),
   Base("SessionStart") @@ [source |-> T("startup")], Base("SessionEnd") @@ [reason |-> T("exit")],
   Base("UserPromptSubmit") @@ [prompt |-> T("please")], Base("PreCompact") @@ [trigger |-> T("auto")],
   Base("PostCompact") @@ [trigger |-> T("auto"), compact_summary |-> T("summary")],
   Base("SubagentStart") @@ [agent_type |-> T("worker")],
   Base("SubagentStop") @@ [agent_type |-> T("worker"), stop_hook_active |-> Bool(TRUE)],
   Base("TaskCompleted") @@ [task_id |-> T("1"), task_subject |-> T("it")],
   Base("StopFailure") @@ [error |-> T("boom")]}

Without(raw, key) == [k \in DOMAIN raw \ {key} |-> raw[k]]
Damaged(raw) ==
  UNION {{Without(raw, key)} \cup
         {[raw EXCEPT ![key] = v] : v \in {Null, Number(0 - 1), Bool(TRUE), Text(<<>>), T("other")}} :
           key \in DOMAIN raw}
Prompted(raw) == [raw EXCEPT !.turn_id = Null] @@ [prompt_id |-> Number(1)]

FieldScripts == {<<raw>> : raw \in Hooks \cup UNION {Damaged(h) : h \in Hooks} \cup {Prompted(Stop), None}}
EvidenceScripts == {<<[h EXCEPT !.session_id = T("s2")]>> : h \in Hooks}

-----------------------------------------------------------------------------
(* Credentials *)

MCKeyTokens == [access_token |-> <<"access", "token">>, token_count |-> <<"token", "count">>,
                api_key_id |-> <<"api", "key", "id">>, my_api_key |-> <<"my", "api", "key">>,
                file_path |-> <<"file", "path">>, tool_name |-> <<"tool", "name">>]
MCSensitiveKeys == {<<"token">>, <<"api", "key">>, <<"password">>}
MCSecretNames == {"access_token", "token_count", "my_api_key", "password"}
MCSecrets == {"secret"}

Plain == {T("word"), Text(<<"curl", " ", "secret", " ", "secret">>), Number(7)}
Nested == Plain \cup {Array(<<a, b>>) : a \in Plain, b \in Plain}
            \cup {Object(k :> v) : k \in {"password", "api_key_id", "word"}, v \in Plain}
Trees == Nested \cup {Object(k :> v) : k \in {"access_token", "token_count", "my_api_key", "body"}, v \in Nested}
SecretScripts ==
  {<<ToolHook("PreToolUse", "Edit", Args([file_path |-> Text(p), body |-> t]))>> :
     p \in {In, <<"src", "/", "secret">>, <<"out">>}, t \in Trees}
  \cup {<<ToolHook("PreToolUse", "Bash", Args([command |-> Text(c)])) @@ [headers |-> t]>> :
          c \in {Test, <<"secret">>, <<"remove", " ", "word">>}, t \in Trees}
  \cup {<<[Stop EXCEPT ![key] = Text(<<"secret">>)]>> : key \in {"cwd", "turn_id", "last_assistant_message"}}

-----------------------------------------------------------------------------
(* Paths *)

MCRepoRoot == <<"/", "repo", "/">>
MCAllowedPatterns == {<<"src", "/", "*", "*">>, <<".", "/", "lib", "\\", "a">>}
MCScopeRoots == {<<<<"src">>>>, <<<<"lib">>, <<"a">>>>}
MCPaths ==
  {prefix \o rest : prefix \in {<<>>, <<".", "/">>, <<"/", "repo", "/">>, <<"\\", "repo", "\\">>, <<"/">>},
     rest \in BoundedSeq({"/", "\\", ".", "src", "lib", "a", "repo"}, 3)}
    \cup {In, <<"src", "/", "secret">>, <<"out">>, <<>>, <<"C", ":", "/", "src">>}
PathScripts == {<<Edit(p)>> : p \in MCPaths}

MCFamilies ==
  {CommandScripts, ResultScripts, FieldScripts, EvidenceScripts, SecretScripts, PathScripts}
=============================================================================
