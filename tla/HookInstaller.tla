---------------------------- MODULE HookInstaller ----------------------------
(***************************************************************************)
(* install-hooks, uninstall-hooks and hook-status on one project.  Each    *)
(* command reads everything it needs, plans, and then writes file by file; *)
(* it may be killed between two writes, and the user may edit the same     *)
(* files.  The two platforms share .agent-drift/, the anchors and          *)
(* .gitignore, and have a configuration and a runner each.                 *)
(*                                                                         *)
(* A configuration is None (no file) or [guard, user]: guard says for each *)
(* hook event which of our handlers it has, "none", "good", "wrong" or     *)
(* "double"; user is the set of events with a handler of the user's own.   *)
(* A runner is None or [mode, current]; current when its command is the    *)
(* one this installation would write.                                      *)
(***************************************************************************)
EXTENDS Integers

CONSTANTS
  None,
  Platforms,        \* the platforms whose hooks are installed
  Events,           \* _EVENTS: the hook events a handler is wanted for
  OtherEvents,      \* hook events _EVENTS does not list
  Damages,          \* what the user may do: "config", "runner", "modes", "other_events"
  MaxCommands,      \* bound: commands in a behaviour
  MaxEdits,         \* bound: edits by the user
  MaxCrashes        \* bound: commands killed

AllEvents == Events \cup OtherEvents
HookModes == {"observe", "enforce"}

Config == [guard : [AllEvents -> {"none", "good", "wrong", "double"}], user : SUBSET Events]
Runner == [mode : HookModes \cup {"legacy", "unknown"}, current : BOOLEAN]
Anchors == {"custom", "default", "old_default", "broken"}
IgnoreEntries == {"data", "settings"}

\* What a command has decided to write.
Plan == [config : Config, mode : HookModes \cup {"legacy", None},
         anchors : Anchors \cup {None}, entries : SUBSET IgnoreEntries]

ASSUME InstallerAssumption ==
  /\ Events \cap OtherEvents = {} /\ Events # {}
  /\ None \notin Platforms \cup HookModes \cup {"legacy", "unknown"} \cup Anchors
  /\ None \notin Config /\ None \notin Runner /\ None \notin Plan
  /\ MaxCommands \in Nat /\ MaxEdits \in Nat /\ MaxCrashes \in Nat

VARIABLES
  config,      \* platform -> its configuration file
  backups,     \* platform -> the configurations backed up
  runner,      \* platform -> its runner
  runnerBits,  \* platform -> file mode of the runner
  anchors,     \* the anchors file, None when there is none
  ignored,     \* entries of .gitignore that matter
  dataRoot,    \* does .agent-drift/ exist
  private,     \* what is known to be private: "data", all of .agent-drift/ but the
               \* runners, and the platforms whose configuration file is
  plan,        \* platform -> the command under way, or None
  todo,        \* platform -> the steps it has left, taken in a fixed order
  asked,       \* history variable: platform -> modes ever asked for or found
  commands, edits, crashes

files == <<config, backups, runner, runnerBits, anchors, ignored, dataRoot, private>>
bounds == <<commands, edits, crashes>>
vars == <<files, plan, todo, asked, bounds>>

NoGuard == [e \in AllEvents |-> "none"]
Good == [e \in AllEvents |-> IF e \in Events THEN "good" ELSE "none"]

\* A project with settings of the user's own, or with hooks an old version
\* installed, whose runner had no --mode and whose anchors were the old default.
Init ==
  /\ \/ /\ config = [p \in Platforms |-> [guard |-> NoGuard, user |-> Events]]
        /\ runner = [p \in Platforms |-> None]
        /\ anchors = None /\ dataRoot = FALSE
     \/ /\ config = [p \in Platforms |-> [guard |-> Good, user |-> {}]]
        /\ runner = [p \in Platforms |-> [mode |-> "legacy", current |-> TRUE]]
        /\ anchors = "old_default" /\ dataRoot = TRUE
     \/ /\ config = [p \in Platforms |-> None]
        /\ runner = [p \in Platforms |-> None]
        /\ anchors = None /\ dataRoot = FALSE
  /\ runnerBits = [p \in Platforms |-> "0700"]
  /\ backups = [p \in Platforms |-> {}]
  /\ ignored = {} /\ private \in {{}, {"data"} \cup Platforms}
  /\ plan = [p \in Platforms |-> None]
  /\ todo = [p \in Platforms |-> {}]
  /\ asked = [p \in Platforms |-> {"observe"} \cup IF runner[p] = None THEN {} ELSE {"legacy"}]
  /\ commands = 0 /\ edits = 0 /\ crashes = 0

-----------------------------------------------------------------------------
(* Reading *)

ReadConfig(p) == IF config[p] = None THEN [guard |-> NoGuard, user |-> {}] ELSE config[p]

\* Our handlers of the listed events are replaced, everything else is kept.
MergedConfig_Mutant(p, install) ==
  [ReadConfig(p) EXCEPT !.guard = [e \in Events |-> IF install THEN "good" ELSE "none"]]

MergedConfig(p, install) ==
  [ReadConfig(p) EXCEPT !.guard =
     [e \in AllEvents |-> CASE e \in Events /\ install -> "good"
                            [] e \in Events /\ ~install -> "none"
                            [] OTHER -> @[e]]]

HasHandlers(p) == \E e \in AllEvents : ReadConfig(p).guard[e] # "none"
RunnerMode(p) == IF runner[p] = None THEN None ELSE runner[p].mode
RunnerChanged(p, mode) == runner[p] # [mode |-> mode, current |-> TRUE]

Required(p) == {"data"} \cup IF p = "claude-code" THEN {"settings"} ELSE {}
MissingEntries(p) == Required(p) \ ignored

\* None when no anchors can be had without an explicit file.
LoadAnchors(source) ==
  CASE source # None -> source
    [] source = None /\ anchors \in {None, "old_default"} -> "default"
    [] source = None /\ anchors = "broken" -> None
    [] OTHER -> anchors

LayoutNeedsUpdate(p) ==
  \/ ~dataRoot \/ "data" \notin private \/ (config[p] # None /\ p \notin private)
  \/ \E q \in Platforms :
       runner[q] # None /\ runnerBits[q] # (IF q = p THEN "0700" ELSE "0600")

\* The modes --mode, or its absence, may end in; none when that is an error.
EffectiveModes_Mutant(p, mode) ==
  IF mode # None THEN {mode}
  ELSE {IF RunnerMode(p) \in HookModes THEN RunnerMode(p) ELSE "enforce"}

EffectiveModes(p, mode) ==
  CASE mode # None -> {mode}
    [] mode = None /\ RunnerMode(p) \in HookModes \cup {"legacy"} -> {RunnerMode(p)}
    [] mode = None /\ RunnerMode(p) = None /\ ~HasHandlers(p) -> {"observe"}
    [] OTHER -> {}

-----------------------------------------------------------------------------
(* Planning a command *)

Order_ConfigFirst ==
  [secure |-> 1, backup |-> 2, config |-> 3, read_ignore |-> 4, write_ignore |-> 5,
   truncate_anchors |-> 6, write_anchors |-> 7, runner |-> 8, finish |-> 9]

\* The runner is in place before the configuration names it.
Order ==
  [secure |-> 1, backup |-> 2, read_ignore |-> 3, write_ignore |-> 4,
   truncate_anchors |-> 5, write_anchors |-> 6, runner |-> 7, config |-> 8, finish |-> 9]

InstallSteps(p, mode, document) ==
  {"secure", "read_ignore", "write_ignore", "finish"}
    \cup (IF MergedConfig(p, TRUE) # config[p] THEN {"backup", "config"} ELSE {})
    \cup (IF document # anchors THEN {"truncate_anchors", "write_anchors"} ELSE {})
    \cup (IF RunnerChanged(p, mode) THEN {"runner"} ELSE {})

Idle(p) == todo[p] = {}

Install(p, mode, source) ==
  /\ Idle(p) /\ commands < MaxCommands
  /\ commands' = commands + 1
  /\ LoadAnchors(source) # None
  /\ \E effective \in EffectiveModes(p, mode) :
       /\ plan' = [plan EXCEPT ![p] =
            [config |-> MergedConfig(p, TRUE), mode |-> effective,
             anchors |-> LoadAnchors(source), entries |-> {}]]
       /\ todo' = [todo EXCEPT ![p] = InstallSteps(p, effective, LoadAnchors(source))]
  /\ asked' = [asked EXCEPT ![p] = IF mode = None THEN @ ELSE @ \cup {mode}]
  /\ UNCHANGED <<files, edits, crashes>>

Uninstall(p) ==
  /\ Idle(p) /\ commands < MaxCommands
  /\ commands' = commands + 1
  /\ MergedConfig(p, FALSE) # ReadConfig(p)
  /\ plan' = [plan EXCEPT ![p] =
       [config |-> MergedConfig(p, FALSE), mode |-> None, anchors |-> None, entries |-> {}]]
  /\ todo' = [todo EXCEPT ![p] = {"backup", "config"}]
  /\ UNCHANGED <<files, asked, edits, crashes>>

-----------------------------------------------------------------------------
(* Carrying it out, one file at a time *)

Doing(p, step) == step \in todo[p] /\ \A other \in todo[p] : Order[step] <= Order[other]

Advance(p, done) ==
  /\ todo' = [todo EXCEPT ![p] = @ \ done]
  /\ plan' = [plan EXCEPT ![p] = IF todo[p] \subseteq done THEN None ELSE @]

SecureLayout_Mutant(p) ==
  /\ dataRoot' = TRUE /\ private' = private \cup {"data", p}
  /\ UNCHANGED runnerBits

\* Only the runner of the platform at hand stays executable.
SecureLayout(p) ==
  /\ dataRoot' = TRUE /\ private' = private \cup {"data", p}
  /\ runnerBits' = [q \in Platforms |-> IF q = p THEN "0700" ELSE "0600"]

Secure(p) ==
  /\ \E step \in {"secure", "finish"} : Doing(p, step) /\ Advance(p, {step})
  /\ SecureLayout(p)
  /\ UNCHANGED <<config, backups, runner, anchors, ignored>>

Backup_Mutant(p) ==
  /\ Doing(p, "backup")
  /\ backups' = [backups EXCEPT ![p] = @ \cup {plan[p].config}]
  /\ dataRoot' = TRUE
  /\ Advance(p, {"backup"})
  /\ UNCHANGED <<config, runner, runnerBits, anchors, ignored, private>>

\* The configuration file as it is now, when there is one.
Backup(p) ==
  /\ Doing(p, "backup")
  /\ backups' = [backups EXCEPT ![p] = @ \cup ({config[p]} \ {None})]
  /\ dataRoot' = (dataRoot \/ config[p] # None)
  /\ Advance(p, {"backup"})
  /\ UNCHANGED <<config, runner, runnerBits, anchors, ignored, private>>

ReadIgnore(p) ==
  /\ Doing(p, "read_ignore")
  /\ todo' = [todo EXCEPT ![p] =
       @ \ ({"read_ignore"} \cup IF MissingEntries(p) = {} THEN {"write_ignore"} ELSE {})]
  /\ plan' = [plan EXCEPT ![p].entries = ignored \cup MissingEntries(p)]
  /\ UNCHANGED files

WriteIgnore(p) ==
  /\ Doing(p, "write_ignore")
  /\ ignored' = plan[p].entries
  /\ Advance(p, {"write_ignore"})
  /\ UNCHANGED <<config, backups, runner, runnerBits, anchors, dataRoot, private>>

\* write_text creates or truncates the anchors before it writes them, and the
\* file mode comes last.
WriteAnchors(p) ==
  /\ \/ /\ Doing(p, "truncate_anchors") /\ Advance(p, {"truncate_anchors"})
        /\ anchors' = "broken"
        /\ private' = IF anchors = None THEN private \ {"data"} ELSE private
     \/ /\ Doing(p, "write_anchors") /\ Advance(p, {"write_anchors"})
        /\ anchors' = plan[p].anchors
        /\ private' = private \cup {"data"}
  /\ dataRoot' = TRUE
  /\ UNCHANGED <<config, backups, runner, runnerBits, ignored>>

WriteRunner(p) ==
  /\ Doing(p, "runner")
  /\ runner' = [runner EXCEPT ![p] = [mode |-> plan[p].mode, current |-> TRUE]]
  /\ runnerBits' = [runnerBits EXCEPT ![p] = "0700"]
  /\ dataRoot' = TRUE
  /\ Advance(p, {"runner"})
  /\ UNCHANGED <<config, backups, anchors, ignored, private>>

WriteConfig(p) ==
  /\ Doing(p, "config")
  /\ config' = [config EXCEPT ![p] = plan[p].config]
  /\ private' = private \cup {p}
  /\ Advance(p, {"config"})
  /\ UNCHANGED <<backups, runner, runnerBits, anchors, ignored, dataRoot>>

Step(p) ==
  /\ \/ Secure(p) \/ Backup(p) \/ ReadIgnore(p) \/ WriteIgnore(p)
     \/ WriteAnchors(p) \/ WriteRunner(p) \/ WriteConfig(p)
  /\ UNCHANGED <<asked, bounds>>

-----------------------------------------------------------------------------
(* The environment *)

Crash(p) ==
  /\ ~Idle(p) /\ crashes < MaxCrashes
  /\ crashes' = crashes + 1
  /\ plan' = [plan EXCEPT ![p] = None]
  /\ todo' = [todo EXCEPT ![p] = {}]
  /\ UNCHANGED <<files, asked, commands, edits>>

\* The user edits while no command runs.
UserEdit(p) ==
  /\ \A q \in Platforms : Idle(q)
  /\ edits < MaxEdits /\ edits' = edits + 1
  /\ \/ /\ "config" \in Damages
        /\ \E e \in Events, guard \in {"none", "wrong", "double"}, user \in {{}, Events} :
             config' = [config EXCEPT ![p] =
               [guard |-> [ReadConfig(p).guard EXCEPT ![e] = guard], user |-> user]]
        /\ UNCHANGED <<backups, runner, runnerBits, anchors, ignored, dataRoot, private>>
     \/ /\ "other_events" \in Damages
        /\ \E e \in OtherEvents :
             config' = [config EXCEPT ![p] =
               [guard |-> [ReadConfig(p).guard EXCEPT ![e] = "good"], user |-> ReadConfig(p).user]]
        /\ UNCHANGED <<backups, runner, runnerBits, anchors, ignored, dataRoot, private>>
     \/ /\ "runner" \in Damages
        /\ \E damaged \in {None, [mode |-> "unknown", current |-> FALSE]} :
             runner' = [runner EXCEPT ![p] = damaged]
        /\ UNCHANGED <<config, backups, runnerBits, anchors, ignored, dataRoot, private>>
     \/ /\ "modes" \in Damages
        /\ \/ private' = {} /\ UNCHANGED <<runnerBits, ignored>>
           \/ runnerBits' = [runnerBits EXCEPT ![p] = "0600"] /\ UNCHANGED <<private, ignored>>
           \/ ignored' = {} /\ UNCHANGED <<private, runnerBits>>
        /\ UNCHANGED <<config, backups, runner, anchors, dataRoot>>
  /\ UNCHANGED <<plan, todo, asked, commands, crashes>>

Next ==
  \E p \in Platforms :
    \/ \E mode \in HookModes \cup {None}, source \in {None, "custom"} : Install(p, mode, source)
    \/ Uninstall(p)
    \/ Step(p)
    \/ Crash(p)
    \/ UserEdit(p)

Spec == Init /\ [][Next]_vars

-----------------------------------------------------------------------------
\* hook-status without an issue.
Healthy(p) ==
  /\ ReadConfig(p).guard = Good
  /\ runner[p] # None /\ runnerBits[p] = "0700"
  /\ RunnerMode(p) # "unknown" /\ ~RunnerChanged(p, RunnerMode(p))
  /\ anchors \notin {None, "broken"}
  /\ ~LayoutNeedsUpdate(p)
  /\ MissingEntries(p) = {}

TypeOK ==
  /\ config \in [Platforms -> Config \cup {None}]
  /\ backups \in [Platforms -> SUBSET Config]
  /\ runner \in [Platforms -> Runner \cup {None}]
  /\ runnerBits \in [Platforms -> {"0700", "0600"}]
  /\ anchors \in Anchors \cup {None}
  /\ ignored \subseteq IgnoreEntries
  /\ dataRoot \in BOOLEAN
  /\ private \subseteq {"data"} \cup Platforms
  /\ plan \in [Platforms -> Plan \cup {None}]
  /\ todo \in [Platforms -> SUBSET DOMAIN Order]
  /\ \A p \in Platforms : Idle(p) <=> plan[p] = None

(* When install-hooks ends, hook-status finds nothing to complain about,    *)
(* whatever an interrupted command or the user left behind, but for         *)
(* handlers of the guard under events that are not its own, which the       *)
(* damages of the instances leave out (installer.py:490-551, 573-644;       *)
(* docs/hook-installation.md:41-42).                                        *)
InstallRepairs ==
  [][\A p \in Platforms : Doing(p, "finish") /\ "finish" \notin todo'[p]
       /\ crashes' = crashes => Healthy(p)']_vars

CanRun(p) ==
  (\E e \in Events : ReadConfig(p).guard[e] = "good")
    => runner[p] # None /\ runnerBits[p] = "0700"

(* No command, complete or killed, configures a handler before its runner   *)
(* is there or takes the runner's permission away: only the user can break  *)
(* a hook that can run (installer.py:530-541; docs/hook-installation.md:18).*)
ConfiguredHookCanRun ==
  [][edits' = edits => \A p \in Platforms : CanRun(p) => CanRun(p)']_vars

(* A runner enforces only if somebody asked for it or an old installation   *)
(* did before: no sequence of damage, crashes, removal and reinstallation   *)
(* ends in a mode nobody chose (installer.py:499-512).                      *)
ModeWasAskedFor ==
  \A p \in Platforms : RunnerMode(p) \in asked[p] \cup {None, "unknown"}

(* Installing and uninstalling never lose a handler of the user's, and      *)
(* what a command replaces is in a backup (installer.py:342-359, 377-411).  *)
NothingOfTheUserIsLost ==
  [][\A p \in Platforms : config'[p] # config[p] /\ ~Idle(p) /\ config[p] # None =>
       config'[p].user = config[p].user /\ config[p] \in backups[p]]_vars
=============================================================================
