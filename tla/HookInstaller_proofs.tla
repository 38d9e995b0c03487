------------------------- MODULE HookInstaller_proofs -------------------------
(***************************************************************************)
(* Installing, removing and repairing hooks, killed at any write and       *)
(* damaged in between: no mode nobody chose, nothing of the user's lost,   *)
(* and on one platform no handler without its runner and no installation   *)
(* that leaves hook-status something to complain about.                    *)
(***************************************************************************)
EXTENDS HookInstaller, TLAPS

Installing(p) == "finish" \in todo[p]

\* What a command under way keeps true of the files and of its plan.
Kept(p) ==
  /\ "config" \in todo[p] =>
       /\ plan[p].config.user = ReadConfig(p).user
       /\ "backup" \in todo[p] \/ config[p] \in backups[p] \cup {None}
  /\ ~Installing(p) => todo[p] \subseteq {"backup", "config"}
  /\ Installing(p) => plan[p].mode \in asked[p]

Asked == [Platforms -> SUBSET (HookModes \cup {"legacy"})]

InstallerInv ==
  /\ TypeOK
  /\ asked \in Asked
  /\ ModeWasAskedFor
  /\ \A p \in Platforms : "observe" \in asked[p] /\ Kept(p)

-----------------------------------------------------------------------------
(* Configurations                                                           *)

\* The configurations without the guard, and with it.
LEMMA Configurations ==
  /\ NoGuard \in [AllEvents -> {"none", "good", "wrong", "double"}]
  /\ Good \in [AllEvents -> {"none", "good", "wrong", "double"}]
  /\ \A e \in AllEvents : NoGuard[e] = "none"
  /\ \A e \in AllEvents : Good[e] = IF e \in Events THEN "good" ELSE "none"
BY DEF NoGuard, Good

(* Merging replaces the handlers of the listed events and nothing else.     *)
LEMMA Merged ==
  ASSUME TypeOK, NEW p \in Platforms, NEW install \in BOOLEAN
  PROVE  /\ ReadConfig(p) \in Config /\ MergedConfig(p, install) \in Config
         /\ config[p] # None => ReadConfig(p) = config[p]
         /\ MergedConfig(p, install).user = ReadConfig(p).user
<1>1. ReadConfig(p) \in Config /\ (config[p] # None => ReadConfig(p) = config[p])
  BY Configurations DEF ReadConfig, Config, TypeOK
<1>2. PICK c \in Config : c = ReadConfig(p)
  BY <1>1
<1> DEFINE guard == [e \in AllEvents |-> CASE e \in Events /\ install -> "good"
                                           [] e \in Events /\ ~install -> "none"
                                           [] OTHER -> c.guard[e]]
<1>3. MergedConfig(p, install) = [c EXCEPT !.guard = guard]
  BY <1>2 DEF MergedConfig
<1>4. \A e \in AllEvents : guard[e] \in {"none", "good", "wrong", "double"}
  BY <1>2 DEF Config
<1>5. guard \in [AllEvents -> {"none", "good", "wrong", "double"}]
  BY <1>4
<1> HIDE DEF guard
<1>6. /\ MergedConfig(p, install) \in Config
      /\ MergedConfig(p, install).user = c.user
  BY <1>3, <1>5 DEF Config
<1> QED BY <1>1, <1>2, <1>6

\* Merging sets the guard's own events and leaves the others.
LEMMA MergedGuards ==
  ASSUME TypeOK, NEW p \in Platforms, NEW c, NEW install \in BOOLEAN, c = MergedConfig(p, install)
  PROVE  /\ install = TRUE => \A e \in Events : c.guard[e] = "good"
         /\ install = FALSE => \A e \in Events : c.guard[e] = "none"
         /\ \A e \in OtherEvents : c.guard[e] = ReadConfig(p).guard[e]
<1>1. PICK old \in Config : old = ReadConfig(p)
  BY Merged
<1> DEFINE guard == [e \in AllEvents |-> CASE e \in Events /\ install -> "good"
                                           [] e \in Events /\ ~install -> "none"
                                           [] OTHER -> old.guard[e]]
<1>2. c = [old EXCEPT !.guard = guard]
  BY <1>1 DEF MergedConfig
<1>3. c.guard = guard
  <2> HIDE DEF guard
  <2> QED BY <1>2 DEF Config
<1>4. /\ install = TRUE => \A e \in Events : guard[e] = "good"
      /\ install = FALSE => \A e \in Events : guard[e] = "none"
      /\ \A e \in OtherEvents : guard[e] = old.guard[e]
  BY InstallerAssumption DEF AllEvents
<1> QED BY <1>1, <1>3, <1>4

-----------------------------------------------------------------------------
(* Steps                                                                    *)

\* The invariant holds at first.
LEMMA InitInstaller == Init => InstallerInv
<1> SUFFICES ASSUME Init PROVE InstallerInv
  OBVIOUS
<1>1. /\ [guard |-> NoGuard, user |-> Events] \in Config
      /\ [guard |-> Good, user |-> {}] \in Config
      /\ [mode |-> "legacy", current |-> TRUE] \in Runner
  BY Configurations DEF Config, Runner
<1>2. TypeOK
  BY <1>1, InstallerAssumption DEF Init, TypeOK, Anchors, Idle
<1>3. asked \in Asked /\ \A p \in Platforms : "observe" \in asked[p]
  BY DEF Init, Asked, HookModes
<1>4. ModeWasAskedFor
  BY DEF Init, ModeWasAskedFor, RunnerMode
<1>5. \A p \in Platforms : Kept(p)
  BY DEF Init, Kept, Installing
<1> QED BY <1>2, <1>3, <1>4, <1>5 DEF InstallerInv

(* Taking a step off the list.                                              *)
LEMMA Advanced ==
  ASSUME TypeOK, NEW p \in Platforms, NEW done, todo[p] \cap done # {}, Advance(p, done)
  PROVE  /\ plan' \in [Platforms -> Plan \cup {None}]
         /\ todo' \in [Platforms -> SUBSET DOMAIN Order]
         /\ \A q \in Platforms : Idle(q)' <=> plan'[q] = None
         /\ todo'[p] = todo[p] \ done
         /\ todo'[p] # {} => plan'[p] = plan[p]
         /\ \A q \in Platforms : q # p => todo'[q] = todo[q] /\ plan'[q] = plan[q]
BY DEF Advance, TypeOK, Idle

(* What platform q keeps when only other platforms' files change.           *)
LEMMA OthersKeep ==
  ASSUME InstallerInv, NEW q \in Platforms, config'[q] = config[q], backups'[q] = backups[q],
         todo'[q] = todo[q], plan'[q] = plan[q], asked[q] \subseteq asked'[q]
  PROVE  Kept(q)'
BY DEF InstallerInv, Kept, ReadConfig, Installing

\* Planning an installation keeps it.
LEMMA InstallKeeps ==
  ASSUME InstallerInv, NEW p \in Platforms, NEW mode \in HookModes \cup {None},
         NEW source \in {None, "custom"}, Install(p, mode, source)
  PROVE  InstallerInv'
<1>0. UNCHANGED files
  BY DEF Install
<1>1. PICK effective \in EffectiveModes(p, mode) :
        /\ plan' = [plan EXCEPT ![p] = [config |-> MergedConfig(p, TRUE), mode |-> effective,
                                        anchors |-> LoadAnchors(source), entries |-> {}]]
        /\ todo' = [todo EXCEPT ![p] = InstallSteps(p, effective, LoadAnchors(source))]
  BY DEF Install
<1>2. /\ asked' \in Asked
      /\ \A q \in Platforms : asked[q] \subseteq asked'[q] /\ "observe" \in asked'[q]
      /\ mode # None => mode \in asked'[p]
  BY DEF Install, InstallerInv, Asked
<1>3. effective \in asked'[p]
  <2>1. CASE mode # None
    BY <1>1, <1>2, <2>1 DEF EffectiveModes
  <2>2. CASE mode = None /\ RunnerMode(p) \in HookModes \cup {"legacy"}
    <3>1. RunnerMode(p) \in asked[p]
      BY <2>2, InstallerAssumption DEF InstallerInv, ModeWasAskedFor, HookModes
    <3>2. effective = RunnerMode(p)
      BY <1>1, <2>2, InstallerAssumption DEF EffectiveModes
    <3> QED BY <1>2, <3>1, <3>2
  <2>3. CASE mode = None /\ RunnerMode(p) \notin HookModes \cup {"legacy"}
    <3>1. effective = "observe"
      BY <1>1, <2>3, InstallerAssumption DEF EffectiveModes
    <3> QED BY <1>2, <3>1
  <2> QED BY <2>1, <2>2, <2>3
<1>4. /\ effective \in HookModes \cup {"legacy"} /\ LoadAnchors(source) \in Anchors
      /\ MergedConfig(p, TRUE) \in Config /\ MergedConfig(p, TRUE).user = ReadConfig(p).user
  <2>1. LoadAnchors(source) \in Anchors
    BY InstallerAssumption DEF Install, LoadAnchors, InstallerInv, TypeOK, Anchors
  <2> QED BY <1>2, <1>3, <2>1, Merged DEF InstallerInv, Asked
<1>5. /\ plan'[p] = [config |-> MergedConfig(p, TRUE), mode |-> effective,
                     anchors |-> LoadAnchors(source), entries |-> {}]
      /\ plan'[p] \in Plan
      /\ \A q \in Platforms : q # p => plan'[q] = plan[q]
      /\ plan' \in [Platforms -> Plan \cup {None}]
  BY <1>1, <1>4 DEF InstallerInv, TypeOK, Plan
<1>6. /\ todo'[p] \subseteq DOMAIN Order /\ "finish" \in todo'[p]
      /\ "config" \in todo'[p] => "backup" \in todo'[p]
      /\ \A q \in Platforms : q # p => todo'[q] = todo[q]
      /\ todo' \in [Platforms -> SUBSET DOMAIN Order]
  BY <1>1 DEF InstallSteps, Order, InstallerInv, TypeOK
<1>7. TypeOK'
  <2>1. \A q \in Platforms : Idle(q)' <=> plan'[q] = None
    <3>1. plan'[p] # None /\ ~Idle(p)'
      BY <1>5, <1>6, InstallerAssumption DEF Idle
    <3>2. \A q \in Platforms : Idle(q) <=> plan[q] = None
      BY DEF InstallerInv, TypeOK
    <3> QED BY <1>5, <1>6, <3>1, <3>2 DEF Idle
  <2> QED BY <1>0, <1>5, <1>6, <2>1 DEF InstallerInv, TypeOK, files
<1>8. Kept(p)'
  <2>1. plan'[p].config.user = ReadConfig(p).user /\ plan'[p].mode = effective
    <3>1. plan'[p].config = MergedConfig(p, TRUE) /\ plan'[p].mode = effective
      BY <1>5
    <3> QED BY <1>4, <3>1
  <2>2. ReadConfig(p)' = ReadConfig(p)
    BY <1>0 DEF ReadConfig, files
  <2> QED BY <1>3, <1>6, <2>1, <2>2 DEF Kept, Installing
<1>9. ASSUME NEW q \in Platforms, q # p PROVE Kept(q)'
  BY <1>0, <1>2, <1>5, <1>6, <1>9, OthersKeep DEF files
<1>10. ModeWasAskedFor'
  BY <1>0, <1>2 DEF files, InstallerInv, ModeWasAskedFor, RunnerMode
<1> QED BY <1>2, <1>7, <1>8, <1>9, <1>10 DEF InstallerInv

\* Planning a removal keeps it.
LEMMA UninstallKeeps ==
  ASSUME InstallerInv, NEW p \in Platforms, Uninstall(p)
  PROVE  InstallerInv'
<1>0. UNCHANGED <<files, asked>>
  BY DEF Uninstall
<1>1. /\ MergedConfig(p, FALSE) \in Config /\ MergedConfig(p, FALSE).user = ReadConfig(p).user
  BY Merged DEF InstallerInv
<1>2. /\ plan'[p] = [config |-> MergedConfig(p, FALSE), mode |-> None, anchors |-> None,
                     entries |-> {}]
      /\ plan'[p] \in Plan /\ plan' \in [Platforms -> Plan \cup {None}]
      /\ \A q \in Platforms : q # p => plan'[q] = plan[q] /\ todo'[q] = todo[q]
      /\ todo'[p] = {"backup", "config"} /\ todo' \in [Platforms -> SUBSET DOMAIN Order]
  BY <1>1 DEF Uninstall, InstallerInv, TypeOK, Plan, Order
<1>3. TypeOK'
  <2>1. \A q \in Platforms : Idle(q)' <=> plan'[q] = None
    <3>1. plan'[p] # None /\ ~Idle(p)'
      BY <1>2, InstallerAssumption DEF Idle
    <3>2. \A q \in Platforms : Idle(q) <=> plan[q] = None
      BY DEF InstallerInv, TypeOK
    <3> QED BY <1>2, <3>1, <3>2 DEF Idle
  <2> QED BY <1>0, <1>2, <2>1 DEF InstallerInv, TypeOK, files
<1>4. Kept(p)'
  <2>1. plan'[p].config = MergedConfig(p, FALSE) /\ ReadConfig(p)' = ReadConfig(p)
    BY <1>0, <1>2 DEF ReadConfig, files
  <2>2. plan'[p].config.user = ReadConfig(p)'.user
    BY <1>1, <2>1
  <2> QED BY <1>2, <2>2 DEF Kept, Installing
<1>5. ASSUME NEW q \in Platforms, q # p PROVE Kept(q)'
  BY <1>0, <1>2, <1>5, OthersKeep DEF files
<1> QED BY <1>0, <1>3, <1>4, <1>5 DEF files, InstallerInv, ModeWasAskedFor, RunnerMode
(* The steps that leave configurations, backups and runners alone.          *)
LEMMA QuietKeeps ==
  ASSUME InstallerInv, NEW p \in Platforms, UNCHANGED asked,
         Secure(p) \/ ReadIgnore(p) \/ WriteIgnore(p) \/ WriteAnchors(p)
  PROVE  InstallerInv'
<1>1. UNCHANGED <<config, backups, runner>>
  BY DEF Secure, ReadIgnore, WriteIgnore, WriteAnchors, files
<1>2. /\ plan' \in [Platforms -> Plan \cup {None}]
      /\ todo' \in [Platforms -> SUBSET DOMAIN Order]
      /\ \A q \in Platforms : Idle(q)' <=> plan'[q] = None
      /\ todo'[p] \subseteq todo[p]
      /\ \A step \in {"backup", "runner"} : step \in todo[p] => step \in todo'[p]
      /\ Installing(p)' => /\ Installing(p)
                           /\ plan'[p].config = plan[p].config /\ plan'[p].mode = plan[p].mode
      /\ "config" \in todo'[p] => plan'[p].config = plan[p].config
      /\ ~Installing(p)' => todo'[p] \subseteq {"backup", "config"}
      /\ \A q \in Platforms : q # p => todo'[q] = todo[q] /\ plan'[q] = plan[q]
  <2>1. CASE Secure(p)
    <3>1. PICK step \in {"secure", "finish"} : Doing(p, step) /\ Advance(p, {step})
      BY <2>1 DEF Secure
    <3>2. step = "finish" => todo[p] = {"finish"}
      BY <3>1 DEF Doing, InstallerInv, TypeOK, Order
    <3> QED BY <3>1, <3>2, Advanced DEF Doing, InstallerInv, Installing, Kept
  <2>2. CASE ReadIgnore(p)
    <3> DEFINE done == {"read_ignore"} \cup IF MissingEntries(p) = {} THEN {"write_ignore"} ELSE {}
               entries == ignored \cup MissingEntries(p)
    <3>1. /\ "read_ignore" \in todo[p] /\ Installing(p)
          /\ todo' = [todo EXCEPT ![p] = @ \ done]
          /\ plan' = [plan EXCEPT ![p].entries = entries]
      BY <2>2 DEF ReadIgnore, Doing, InstallerInv, Kept
    <3>2. plan[p] \in Plan /\ entries \in SUBSET IgnoreEntries
      BY <3>1 DEF InstallerInv, TypeOK, Idle, MissingEntries, Required, IgnoreEntries
    <3>3. done \subseteq {"read_ignore", "write_ignore"}
      OBVIOUS
    <3> HIDE DEF done, entries
    <3>4. /\ plan'[p] \in Plan /\ plan'[p].config = plan[p].config /\ plan'[p].mode = plan[p].mode
          /\ \A q \in Platforms : q # p => plan'[q] = plan[q]
          /\ plan' \in [Platforms -> Plan \cup {None}]
      BY <3>1, <3>2 DEF Plan, InstallerInv, TypeOK
    <3>5. /\ todo' \in [Platforms -> SUBSET DOMAIN Order] /\ todo'[p] = todo[p] \ done
          /\ \A q \in Platforms : q # p => todo'[q] = todo[q]
      BY <3>1 DEF InstallerInv, TypeOK
    <3>6. plan'[p] # None /\ ~Idle(p)' /\ Installing(p)'
      BY <3>1, <3>3, <3>4, <3>5, InstallerAssumption DEF Idle, Installing
    <3>7. \A q \in Platforms : Idle(q) <=> plan[q] = None
      BY DEF InstallerInv, TypeOK
    <3>8. \A q \in Platforms : Idle(q)' <=> plan'[q] = None
      BY <3>4, <3>5, <3>6, <3>7 DEF Idle
    <3> QED BY <3>1, <3>3, <3>4, <3>5, <3>6, <3>8
  <2>3. CASE WriteIgnore(p)
    BY <2>3, Advanced DEF WriteIgnore, Doing, InstallerInv, Installing, Kept
  <2>4. CASE WriteAnchors(p)
    <3>1. PICK step \in {"truncate_anchors", "write_anchors"} : Doing(p, step) /\ Advance(p, {step})
      BY <2>4 DEF WriteAnchors
    <3> QED BY <3>1, Advanced DEF Doing, InstallerInv, Installing, Kept
  <2> QED BY <2>1, <2>2, <2>3, <2>4
<1>3. TypeOK'
  <2>1. Secure(p) => ignored' = ignored /\ anchors' = anchors /\ private' \subseteq {"data"} \cup Platforms
                     /\ dataRoot' \in BOOLEAN /\ runnerBits' \in [Platforms -> {"0700", "0600"}]
    BY DEF Secure, SecureLayout, InstallerInv, TypeOK
  <2>2. ReadIgnore(p) => UNCHANGED <<ignored, anchors, private, dataRoot, runnerBits>>
    BY DEF ReadIgnore, files
  <2>3. WriteIgnore(p) => /\ ignored' \subseteq IgnoreEntries
                          /\ UNCHANGED <<anchors, private, dataRoot, runnerBits>>
    BY DEF WriteIgnore, Doing, InstallerInv, TypeOK, Idle, Plan
  <2>4. WriteAnchors(p) => /\ UNCHANGED <<ignored, runnerBits>> /\ dataRoot' \in BOOLEAN
                           /\ anchors' \in Anchors \cup {None}
                           /\ private' \subseteq {"data"} \cup Platforms
    <3>1. "write_anchors" \in todo[p] => plan[p].anchors \in Anchors \cup {None}
      BY DEF InstallerInv, TypeOK, Idle, Plan
    <3> QED BY <3>1 DEF WriteAnchors, Doing, Anchors, InstallerInv, TypeOK
  <2> QED BY <1>1, <1>2, <2>1, <2>2, <2>3, <2>4 DEF InstallerInv, TypeOK
<1>4. ReadConfig(p)' = ReadConfig(p)
  BY <1>1 DEF ReadConfig
<1>5. Kept(p)'
  BY <1>1, <1>2, <1>4 DEF InstallerInv, Kept
<1>6. ASSUME NEW q \in Platforms, q # p PROVE Kept(q)'
  BY <1>1, <1>2, <1>6, OthersKeep
<1> QED BY <1>1, <1>3, <1>5, <1>6 DEF InstallerInv, ModeWasAskedFor, RunnerMode
(* The steps that write one of them: each takes itself off the list.        *)
LEMMA BackupKeeps ==
  ASSUME InstallerInv, NEW p \in Platforms, UNCHANGED asked, Backup(p)
  PROVE  InstallerInv'
<1>1. UNCHANGED <<config, runner, runnerBits, anchors, ignored, private>> /\ "backup" \in todo[p]
  BY DEF Backup, Doing
<1>2. /\ backups' \in [Platforms -> SUBSET Config] /\ dataRoot' \in BOOLEAN
      /\ config[p] \in backups'[p] \cup {None}
      /\ \A q \in Platforms : q # p => backups'[q] = backups[q]
  BY DEF Backup, InstallerInv, TypeOK
<1>3. TypeOK'
  BY <1>1, <1>2, Advanced DEF Backup, InstallerInv, TypeOK
<1>4. Kept(p)'
  <2>1. ReadConfig(p)' = ReadConfig(p)
    BY <1>1 DEF ReadConfig
  <2>2. /\ todo'[p] = todo[p] \ {"backup"}
        /\ todo'[p] # {} => plan'[p] = plan[p]
    BY <1>1, Advanced DEF Backup, InstallerInv
  <2> QED BY <1>1, <1>2, <2>1, <2>2 DEF InstallerInv, Kept, Installing
<1>5. ASSUME NEW q \in Platforms, q # p PROVE Kept(q)'
  BY <1>1, <1>2, <1>5, Advanced, OthersKeep DEF Backup, InstallerInv
<1> QED BY <1>1, <1>3, <1>4, <1>5 DEF InstallerInv, ModeWasAskedFor, RunnerMode

\* Writing the runner keeps it: its mode is the plan's.
LEMMA RunnerKeeps ==
  ASSUME InstallerInv, NEW p \in Platforms, UNCHANGED asked, WriteRunner(p)
  PROVE  InstallerInv'
<1>1. UNCHANGED <<config, backups, anchors, ignored, private>> /\ "runner" \in todo[p]
  BY DEF WriteRunner, Doing
<1>2. plan[p].mode \in asked[p] /\ plan[p].mode \in HookModes \cup {"legacy"}
  BY <1>1 DEF InstallerInv, Kept, Asked
<1>3. /\ runner' = [runner EXCEPT ![p] = [mode |-> plan[p].mode, current |-> TRUE]]
      /\ [mode |-> plan[p].mode, current |-> TRUE] \in Runner
  BY <1>2 DEF WriteRunner, Runner
<1>4. TypeOK'
  BY <1>1, <1>3, Advanced DEF WriteRunner, InstallerInv, TypeOK
<1>5. ModeWasAskedFor'
  <2>1. RunnerMode(p)' \in asked[p] \cup {None}
    BY <1>2, <1>3 DEF RunnerMode, InstallerInv, TypeOK
  <2>2. \A q \in Platforms : q # p => RunnerMode(q)' = RunnerMode(q)
    BY <1>3 DEF RunnerMode, InstallerInv, TypeOK
  <2> QED BY <2>1, <2>2 DEF InstallerInv, ModeWasAskedFor
<1>6. Kept(p)'
  <2>1. ReadConfig(p)' = ReadConfig(p)
    BY <1>1 DEF ReadConfig
  <2>2. /\ todo'[p] = todo[p] \ {"runner"}
        /\ todo'[p] # {} => plan'[p] = plan[p]
    BY <1>1, Advanced DEF WriteRunner, InstallerInv
  <2> QED BY <1>1, <2>1, <2>2 DEF InstallerInv, Kept, Installing
<1>7. ASSUME NEW q \in Platforms, q # p PROVE Kept(q)'
  BY <1>1, <1>7, Advanced, OthersKeep DEF WriteRunner, InstallerInv
<1> QED BY <1>4, <1>5, <1>6, <1>7 DEF InstallerInv

\* Writing the configuration keeps it.
LEMMA ConfigKeeps ==
  ASSUME InstallerInv, NEW p \in Platforms, UNCHANGED asked, WriteConfig(p)
  PROVE  InstallerInv'
<1>1. /\ UNCHANGED <<backups, runner, runnerBits, anchors, ignored, dataRoot>>
      /\ "config" \in todo[p]
  BY DEF WriteConfig, Doing
<1>2. plan[p].config \in Config
  BY <1>1 DEF InstallerInv, TypeOK, Idle, Plan
<1>3. /\ config' \in [Platforms -> Config \cup {None}]
      /\ \A q \in Platforms : q # p => config'[q] = config[q]
      /\ private' \subseteq {"data"} \cup Platforms
  BY <1>2 DEF WriteConfig, InstallerInv, TypeOK
<1>4. TypeOK'
  BY <1>1, <1>3, Advanced DEF WriteConfig, InstallerInv, TypeOK
<1>5. Kept(p)'
  <2>1. /\ todo'[p] = todo[p] \ {"config"}
        /\ todo'[p] # {} => plan'[p] = plan[p]
    BY <1>1, Advanced DEF WriteConfig, InstallerInv
  <2> QED BY <1>1, <2>1 DEF InstallerInv, Kept, Installing
<1>6. ASSUME NEW q \in Platforms, q # p PROVE Kept(q)'
  BY <1>1, <1>3, <1>6, Advanced, OthersKeep DEF WriteConfig, InstallerInv
<1> QED BY <1>1, <1>4, <1>5, <1>6 DEF InstallerInv, ModeWasAskedFor, RunnerMode

\* A crash keeps it: what is written stays.
LEMMA CrashKeeps ==
  ASSUME InstallerInv, NEW p \in Platforms, Crash(p)
  PROVE  InstallerInv'
<1>1. TypeOK'
  BY DEF Crash, files, InstallerInv, TypeOK, Idle
<1>2. Kept(p)'
  BY DEF Crash, InstallerInv, TypeOK, Kept, Installing
<1>3. ASSUME NEW q \in Platforms, q # p PROVE Kept(q)'
  BY <1>3, OthersKeep DEF Crash, files, InstallerInv, TypeOK
<1> QED BY <1>1, <1>2, <1>3 DEF Crash, files, InstallerInv, ModeWasAskedFor, RunnerMode

(* The user touches files only, and no command is under way.                *)
LEMMA EditKeeps ==
  ASSUME InstallerInv, NEW p \in Platforms, UserEdit(p)
  PROVE  InstallerInv'
<1>1. UNCHANGED <<plan, todo, asked>> /\ \A q \in Platforms : todo[q] = {}
  BY DEF UserEdit, Idle
<1>2. \A q \in Platforms : Kept(q)'
  BY <1>1 DEF Kept, Installing
<1>3. PICK c \in Config : c = ReadConfig(p)
  BY Merged DEF InstallerInv
<1>4. config' \in [Platforms -> Config \cup {None}]
  <2>1. ASSUME NEW e \in AllEvents, NEW guard \in {"none", "good", "wrong", "double"},
               NEW user \in SUBSET Events
        PROVE  [guard |-> [c.guard EXCEPT ![e] = guard], user |-> user] \in Config
    BY DEF Config
  <2>2. c.user \in SUBSET Events
    BY DEF Config
  <2>3. config \in [Platforms -> Config \cup {None}]
    BY DEF InstallerInv, TypeOK
  <2>4. ASSUME NEW e \in Events, NEW guard \in {"none", "wrong", "double"}, NEW user \in {{}, Events}
        PROVE  [config EXCEPT ![p] = [guard |-> [c.guard EXCEPT ![e] = guard], user |-> user]]
                 \in [Platforms -> Config \cup {None}]
    BY <2>1, <2>3 DEF AllEvents
  <2>5. ASSUME NEW e \in OtherEvents
        PROVE  [config EXCEPT ![p] = [guard |-> [c.guard EXCEPT ![e] = "good"], user |-> c.user]]
                 \in [Platforms -> Config \cup {None}]
    BY <2>1, <2>2, <2>3 DEF AllEvents
  <2>6. CASE \E e \in Events, guard \in {"none", "wrong", "double"}, user \in {{}, Events} :
               config' = [config EXCEPT ![p] = [guard |-> [c.guard EXCEPT ![e] = guard], user |-> user]]
    <3>1. PICK e \in Events, guard \in {"none", "wrong", "double"}, user \in {{}, Events} :
            config' = [config EXCEPT ![p] = [guard |-> [c.guard EXCEPT ![e] = guard], user |-> user]]
      BY <2>6
    <3> QED BY <2>4, <3>1
  <2>7. CASE \E e \in OtherEvents :
               config' = [config EXCEPT ![p] = [guard |-> [c.guard EXCEPT ![e] = "good"],
                                                user |-> c.user]]
    BY <2>5, <2>7
  <2>8. CASE UNCHANGED config
    BY <2>3, <2>8
  <2> QED BY <1>3, <2>6, <2>7, <2>8 DEF UserEdit
<1>5. /\ runner' \in [Platforms -> Runner \cup {None}] /\ ModeWasAskedFor'
      /\ backups' = backups /\ anchors' = anchors /\ dataRoot' = dataRoot
      /\ runnerBits' \in [Platforms -> {"0700", "0600"}] /\ ignored' \subseteq IgnoreEntries
      /\ private' \subseteq {"data"} \cup Platforms
  <2>1. [mode |-> "unknown", current |-> FALSE] \in Runner
    BY DEF Runner
  <2>2. runner \in [Platforms -> Runner \cup {None}]
    BY DEF InstallerInv, TypeOK
  <2>3. \/ runner' = runner
        \/ \E damaged \in {None, [mode |-> "unknown", current |-> FALSE]} :
             runner' = [runner EXCEPT ![p] = damaged]
    BY DEF UserEdit
  <2>4. runner' \in [Platforms -> Runner \cup {None}]
    BY <2>1, <2>2, <2>3
  <2>5. \A q \in Platforms : RunnerMode(q)' \in {RunnerMode(q), None, "unknown"}
    BY <2>2, <2>3 DEF RunnerMode
  <2>6. ModeWasAskedFor'
    BY <1>1, <2>5 DEF InstallerInv, ModeWasAskedFor
  <2> QED BY <2>4, <2>6 DEF UserEdit, InstallerInv, TypeOK
<1>6. TypeOK'
  BY <1>1, <1>4, <1>5 DEF InstallerInv, TypeOK, Idle
<1> QED BY <1>1, <1>2, <1>5, <1>6 DEF InstallerInv

\* The invariant is inductive.
LEMMA NextInstaller == InstallerInv /\ [Next]_vars => InstallerInv'
<1> SUFFICES ASSUME InstallerInv, [Next]_vars PROVE InstallerInv'
  OBVIOUS
<1>1. CASE UNCHANGED vars
  BY <1>1 DEF vars, files, bounds, InstallerInv, TypeOK, Idle, ModeWasAskedFor, RunnerMode,
              Kept, Installing, ReadConfig
<1>2. ASSUME NEW p \in Platforms, Step(p) PROVE InstallerInv'
  <2>1. UNCHANGED asked
    BY <1>2 DEF Step
  <2> QED BY <1>2, <2>1, QuietKeeps, BackupKeeps, RunnerKeeps, ConfigKeeps DEF Step
<1> QED BY <1>1, <1>2, InstallKeeps, UninstallKeeps, CrashKeeps, EditKeeps DEF Next

\* The types, the modes and the plans of the installer are in order in every
\* behaviour, for any platforms, damages, crashes and removals.
THEOREM InstallerInvariant == Spec => []InstallerInv
<1> QED BY InitInstaller, NextInstaller, PTL DEF Spec

(* Files, plans and lists of steps are what their descriptions say, and a   *)
(* command under way has a plan.                                            *)
THEOREM InstallerTypes == Spec => []TypeOK
<1>1. InstallerInv => TypeOK
  BY DEF InstallerInv
<1> QED BY <1>1, InstallerInvariant, PTL

(* On any platforms, whatever is damaged, killed, removed and reinstalled:  *)
(* a runner is in a mode somebody chose.                                    *)
THEOREM ModesAreChosen == Spec => []ModeWasAskedFor
<1>1. InstallerInv => ModeWasAskedFor
  BY DEF InstallerInv
<1> QED BY <1>1, InstallerInvariant, PTL

(* While a command runs, only its own writing of the configuration changes  *)
(* it, which comes after the backup and keeps the user's handlers.          *)
THEOREM UsersHandlersSurvive == Spec => NothingOfTheUserIsLost
<1> DEFINE Survive ==
      \A p \in Platforms : config'[p] # config[p] /\ ~Idle(p) /\ config[p] # None =>
        config'[p].user = config[p].user /\ config[p] \in backups[p]
<1>1. ASSUME InstallerInv, [Next]_vars PROVE [Survive]_vars
  <2> SUFFICES ASSUME NEW p \in Platforms, config'[p] # config[p], ~Idle(p), config[p] # None
               PROVE  config'[p].user = config[p].user /\ config[p] \in backups[p]
    OBVIOUS
  <2>1. WriteConfig(p)
    <3>1. PICK q \in Platforms :
            \/ \E mode \in HookModes \cup {None}, source \in {None, "custom"} : Install(q, mode, source)
            \/ Uninstall(q) \/ Step(q) \/ Crash(q) \/ UserEdit(q)
      BY <1>1 DEF Next, vars, files
    <3>2. UNCHANGED config \/ WriteConfig(q)
      BY <3>1 DEF Install, Uninstall, Crash, UserEdit, Step, Secure, Backup, ReadIgnore,
                  WriteIgnore, WriteAnchors, WriteRunner, files
    <3> QED BY <1>1, <3>2 DEF WriteConfig, InstallerInv, TypeOK
  <2>2. /\ "config" \in todo[p] /\ "backup" \notin todo[p]
        /\ config' = [config EXCEPT ![p] = plan[p].config]
    BY <2>1 DEF WriteConfig, Doing, Order
  <2>3. ReadConfig(p) = config[p]
    BY DEF ReadConfig
  <2>4. plan[p].config.user = ReadConfig(p).user /\ config[p] \in backups[p]
    BY <1>1, <2>2 DEF InstallerInv, Kept
  <2>5. config'[p] = plan[p].config
    BY <1>1, <2>2 DEF InstallerInv, TypeOK
  <2> QED BY <2>3, <2>4, <2>5
<1> QED BY <1>1, InstallerInvariant, PTL DEF Spec, NothingOfTheUserIsLost
-----------------------------------------------------------------------------
(* One platform: what a command has done so far, or still has to do         *)

Begun(p) ==
  /\ "config" \in todo[p] =>
       /\ ~Installing(p) => \A e \in Events : plan[p].config.guard[e] = "none"
       /\ "other_events" \notin Damages => \A e \in OtherEvents : plan[p].config.guard[e] = "none"
  /\ Installing(p) =>
       /\ \A e \in Events : plan[p].config.guard[e] = "good"
       /\ plan[p].anchors \in {"custom", "default"}
       /\ "secure" \in todo[p] \/ runnerBits[p] = "0700"
       /\ "config" \in todo[p] \/ config[p] = plan[p].config
       /\ "runner" \in todo[p] \/ runner[p] = [mode |-> plan[p].mode, current |-> TRUE]
       /\ "truncate_anchors" \in todo[p] => "write_anchors" \in todo[p]
       /\ "write_anchors" \in todo[p] \/ anchors = plan[p].anchors
       /\ "read_ignore" \in todo[p] => "write_ignore" \in todo[p]
       /\ IF "write_ignore" \in todo[p]
          THEN "read_ignore" \in todo[p] \/ Required(p) \subseteq plan[p].entries
          ELSE Required(p) \subseteq ignored

OtherEventsFree ==
  "other_events" \notin Damages =>
    \A p \in Platforms, e \in OtherEvents : ReadConfig(p).guard[e] = "none"

OneInv ==
  /\ InstallerInv
  /\ edits \in Nat /\ crashes \in Nat
  /\ OtherEventsFree
  /\ \A p \in Platforms : Begun(p)

\* The invariant of one platform holds at first.
LEMMA InitOne == Init => OneInv
<1> SUFFICES ASSUME Init PROVE OneInv
  OBVIOUS
<1>1. InstallerInv
  BY InitInstaller
<1>2. OtherEventsFree
  <2> SUFFICES ASSUME NEW p \in Platforms, NEW e \in OtherEvents
               PROVE  ReadConfig(p).guard[e] = "none"
    BY DEF OtherEventsFree
  <2>1. e \in AllEvents /\ e \notin Events
    BY InstallerAssumption DEF AllEvents
  <2>2. ReadConfig(p).guard \in {NoGuard, Good}
    BY DEF Init, ReadConfig
  <2> QED BY <2>1, <2>2, Configurations
<1>3. \A p \in Platforms : Begun(p)
  BY DEF Init, Begun, Installing
<1> QED BY <1>1, <1>2, <1>3 DEF Init, OneInv

\* An installation begins with all its steps to do.
LEMMA InstallBegins ==
  ASSUME OneInv, NEW p \in Platforms, NEW mode \in HookModes \cup {None},
         NEW source \in {None, "custom"}, Install(p, mode, source)
  PROVE  Begun(p)'
<1>1. PICK effective \in EffectiveModes(p, mode) :
        /\ plan' = [plan EXCEPT ![p] = [config |-> MergedConfig(p, TRUE), mode |-> effective,
                                        anchors |-> LoadAnchors(source), entries |-> {}]]
        /\ todo' = [todo EXCEPT ![p] = InstallSteps(p, effective, LoadAnchors(source))]
  BY DEF Install
<1>2. UNCHANGED <<config, runner, runnerBits, anchors, ignored>> /\ LoadAnchors(source) # None
  BY DEF Install, files
<1>3. LoadAnchors(source) \in {"custom", "default"}
  BY <1>2 DEF LoadAnchors, OneInv, InstallerInv, TypeOK, Anchors
<1>4. /\ plan'[p].config = MergedConfig(p, TRUE) /\ plan'[p].mode = effective
      /\ plan'[p].anchors = LoadAnchors(source)
      /\ todo'[p] = InstallSteps(p, effective, LoadAnchors(source))
  BY <1>1 DEF OneInv, InstallerInv, TypeOK
<1>5. /\ {"secure", "read_ignore", "write_ignore", "finish"} \subseteq todo'[p]
      /\ "config" \notin todo'[p] => MergedConfig(p, TRUE) = config[p]
      /\ "write_anchors" \notin todo'[p] => LoadAnchors(source) = anchors
      /\ "truncate_anchors" \in todo'[p] => "write_anchors" \in todo'[p]
      /\ "runner" \notin todo'[p] => runner[p] = [mode |-> effective, current |-> TRUE]
  BY <1>4 DEF InstallSteps, RunnerChanged
<1>6. /\ \A e \in Events : plan'[p].config.guard[e] = "good"
      /\ "other_events" \notin Damages => \A e \in OtherEvents : plan'[p].config.guard[e] = "none"
  <2>1. PICK c : c = MergedConfig(p, TRUE)
    OBVIOUS
  <2>2. /\ \A e \in Events : c.guard[e] = "good"
        /\ \A e \in OtherEvents : c.guard[e] = ReadConfig(p).guard[e]
    BY <2>1, MergedGuards DEF OneInv, InstallerInv
  <2>3. plan'[p].config = c
    BY <1>4, <2>1
  <2> QED BY <2>2, <2>3 DEF OneInv, OtherEventsFree
<1> QED BY <1>2, <1>3, <1>4, <1>5, <1>6 DEF Begun, Installing

\* A removal begins with its steps to do.
LEMMA UninstallBegins ==
  ASSUME OneInv, NEW p \in Platforms, Uninstall(p)
  PROVE  Begun(p)'
<1>1. plan'[p].config = MergedConfig(p, FALSE) /\ todo'[p] = {"backup", "config"}
  BY DEF Uninstall, OneInv, InstallerInv, TypeOK
<1>2. /\ \A e \in Events : plan'[p].config.guard[e] = "none"
      /\ "other_events" \notin Damages => \A e \in OtherEvents : plan'[p].config.guard[e] = "none"
  <2>0. PICK b \in BOOLEAN : b = FALSE
    OBVIOUS
  <2>1. PICK c : c = MergedConfig(p, FALSE) /\ c = MergedConfig(p, b)
    BY <2>0
  <2>2. /\ \A e \in Events : c.guard[e] = "none"
        /\ \A e \in OtherEvents : c.guard[e] = ReadConfig(p).guard[e]
    BY <2>0, <2>1, MergedGuards DEF OneInv, InstallerInv
  <2>3. plan'[p].config = c
    BY <1>1, <2>1
  <2> QED BY <2>2, <2>3 DEF OneInv, OtherEventsFree
<1> QED BY <1>1, <1>2 DEF Begun, Installing

(* Each write does its part of the plan and takes itself off the list.      *)
LEMMA StepBegins ==
  ASSUME OneInv, NEW p \in Platforms, Step(p)
  PROVE  Begun(p)'
<1> USE DEF Installing
<1>0. InstallerInv /\ TypeOK /\ Begun(p)
  BY DEF OneInv, InstallerInv
<1>1. CASE Secure(p)
  <2>1. PICK step \in {"secure", "finish"} : Doing(p, step) /\ Advance(p, {step})
    BY <1>1 DEF Secure
  <2>2. /\ todo'[p] = todo[p] \ {step} /\ (todo'[p] # {} => plan'[p] = plan[p])
        /\ step = "finish" => todo'[p] = {}
    BY <1>0, <2>1, Advanced DEF Doing, TypeOK, Order
  <2>3. UNCHANGED <<config, runner, anchors, ignored>> /\ runnerBits'[p] = "0700"
    BY <1>1 DEF Secure, SecureLayout
  <2> QED BY <1>0, <2>2, <2>3 DEF Begun
<1>2. CASE Backup(p)
  <2>1. /\ todo'[p] = todo[p] \ {"backup"} /\ (todo'[p] # {} => plan'[p] = plan[p])
        /\ UNCHANGED <<config, runner, runnerBits, anchors, ignored>>
    BY <1>0, <1>2, Advanced DEF Backup, Doing
  <2> QED BY <1>0, <2>1 DEF Begun
<1>3. CASE ReadIgnore(p)
  <2> DEFINE done == {"read_ignore"} \cup IF MissingEntries(p) = {} THEN {"write_ignore"} ELSE {}
             entries == ignored \cup MissingEntries(p)
  <2>1. /\ UNCHANGED <<config, runner, runnerBits, anchors, ignored>>
        /\ todo' = [todo EXCEPT ![p] = @ \ done]
        /\ plan' = [plan EXCEPT ![p].entries = entries]
        /\ "read_ignore" \in todo[p]
    BY <1>3 DEF ReadIgnore, files, Doing
  <2>2. /\ done \subseteq {"read_ignore", "write_ignore"} /\ "read_ignore" \in done
        /\ Required(p) \subseteq entries
        /\ "write_ignore" \in done => Required(p) \subseteq ignored
    BY DEF MissingEntries
  <2> HIDE DEF done, entries
  <2>3. plan[p] \in Plan
    BY <1>0, <2>1 DEF TypeOK, Idle
  <2>4. /\ plan'[p].config = plan[p].config /\ plan'[p].mode = plan[p].mode
        /\ plan'[p].anchors = plan[p].anchors /\ plan'[p].entries = entries
        /\ todo'[p] = todo[p] \ done
    BY <1>0, <2>1, <2>3 DEF TypeOK, Plan
  <2> QED BY <1>0, <2>1, <2>2, <2>4 DEF Begun
<1>4. CASE WriteIgnore(p)
  <2>1. /\ todo'[p] = todo[p] \ {"write_ignore"} /\ (todo'[p] # {} => plan'[p] = plan[p])
        /\ UNCHANGED <<config, runner, runnerBits, anchors>> /\ ignored' = plan[p].entries
        /\ "write_ignore" \in todo[p] /\ "read_ignore" \notin todo[p]
    BY <1>0, <1>4, Advanced DEF WriteIgnore, Doing, Order
  <2> QED BY <1>0, <2>1 DEF Begun
<1>5. CASE WriteAnchors(p)
  <2>1. PICK step \in {"truncate_anchors", "write_anchors"} :
          /\ Doing(p, step) /\ Advance(p, {step})
          /\ step = "write_anchors" => anchors' = plan[p].anchors
    BY <1>5 DEF WriteAnchors
  <2>2. /\ todo'[p] = todo[p] \ {step} /\ (todo'[p] # {} => plan'[p] = plan[p])
        /\ step \in todo[p] /\ (step = "write_anchors" => "truncate_anchors" \notin todo[p])
    BY <1>0, <2>1, Advanced DEF Doing, Order
  <2>3. UNCHANGED <<config, runner, runnerBits, ignored>>
    BY <1>5 DEF WriteAnchors
  <2> QED BY <1>0, <2>1, <2>2, <2>3 DEF Begun
<1>6. CASE WriteRunner(p)
  <2>1. /\ todo'[p] = todo[p] \ {"runner"} /\ (todo'[p] # {} => plan'[p] = plan[p])
        /\ UNCHANGED <<config, anchors, ignored>> /\ runnerBits'[p] = "0700"
        /\ runner'[p] = [mode |-> plan[p].mode, current |-> TRUE]
    BY <1>0, <1>6, Advanced DEF WriteRunner, Doing, TypeOK
  <2> QED BY <1>0, <2>1 DEF Begun
<1>7. CASE WriteConfig(p)
  <2>1. /\ todo'[p] = todo[p] \ {"config"} /\ (todo'[p] # {} => plan'[p] = plan[p])
        /\ UNCHANGED <<runner, runnerBits, anchors, ignored>> /\ config'[p] = plan[p].config
    BY <1>0, <1>7, Advanced DEF WriteConfig, Doing, TypeOK
  <2> QED BY <1>0, <2>1 DEF Begun
<1> QED BY <1>1, <1>2, <1>3, <1>4, <1>5, <1>6, <1>7 DEF Step

(* Handlers of other events appear by the user's hand only.                 *)
LEMMA OthersStayFree ==
  ASSUME OneInv, [Next]_vars
  PROVE  OtherEventsFree'
<1> SUFFICES ASSUME "other_events" \notin Damages, NEW q \in Platforms, NEW e \in OtherEvents
             PROVE  ReadConfig(q)'.guard[e] = "none"
  BY DEF OtherEventsFree
<1>1. ReadConfig(q).guard[e] = "none" /\ ReadConfig(q) \in Config /\ TypeOK /\ e \notin Events
  BY Merged, InstallerAssumption DEF OneInv, OtherEventsFree, InstallerInv
<1>2. CASE config'[q] = config[q]
  BY <1>1, <1>2 DEF ReadConfig
<1>3. CASE WriteConfig(q)
  <2>1. config'[q] = plan[q].config /\ plan[q].config.guard[e] = "none" /\ plan[q].config \in Config
    BY <1>1, <1>3 DEF WriteConfig, Doing, OneInv, Begun, TypeOK, Idle, Plan
  <2> QED BY <2>1, InstallerAssumption DEF ReadConfig
<1>4. CASE UserEdit(q) /\ config'[q] # config[q]
  <2>1. PICK c \in Config : c = ReadConfig(q)
    BY <1>1
  <2>2. PICK d \in Events, guard \in {"none", "wrong", "double"}, user \in {{}, Events} :
          config' = [config EXCEPT ![q] = [guard |-> [c.guard EXCEPT ![d] = guard], user |-> user]]
    BY <1>4, <2>1 DEF UserEdit
  <2> DEFINE new == [guard |-> [c.guard EXCEPT ![d] = guard], user |-> user]
  <2>3. new \in Config /\ new.guard[e] = "none"
    BY <1>1, <2>1 DEF Config, AllEvents
  <2>4. config'[q] = new
    BY <1>1, <2>2 DEF TypeOK
  <2> HIDE DEF new
  <2> QED BY <2>3, <2>4, InstallerAssumption DEF ReadConfig
<1>5. config'[q] = config[q] \/ WriteConfig(q) \/ UserEdit(q)
  <2>1. CASE UNCHANGED vars
    BY <2>1 DEF vars, files
  <2>2. ASSUME NEW r \in Platforms,
               \/ \E mode \in HookModes \cup {None}, source \in {None, "custom"} : Install(r, mode, source)
               \/ Uninstall(r) \/ Crash(r)
        PROVE  UNCHANGED config
    BY <2>2 DEF Install, Uninstall, Crash, files
  <2>3. ASSUME NEW r \in Platforms, Step(r) PROVE UNCHANGED config \/ WriteConfig(r)
    BY <2>3 DEF Step, Secure, Backup, ReadIgnore, WriteIgnore, WriteAnchors, WriteRunner, files
  <2>4. ASSUME NEW r \in Platforms, r # q, WriteConfig(r) \/ UserEdit(r) PROVE config'[q] = config[q]
    BY <1>1, <2>4 DEF WriteConfig, UserEdit, TypeOK
  <2> QED BY <2>1, <2>2, <2>3, <2>4 DEF Next
<1> QED BY <1>2, <1>3, <1>4, <1>5
\* The invariant of one platform is inductive.
LEMMA NextOne ==
  ASSUME NEW p \in Platforms, Platforms = {p}
  PROVE  OneInv /\ [Next]_vars => OneInv'
<1> SUFFICES ASSUME OneInv, [Next]_vars PROVE OneInv'
  OBVIOUS
<1>1. InstallerInv'
  BY NextInstaller DEF OneInv
<1>2. OtherEventsFree'
  BY OthersStayFree
<1>3. edits' \in Nat /\ crashes' \in Nat
  <2>1. edits \in Nat /\ crashes \in Nat
    BY DEF OneInv
  <2>2. edits' \in {edits, edits + 1} /\ crashes' \in {crashes, crashes + 1}
    BY DEF Next, Install, Uninstall, Step, Crash, UserEdit, vars, bounds
  <2> QED BY <2>1, <2>2
<1>4. Begun(p)'
  <2>1. CASE UNCHANGED vars
    BY <2>1 DEF vars, files, OneInv, Begun, Installing
  <2>2. CASE Crash(p)
    BY <2>2 DEF Crash, Begun, Installing, OneInv, InstallerInv, TypeOK
  <2>3. CASE UserEdit(p)
    BY <2>3 DEF UserEdit, Idle, Begun, Installing
  <2> QED BY <2>1, <2>2, <2>3, InstallBegins, UninstallBegins, StepBegins DEF Next
<1> QED BY <1>1, <1>2, <1>3, <1>4 DEF OneInv

\* It holds in every behaviour of one platform.
LEMMA OneInvariant ==
  ASSUME NEW p \in Platforms, Platforms = {p}
  PROVE  Spec => []OneInv
<1> QED BY InitOne, NextOne, PTL DEF Spec

(* On one platform, no write of a command, in its place in the order, and   *)
(* no kill between two writes leaves a handler without its runner that had  *)
(* one.                                                                     *)
LEMMA HandlersKeepTheirRunner ==
  ASSUME NEW p \in Platforms, Platforms = {p}, OneInv, [Next]_vars, edits' = edits, CanRun(p)
  PROVE  CanRun(p)'
<1>0. TypeOK /\ Begun(p) /\ edits \in Nat
  BY DEF OneInv, InstallerInv
<1>1. CASE UNCHANGED <<config, runner, runnerBits>>
  BY <1>1 DEF CanRun, ReadConfig
<1>2. CASE Secure(p)
  BY <1>2 DEF Secure, SecureLayout, CanRun, ReadConfig
<1>3. CASE WriteRunner(p)
  <2>1. /\ runner'[p] = [mode |-> plan[p].mode, current |-> TRUE] /\ runnerBits'[p] = "0700"
        /\ plan[p].mode \in HookModes \cup {"legacy"}
    BY <1>0, <1>3 DEF WriteRunner, Doing, TypeOK, OneInv, InstallerInv, Kept, Asked
  <2>2. runner'[p] \in Runner
    BY <2>1 DEF Runner
  <2> QED BY <2>1, <2>2, InstallerAssumption DEF CanRun
<1>4. CASE WriteConfig(p)
  <2>1. /\ config'[p] = plan[p].config /\ plan[p].config \in Config
        /\ UNCHANGED <<runner, runnerBits>> /\ "config" \in todo[p]
        /\ "runner" \notin todo[p] /\ "secure" \notin todo[p]
    BY <1>0, <1>4 DEF WriteConfig, Doing, TypeOK, Order, Idle, Plan
  <2>2. ReadConfig(p)' = plan[p].config
    BY <2>1, InstallerAssumption DEF ReadConfig
  <2>3. CASE ~Installing(p)
    BY <1>0, <2>1, <2>2, <2>3 DEF Begun, CanRun
  <2>4. CASE Installing(p)
    <3>1. runner[p] = [mode |-> plan[p].mode, current |-> TRUE] /\ runnerBits[p] = "0700"
      BY <1>0, <2>1, <2>4 DEF Begun
    <3>2. plan[p].mode \in HookModes \cup {"legacy"}
      BY <2>4 DEF OneInv, InstallerInv, Kept, Asked
    <3>3. runner[p] \in Runner
      BY <3>1, <3>2 DEF Runner
    <3> QED BY <2>1, <3>1, <3>3, InstallerAssumption DEF CanRun
  <2> QED BY <2>3, <2>4
<1>5. \/ UNCHANGED <<config, runner, runnerBits>>
      \/ Secure(p) \/ WriteRunner(p) \/ WriteConfig(p)
  <2>1. CASE UNCHANGED vars
    BY <2>1 DEF vars, files
  <2>2. ASSUME \/ \E mode \in HookModes \cup {None}, source \in {None, "custom"} : Install(p, mode, source)
               \/ Uninstall(p) \/ Crash(p)
        PROVE  UNCHANGED <<config, runner, runnerBits>>
    BY <2>2 DEF Install, Uninstall, Crash, files
  <2>3. ~UserEdit(p)
    BY <1>0 DEF UserEdit
  <2>4. CASE Step(p)
    BY <2>4 DEF Step, Backup, ReadIgnore, WriteIgnore, WriteAnchors, files
  <2> QED BY <2>1, <2>2, <2>3, <2>4 DEF Next
<1> QED BY <1>1, <1>2, <1>3, <1>4, <1>5

(* With the hooks of one platform, only the user can break a handler that   *)
(* can run: an installation has its runner in place before the              *)
(* configuration names it, an uninstallation takes the handler first.       *)
THEOREM HandlersCanRun ==
  ASSUME NEW one \in Platforms, Platforms = {one}
  PROVE  Spec => ConfiguredHookCanRun
<1>1. ASSUME OneInv, [Next]_vars
      PROVE  [edits' = edits => \A p \in Platforms : CanRun(p) => CanRun(p)']_vars
  BY <1>1, HandlersKeepTheirRunner
<1>2. Spec => []OneInv
  BY OneInvariant
<1> QED BY <1>1, <1>2, PTL DEF Spec, ConfiguredHookCanRun

(* The last step of an installation finds everything in its place.          *)
LEMMA FinishedIsHealthy ==
  ASSUME NEW p \in Platforms, Platforms = {p}, "other_events" \notin Damages,
         OneInv, OneInv', Secure(p), Doing(p, "finish"), "finish" \notin todo'[p]
  PROVE  Healthy(p)'
<1>0. TypeOK /\ TypeOK' /\ Begun(p) /\ Installing(p) /\ OtherEventsFree
  BY DEF OneInv, InstallerInv, Doing, Installing
<1>1. \A step \in DOMAIN Order : step # "finish" => step \notin todo[p]
  BY DEF Doing, Order
<1>2. /\ UNCHANGED <<config, runner, anchors, ignored>> /\ runnerBits'[p] = "0700"
      /\ dataRoot' = TRUE /\ "data" \in private' /\ p \in private'
  BY DEF Secure, SecureLayout
<1>3. /\ \A e \in Events : plan[p].config.guard[e] = "good"
      /\ config[p] = plan[p].config
      /\ runner[p] = [mode |-> plan[p].mode, current |-> TRUE]
      /\ anchors \in {"custom", "default"} /\ Required(p) \subseteq ignored
  BY <1>0, <1>1 DEF Begun, Order
<1>4. plan[p].mode \in HookModes \cup {"legacy"} /\ plan[p].config \in Config
  BY <1>0 DEF OneInv, InstallerInv, Kept, Asked, Installing, TypeOK, Idle, Plan
<1>5. runner[p] \in Runner
  BY <1>3, <1>4 DEF Runner
<1>6. ReadConfig(p)'.guard = Good
  <2>1. PICK c \in Config : c = ReadConfig(p)' /\ c = ReadConfig(p) /\ c = plan[p].config
    BY <1>2, <1>3, <1>4, InstallerAssumption DEF ReadConfig
  <2>2. \A e \in AllEvents : c.guard[e] = Good[e]
    BY <1>0, <1>3, <2>1, InstallerAssumption, Configurations DEF OtherEventsFree, AllEvents
  <2>3. c.guard = Good
    BY <2>2, Configurations DEF Config
  <2> QED BY <2>1, <2>3
<1>7. /\ runner'[p] # None /\ RunnerMode(p)' # "unknown"
      /\ ~RunnerChanged(p, RunnerMode(p))'
  <2>1. runner'[p] # None /\ runner'[p] = [mode |-> plan[p].mode, current |-> TRUE]
    BY <1>2, <1>3, <1>5, InstallerAssumption
  <2>2. RunnerMode(p)' = plan[p].mode
    BY <2>1 DEF RunnerMode
  <2>3. plan[p].mode # "unknown"
    BY <1>4 DEF HookModes
  <2> QED BY <2>1, <2>2, <2>3 DEF RunnerChanged
<1>8. anchors' \notin {None, "broken"}
  BY <1>2, <1>3, InstallerAssumption DEF Anchors
<1>9. ~LayoutNeedsUpdate(p)'
  BY <1>2 DEF LayoutNeedsUpdate
<1>10. MissingEntries(p)' = {}
  BY <1>2, <1>3 DEF MissingEntries, Required
<1> QED BY <1>2, <1>6, <1>7, <1>8, <1>9, <1>10 DEF Healthy

(* On one platform whose other events nobody wrote our handlers into:       *)
(* whatever was damaged or left half done before, an installation that ends *)
(* leaves hook-status nothing to complain about.                            *)
THEOREM InstallationRepairs ==
  ASSUME NEW one \in Platforms, Platforms = {one}, "other_events" \notin Damages
  PROVE  Spec => InstallRepairs
<1> DEFINE Repaired ==
      \A p \in Platforms : Doing(p, "finish") /\ "finish" \notin todo'[p]
                             /\ crashes' = crashes => Healthy(p)'
<1>1. ASSUME OneInv, OneInv', [Next]_vars PROVE [Repaired]_vars
  <2> SUFFICES ASSUME NEW p \in Platforms, Doing(p, "finish"), "finish" \notin todo'[p], crashes' = crashes
               PROVE  Healthy(p)'
    OBVIOUS
  <2>1. Secure(p)
    <3>1. todo[p] = {"finish"} /\ crashes \in Nat
      BY <1>1 DEF Doing, Order, OneInv, InstallerInv, TypeOK
    <3>2. Next
      BY <1>1, <3>1 DEF vars
    <3>3. ~Crash(p) /\ ~UserEdit(p) /\ ~Uninstall(p)
          /\ \A mode \in HookModes \cup {None}, source \in {None, "custom"} : ~Install(p, mode, source)
      <4>1. todo[p] # {}
        BY <3>1
      <4>2. ~Crash(p)
        BY <3>1 DEF Crash
      <4>3. ~UserEdit(p) /\ ~Uninstall(p)
            /\ \A mode \in HookModes \cup {None}, source \in {None, "custom"} :
                 ~Install(p, mode, source)
        BY <4>1, Zenon DEF UserEdit, Uninstall, Install, Idle
      <4> QED BY <4>2, <4>3
    <3>4. Step(p)
      BY <3>2, <3>3 DEF Next
    <3> QED BY <3>1, <3>4 DEF Step, Backup, ReadIgnore, WriteIgnore, WriteAnchors, WriteRunner,
                              WriteConfig, Doing
  <2> QED BY <1>1, <2>1, FinishedIsHealthy
<1>2. Spec => []OneInv
  BY OneInvariant
<1> QED BY <1>1, <1>2, PTL DEF Spec, InstallRepairs
=============================================================================
