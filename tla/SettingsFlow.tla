----------------------------- MODULE SettingsFlow -----------------------------
(***************************************************************************)
(* The settings on their way between the manager (src/manager/main.cpp),   *)
(* sidecar.toml and presets.toml (src/common/core/Config.cpp), and the     *)
(* runtime (src/runtime/main.cpp, Pipeline::ApplySettings).                *)
(*                                                                         *)
(* The manager is one thread that draws frames: it polls the status block, *)
(* mirrors a look the runtime reports, saves and sends what is dirty, then *)
(* lets the operator change something.  It alone writes the files.  The    *)
(* runtime reads sidecar.toml when it starts and when it is told to, and   *)
(* steps through the presets on a hotkey without writing anything.         *)
(*                                                                         *)
(* A look is what a preset carries: `build` stands for the settings a      *)
(* running pipeline is rebuilt for (pass, flow grid, depth), `tune` for    *)
(* those it takes live, `split` for the A/B slider.  `rest` stands for all *)
(* other settings the runtime reads.                                       *)
(***************************************************************************)
EXTENDS Integers, Sequences, SequencesExt

CONSTANTS
  Customs,       \* names a custom preset may be given
  Apps,          \* window classes that may be chosen as the target
  None,          \* no name, no window class, no status
  MaxActs,       \* bound of the model: what operator, player and world do
  MaxRefusals    \* bound of the model: file writes that fail to open

ASSUME SettingsAssumption ==
  /\ MaxActs \in Nat
  /\ MaxRefusals \in Nat
  /\ {"Recommended", "Off"} \cap Customs = {}
  /\ None \notin Customs \cup Apps \cup {"Recommended", "Off"}

VARIABLES
  mpc,          \* what the manager does next
  why,          \* what the file is being written for
  config,       \* the manager's Config
  customs,      \* the custom presets, the same in presets.toml
  dirty, lastMirroredPreset, liveApply, noticeAcknowledged,
  live,         \* what the manager polled at the top of the frame
  fileState,    \* of sidecar.toml: absent, truncated for a write, or whole
  file,         \* its content when whole
  phase,        \* of the runtime process
  settings,     \* the runtime's Config, as far as it uses it
  activePreset, \* the name the pipeline reports, Pipeline::activePreset_
  status,       \* the name in the status block
  queued,       \* ReloadSettings messages not yet handled
  answering,    \* the rebuild under way is the answer to one
  acts, refusals,
  agreed,       \* history: the last write of the file was acknowledged
  stepped,      \* history: a hotkey chose the look since the last reload
  unkept        \* history: a write failed where the manager does not look

managerVars == <<config, customs, dirty, lastMirroredPreset, liveApply,
                 noticeAcknowledged, live>>
fileVars == <<fileState, file>>
runtimeVars == <<phase, settings, activePreset, status, queued, answering>>
boundVars == <<acts, refusals>>
historyVars == <<agreed, stepped, unkept>>
vars == <<mpc, why, managerVars, fileVars, runtimeVars, boundVars, historyVars>>

-------------------------------------------------------------------------------
(* Settings and presets.                                                   *)

Names == {"Recommended", "Off"} \cup Customs
Looks == [build : {"direct", "passthrough"}, tune : {"bare", "tuned"}, split : BOOLEAN]
Presets == [name : Names, look : Looks]
Configs == [look : Looks, name : Names, rest : BOOLEAN, app : Apps \cup {None},
            appLooks : [Apps -> Names \cup {None}]]

BareLook == [build |-> "direct", tune |-> "bare", split |-> FALSE]

BuiltinPresets ==
  << [name |-> "Recommended", look |-> [BareLook EXCEPT !.tune = "tuned"]],
     [name |-> "Off", look |-> [BareLook EXCEPT !.build = "passthrough"]] >>

AllPresets == BuiltinPresets \o customs

\* A Config nobody has written to.
Defaults == [look |-> BareLook, name |-> "Recommended", rest |-> FALSE,
             app |-> None, appLooks |-> [a \in Apps |-> None]]

ApplyPreset(p, c) == [c EXCEPT !.look = p.look, !.name = p.name]

\* The split is not compared, and a look without a pass has nothing else.
PresetMatches(p, look) ==
  /\ p.look.build = look.build
  /\ look.build = "passthrough" \/ p.look.tune = look.tune

Named(presets, n) == SelectInSeq(presets, LAMBDA p : p.name = n)
Matching(presets, look) == SelectInSeq(presets, LAMBDA p : PresetMatches(p, look))

RememberLookForApp(c) ==
  IF c.app = None THEN c ELSE [c EXCEPT !.appLooks[c.app] = c.name]

\* What the runtime uses of a Config.
Used(c) == [look |-> c.look, name |-> c.name, rest |-> c.rest]

\* What LoadConfig can make of the file: nothing of one that is not there, and
\* of one that is being written any beginning of it.
Beginning(c) == [Defaults EXCEPT !.look.build = c.look.build, !.name = c.name,
                                 !.rest = c.rest, !.app = c.app]
LoadConfig ==
  IF fileState = "whole" THEN {file}
  ELSE {Defaults} \cup {Beginning(config) : torn \in {"torn"} \cap {fileState}}

HasWindow == phase \in {"serving", "rebuilding"}
Idle == mpc \in {"draw", "ui"}

\* A first run starts on the default look; later ones on what the file holds.
FirstRun == ApplyPreset(BuiltinPresets[1], Defaults)
Init ==
  /\ \/ /\ config = FirstRun /\ file = Defaults
        /\ fileState = "absent" /\ noticeAcknowledged = FALSE
     \/ /\ \E a \in Apps : config = [FirstRun EXCEPT !.app = a] /\ file = config
        /\ fileState = "whole" /\ noticeAcknowledged = TRUE
  /\ customs = << >>
  /\ mpc = "top" /\ why = "keep"
  /\ dirty = FALSE /\ lastMirroredPreset = config.name /\ liveApply = TRUE
  /\ live = [running |-> FALSE, preset |-> None]
  /\ phase = "off" /\ settings = Used(Defaults) /\ activePreset = "Recommended"
  /\ status = None /\ queued = 0 /\ answering = FALSE
  /\ acts = 0 /\ refusals = 0
  /\ agreed = FALSE /\ stepped = FALSE /\ unkept = FALSE

-------------------------------------------------------------------------------
(* The manager's frame.                                                    *)

\* PollLiveState.
Polled == [running |-> HasWindow, preset |-> IF HasWindow THEN status ELSE None]

\* A look the manager has not mirrored yet, is not on, and has a preset for.
Mirrors(n) ==
  /\ n \notin {None, lastMirroredPreset, config.name}
  /\ Named(AllPresets, n) # 0

Poll ==
  /\ mpc = "top"
  /\ live' = Polled
  /\ lastMirroredPreset' = IF Polled.preset = None THEN lastMirroredPreset ELSE Polled.preset
  /\ IF Mirrors(Polled.preset)
     THEN /\ config' = ApplyPreset(AllPresets[Named(AllPresets, Polled.preset)], config)
          /\ mpc' = "open" /\ why' = "mirror"
     ELSE mpc' = "draw" /\ UNCHANGED <<config, why>>
  /\ UNCHANGED <<customs, dirty, liveApply, noticeAcknowledged, fileVars, runtimeVars,
                 boundVars, historyVars>>

\* The Tuning page, where it is drawn, also derives the base pass and the
\* per-pass switch anew, without marking the change: nothing set is lost by it
\* (Shown in SettingsCodec).
EndFrame ==
  /\ Idle
  /\ mpc' = "top"
  /\ UNCHANGED <<why, managerVars, fileVars, runtimeVars, boundVars, historyVars>>

\* Where the frame goes on after a write.
Resume == IF why = "mirror" THEN "draw"
          ELSE IF why = "live" THEN "ui"
          ELSE IF why = "launch" THEN "launch"
          ELSE "top"

Saving == why \in {"live", "save", "launch"}

\* Mutant: a save whose file did not open clears the mark.
RefuseFileSilently ==
  /\ mpc = "open" /\ refusals < MaxRefusals
  /\ refusals' = refusals + 1 /\ dirty' = FALSE /\ unkept' = (unkept \/ ~Saving)
  /\ mpc' = Resume
  /\ UNCHANGED <<why, config, customs, lastMirroredPreset, liveApply, noticeAcknowledged,
                 live, fileVars, runtimeVars, acts, agreed, stepped>>

\* SaveConfig could not open the file.  Only save() looks at that.
RefuseFile ==
  /\ mpc = "open" /\ refusals < MaxRefusals
  /\ refusals' = refusals + 1
  /\ dirty' = (dirty /\ why # "mirror")
  /\ unkept' = (unkept \/ ~Saving)
  /\ mpc' = Resume
  /\ UNCHANGED <<why, config, customs, lastMirroredPreset, liveApply, noticeAcknowledged,
                 live, fileVars, runtimeVars, acts, agreed, stepped>>

\* Opening truncates it.
OpenFile ==
  /\ mpc = "open"
  /\ mpc' = "write" /\ fileState' = "torn" /\ agreed' = FALSE
  /\ UNCHANGED <<why, managerVars, file, runtimeVars, boundVars, stepped, unkept>>

\* Mutant: a save that worked leaves the mark.
WriteFileStaysDirty ==
  /\ mpc = "write"
  /\ fileState' = "whole" /\ file' = config /\ unkept' = FALSE
  /\ mpc' = IF Saving THEN "send" ELSE Resume
  /\ UNCHANGED <<why, config, customs, dirty, lastMirroredPreset, liveApply,
                 noticeAcknowledged, live, runtimeVars, boundVars, agreed, stepped>>

WriteFile ==
  /\ mpc = "write"
  /\ fileState' = "whole" /\ file' = config
  /\ dirty' = (dirty /\ ~Saving /\ why # "mirror")
  /\ unkept' = FALSE
  /\ mpc' = IF Saving THEN "send" ELSE Resume
  /\ UNCHANGED <<why, config, customs, lastMirroredPreset, liveApply, noticeAcknowledged,
                 live, runtimeVars, boundVars, agreed, stepped>>

\* control::IsRunning and control::Send: no window, no command.
SendReload ==
  /\ mpc = "send"
  /\ IF HasWindow
     THEN mpc' = "wait" /\ queued' = queued + 1
     ELSE mpc' = Resume /\ UNCHANGED queued
  /\ UNCHANGED <<why, managerVars, fileVars, phase, settings, activePreset, status,
                 answering, boundVars, historyVars>>

Acknowledged ==
  /\ mpc = "wait" /\ HasWindow /\ queued = 0 /\ ~answering
  /\ mpc' = Resume /\ agreed' = TRUE
  /\ UNCHANGED <<why, managerVars, fileVars, runtimeVars, boundVars, stepped, unkept>>

\* Mutant: the message is sent without a time limit.
GiveUpOnlyUnowned ==
  /\ mpc = "wait" /\ ~HasWindow
  /\ mpc' = Resume
  /\ UNCHANGED <<why, managerVars, fileVars, runtimeVars, boundVars, historyVars>>

\* Two seconds passed while the owner thread rebuilds, or the window is gone.
GiveUp ==
  /\ mpc = "wait" /\ phase # "serving"
  /\ mpc' = Resume
  /\ UNCHANGED <<why, managerVars, fileVars, runtimeVars, boundVars, historyVars>>

\* Nothing is being dragged or typed into.
LiveApply ==
  /\ mpc = "draw" /\ liveApply /\ dirty /\ live.running
  /\ config' = RememberLookForApp(config)
  /\ mpc' = "open" /\ why' = "live"
  /\ UNCHANGED <<customs, dirty, lastMirroredPreset, liveApply, noticeAcknowledged, live,
                 fileVars, runtimeVars, boundVars, historyVars>>

\* ShellExecute.  A second process would find the first one's window and exit.
Launch ==
  /\ mpc = "launch"
  /\ mpc' = "top"
  /\ phase' = IF phase = "off" THEN "launched" ELSE phase
  /\ UNCHANGED <<why, managerVars, fileVars, settings, activePreset, status, queued,
                 answering, boundVars, historyVars>>

-------------------------------------------------------------------------------
(* What the operator does in a frame.                                      *)

Act == acts < MaxActs /\ acts' = acts + 1

\* Everything but the notice is disabled until the notice is acknowledged.
Operate ==
  /\ Idle /\ noticeAcknowledged /\ Act
  /\ UNCHANGED <<lastMirroredPreset, noticeAcknowledged, live, fileVars, runtimeVars,
                 refusals, historyVars>>

\* A control that changes the configuration and marks it.
Marks == dirty' = TRUE /\ mpc' = "top" /\ UNCHANGED <<why, liveApply>>

EditLook ==
  /\ Operate /\ Marks
  /\ \E b \in {"direct", "passthrough"}, t \in {"bare", "tuned"} :
       config' = [config EXCEPT !.look.build = b, !.look.tune = t]
  /\ config' # config
  /\ UNCHANGED customs

EditRest ==
  /\ Operate /\ Marks
  /\ config' = [config EXCEPT !.rest = ~ @]
  /\ UNCHANGED customs

\* A row of the list that is not the selected one, or "Reset look".
ChoosePreset ==
  /\ Operate /\ Marks
  /\ \E i \in 1 .. Len(AllPresets) :
       /\ i = 1 \/ i # Matching(AllPresets, config.look)
       /\ config' = ApplyPreset(AllPresets[i], config)
  /\ UNCHANGED customs

\* Mutant: a preset of that name is not replaced.
SavePresetAppending ==
  /\ Operate /\ Marks
  /\ \E n \in Customs :
       /\ customs' = Append(customs, [name |-> n, look |-> config.look])
       /\ config' = [config EXCEPT !.name = n]

\* The current look becomes the custom preset n, a new one or one replaced.
SavePreset ==
  /\ Operate /\ Marks
  /\ \E n \in Customs :
       LET i == Named(customs, n)
           saved == [name |-> n, look |-> config.look]
       IN /\ customs' = IF i = 0 THEN Append(customs, saved) ELSE ReplaceAt(customs, i, saved)
          /\ config' = [config EXCEPT !.name = n]

DeletePreset ==
  /\ Operate
  /\ \E i \in 1 .. Len(customs) : customs' = RemoveAt(customs, i)
  /\ mpc' = "top"
  /\ UNCHANGED <<why, config, dirty, liveApply>>

ToggleLiveApply ==
  /\ Operate
  /\ liveApply' = ~ liveApply /\ mpc' = "top"
  /\ UNCHANGED <<why, config, customs, dirty>>

\* The A/B slider saves at once.
SlideSplit ==
  /\ Operate /\ live.preset # None
  /\ config' = RememberLookForApp([config EXCEPT !.look.split = ~ @])
  /\ dirty' = TRUE /\ mpc' = "open" /\ why' = "save"
  /\ UNCHANGED <<customs, liveApply>>

PressSave ==
  /\ Operate /\ dirty
  /\ config' = RememberLookForApp(config)
  /\ mpc' = "open" /\ why' = "save"
  /\ UNCHANGED <<customs, dirty, liveApply>>

\* Choosing a window brings its look back, and writes the file without sending.
ChooseTarget ==
  /\ Operate /\ ~live.running
  /\ \E a \in Apps :
       LET chosen == [config EXCEPT !.app = a]
           i == Named(AllPresets, chosen.appLooks[a])
       IN config' = IF i # 0 /\ chosen.appLooks[a] # config.name
                    THEN ApplyPreset(AllPresets[i], chosen)
                    ELSE chosen
  /\ mpc' = "open" /\ why' = "keep"
  /\ UNCHANGED <<customs, dirty, liveApply>>

\* The log page writes the file and marks the change for the next save too.
ToggleLogging ==
  /\ Operate
  /\ config' = [config EXCEPT !.rest = ~ @]
  /\ dirty' = TRUE /\ mpc' = "open" /\ why' = "keep"
  /\ UNCHANGED <<customs, liveApply>>

\* "Advanced tuning" is the manager's own: it writes the file and marks nothing.
ToggleAdvanced ==
  /\ Operate
  /\ mpc' = "open" /\ why' = "keep"
  /\ UNCHANGED <<config, customs, dirty, liveApply>>

StartOverlay ==
  /\ Operate /\ ~live.running /\ config.app # None
  /\ IF dirty
     THEN config' = RememberLookForApp(config) /\ mpc' = "open" /\ why' = "launch"
     ELSE mpc' = "launch" /\ UNCHANGED <<config, why>>
  /\ UNCHANGED <<customs, dirty, liveApply>>

AcknowledgeNotice ==
  /\ Idle /\ ~noticeAcknowledged
  /\ noticeAcknowledged' = TRUE
  /\ mpc' = "open" /\ why' = "keep"
  /\ UNCHANGED <<config, customs, dirty, lastMirroredPreset, liveApply, live, fileVars,
                 runtimeVars, boundVars, historyVars>>

\* The manager is closed and opened again; the file is whole between frames.
Reopen ==
  /\ Idle /\ fileState = "whole" /\ Act
  /\ config' = file /\ lastMirroredPreset' = file.name
  /\ dirty' = FALSE /\ liveApply' = TRUE /\ mpc' = "top"
  /\ live' = [running |-> FALSE, preset |-> None]
  /\ noticeAcknowledged' = TRUE /\ unkept' = FALSE
  /\ UNCHANGED <<why, customs, fileVars, runtimeVars, refusals, agreed, stepped>>

-------------------------------------------------------------------------------
(* The runtime.                                                            *)

UsesOf(next) == settings' = Used(next)

\* Up to Pipeline::Create.  Without a target there is nothing to run.
LoadSettings ==
  /\ phase = "launched"
  /\ \E c \in LoadConfig :
       IF c.app = None
       THEN phase' = "off" /\ UNCHANGED <<settings, activePreset>>
       ELSE phase' = "loaded" /\ UsesOf(c) /\ activePreset' = c.name
  /\ stepped' = FALSE
  /\ UNCHANGED <<mpc, why, managerVars, fileVars, status, queued, answering, boundVars,
                 agreed, unkept>>

\* ControlServer::Create, with a blank status block, and Pipeline::Start.
OpenChannel ==
  /\ phase = "loaded"
  /\ phase' = "serving" /\ status' = None
  /\ UNCHANGED <<mpc, why, managerVars, fileVars, settings, activePreset, queued, answering,
                 boundVars, historyVars>>

\* The render thread, about once a second.
PublishStatus ==
  /\ phase = "serving"
  /\ status' = activePreset
  /\ UNCHANGED <<mpc, why, managerVars, fileVars, phase, settings, activePreset, queued,
                 answering, boundVars, historyVars>>

\* Mutant: a rebuild is made from the settings before.
ApplyConfigLiveOnly(next, reload) ==
  IF next.look.build = settings.look.build
  THEN UsesOf(next) /\ activePreset' = next.name /\ UNCHANGED <<phase, answering>>
  ELSE /\ phase' = "rebuilding" /\ answering' = reload
       /\ UNCHANGED <<settings, activePreset>>

\* applyConfig: ApplySettings takes the new settings live and the new name with
\* them, or leaves before that and RebuildAndRestart builds from them.
ApplyConfig(next, reload) ==
  /\ UsesOf(next)
  /\ IF next.look.build = settings.look.build
     THEN activePreset' = next.name /\ UNCHANGED <<phase, answering>>
     ELSE phase' = "rebuilding" /\ answering' = reload /\ UNCHANGED activePreset

HandleReload ==
  /\ phase = "serving" /\ queued > 0
  /\ queued' = queued - 1
  /\ \E c \in LoadConfig : ApplyConfig(c, TRUE)
  /\ stepped' = FALSE
  /\ UNCHANGED <<mpc, why, managerVars, fileVars, status, boundVars, agreed, unkept>>

\* Mutant: stepping back stops at the first preset.
PresetAfterUnwrapped(presets, used, direction) ==
  LET byName == Named(presets, used.name)
      current == IF byName # 0 THEN byName ELSE Matching(presets, used.look)
      n == Len(presets)
  IN IF current = 0 THEN presets[1]
     ELSE IF direction > 0 THEN presets[(current % n) + 1]
     ELSE presets[IF current = 1 THEN 1 ELSE current - 1]

\* The preset a hotkey steps to: by the name that is on, then by the look.
PresetAfter(presets, used, direction) ==
  LET byName == Named(presets, used.name)
      current == IF byName # 0 THEN byName ELSE Matching(presets, used.look)
      n == Len(presets)
  IN IF current = 0 THEN presets[1]
     ELSE IF direction > 0 THEN presets[(current % n) + 1]
     ELSE presets[((current + n - 2) % n) + 1]

StepPreset ==
  /\ phase = "serving" /\ Act
  /\ \E direction \in {1, -1} :
       ApplyConfig(ApplyPreset(PresetAfter(AllPresets, settings, direction), settings), FALSE)
  /\ stepped' = TRUE
  /\ UNCHANGED <<mpc, why, managerVars, fileVars, status, queued, refusals, agreed, unkept>>

FinishRebuild ==
  /\ phase = "rebuilding"
  /\ phase' = "serving" /\ answering' = FALSE
  /\ UNCHANGED <<mpc, why, managerVars, fileVars, settings, activePreset, status, queued,
                 boundVars, historyVars>>

\* Stopped by the manager, panicked, its app closed, or not rebuilt.
Exit ==
  /\ phase # "off" /\ Act
  /\ phase' = "off" /\ status' = None /\ queued' = 0 /\ answering' = FALSE
  /\ agreed' = FALSE
  /\ UNCHANGED <<mpc, why, managerVars, fileVars, settings, activePreset, refusals,
                 stepped, unkept>>

-------------------------------------------------------------------------------

ManagerStep == Poll \/ EndFrame \/ OpenFile \/ RefuseFile \/ WriteFile \/ SendReload
               \/ Acknowledged \/ GiveUp \/ Launch
OperatorStep == EditLook \/ EditRest \/ ChoosePreset \/ SavePreset \/ DeletePreset
                \/ ToggleLiveApply \/ SlideSplit \/ PressSave \/ ChooseTarget
                \/ ToggleLogging \/ ToggleAdvanced \/ StartOverlay
                \/ AcknowledgeNotice \/ Reopen
Settle == LoadSettings \/ OpenChannel \/ HandleReload
RuntimeStep == Settle \/ PublishStatus \/ StepPreset \/ FinishRebuild \/ Exit

Next == ManagerStep \/ LiveApply \/ OperatorStep \/ RuntimeStep

\* The manager draws frames as long as it is open, and nobody drags a slider
\* forever.  The runtime pumps its messages, but a rebuild may hang in a driver.
Fairness ==
  /\ WF_vars(ManagerStep)
  /\ SF_vars(LiveApply)
  /\ WF_vars(Settle)
  /\ WF_vars(PublishStatus)

Spec == Init /\ [][Next]_vars /\ Fairness

-------------------------------------------------------------------------------
(* Properties.                                                             *)

\* The variables hold what the code's types and the two files can hold.
TypeOK ==
  /\ mpc \in {"top", "draw", "ui", "open", "write", "send", "wait", "launch"}
  /\ why \in {"mirror", "live", "save", "launch", "keep"}
  /\ config \in Configs /\ file \in Configs
  /\ customs \in Seq(Presets)
  /\ dirty \in BOOLEAN /\ liveApply \in BOOLEAN /\ noticeAcknowledged \in BOOLEAN
  /\ lastMirroredPreset \in Names
  /\ live \in [running : BOOLEAN, preset : Names \cup {None}]
  /\ fileState \in {"absent", "torn", "whole"}
  /\ phase \in {"off", "launched", "loaded", "serving", "rebuilding"}
  /\ settings \in [look : Looks, name : Names, rest : BOOLEAN]
  /\ activePreset \in Names /\ status \in Names \cup {None}
  /\ queued \in Nat /\ answering \in BOOLEAN
  /\ acts \in 0 .. MaxActs /\ refusals \in 0 .. MaxRefusals
  /\ agreed \in BOOLEAN /\ stepped \in BOOLEAN /\ unkept \in BOOLEAN

\* When the manager shows no unsaved changes, the file holds its configuration:
\* nothing the operator sees is lost with the manager.  The exceptions are the
\* writes whose result the manager does not look at.
CleanMeansSaved ==
  Idle /\ noticeAcknowledged /\ ~dirty /\ ~unkept => fileState = "whole" /\ file = config

\* Settings the runtime acknowledged are the settings it runs on, until a hotkey
\* changes the look or the file is written again: the answer comes after
\* ReloadSettings has read the file and applied all of it.
AcknowledgedMeansApplied ==
  agreed /\ ~stepped => fileState = "whole" /\ settings = Used(file)

\* No two presets share a name, so that a name the runtime reports, or a window
\* remembers, means one look.
NamesAreUnique ==
  \A i, j \in 1 .. Len(AllPresets) : AllPresets[i].name = AllPresets[j].name => i = j

\* The other hotkey undoes a step, wherever in the list the look is.
StepsAreUndone ==
  \A d \in {1, -1} :
    LET there == PresetAfter(AllPresets, settings, d)
        back == PresetAfter(AllPresets, Used(ApplyPreset(there, settings)), -d)
    IN Named(AllPresets, settings.name) # 0 => back.name = settings.name

\* A runtime that hangs in a rebuild does not freeze the manager with it.
ManagerResponds == []<>(mpc = "top")

\* While the overlay runs and changes are applied live, no change stays unsaved.
LiveChangesAreSaved == dirty /\ liveApply ~> ~dirty \/ ~liveApply \/ ~HasWindow

-------------------------------------------------------------------------------
(* What documents say and the code does not do.                            *)

\* "The preset the runtime last applied, by name -- from the config at launch, or
\* from a hotkey since": the name reported is that of the settings it runs on.
StatusNamesSettings == phase = "serving" => activePreset = settings.name
===============================================================================
