-------------------------- MODULE PipelineLifecycle --------------------------
(***************************************************************************)
(* Starting, stopping and rebuilding the pipeline: the owner thread        *)
(* (src/runtime/main.cpp, the message loop and what it calls) and the      *)
(* render thread (Pipeline::RenderLoop), which talk through four atomic    *)
(* flags, the windows the owner thread owns and a panic hotkey that is     *)
(* registered on the render thread.                                        *)
(*                                                                         *)
(* The world acts on both: it sends commands and hotkeys, moves the        *)
(* foreground, loses the graphics device, makes the neural pass refuse a   *)
(* frame, closes the captured window, and presses the panic hotkey.  What  *)
(* a frame goes through is in DeviceBridge; here a frame is one step.      *)
(***************************************************************************)
EXTENDS Integers

CONSTANTS
  kAttempts,   \* tries of RebuildAndRestart; 5 in the code
  MaxEvents    \* bound of the model: things the world does to the process

ASSUME LifecycleAssumption == kAttempts \in Nat \ {0} /\ MaxEvents \in Nat

VARIABLES
  \* The owner thread.
  opc,               \* what it does next
  caller,            \* who called Stop: the reload handler, the loop, the exit
  attempt,           \* failed tries of this RebuildAndRestart
  reload,            \* the settings ApplySettings is merging
  boxOpen,           \* the "could not be rebuilt" message box is up
  quitPosted,        \* WM_QUIT is in the queue
  exitReason,
  \* The render thread.
  rpc,               \* what it does next; "none": there is no thread to join
  panicPending,      \* WM_HOTKEY waits in its queue
  \* Pipeline: the atomics and what only the owner thread uses.
  stopRequested, running, rebuildRequested, targetLost,
  overlayVisible, hudVisible, gameFocused, paused, overlayInteractive,
  configPass,        \* config_.neuralPass
  \* Pipeline::dev_ and the objects in it.
  built,             \* dev_ holds its objects
  runPass,           \* the pass dev_.pass really is
  overlay,           \* DCompOverlay: its window
  hudShown,          \* Hud: its window is visible
  capturing,         \* WgcSource delivers frames
  dropSink,          \* the Pipeline the capture's drop callback records into
  \* The world.
  deviceLost, windowAlive,
  events,            \* events so far
  panicked,          \* history: Panic() ran
  rejected           \* history: a pass was rejected, no settings applied since

ownerVars == <<opc, caller, attempt, reload, boxOpen, quitPosted, exitReason>>
renderVars == <<rpc, panicPending>>
flagVars == <<stopRequested, running, rebuildRequested, targetLost>>
intentVars == <<overlayVisible, hudVisible, gameFocused>>
windowVars == <<overlay, hudShown>>
viewVars == <<intentVars, windowVars, paused, overlayInteractive>>
devVars == <<built, runPass, capturing, dropSink>>
worldVars == <<deviceLost, windowAlive, events>>
historyVars == <<panicked, rejected>>
vars == <<ownerVars, renderVars, flagVars, viewVars, configPass, devVars,
          worldVars, historyVars>>

\* A window of DCompOverlay::Create: hidden and click-through.
NewOverlay == [shown |-> FALSE, interactive |-> FALSE, hidePosted |-> FALSE]

\* main has created the pipeline and the control channel and calls Start.
Init ==
  /\ opc = "start" /\ caller = "loop" /\ attempt = 0
  /\ reload = [pass |-> "direct", structural |-> FALSE]
  /\ boxOpen = FALSE /\ quitPosted = FALSE /\ exitReason = "none"
  /\ rpc = "none" /\ panicPending = FALSE
  /\ stopRequested = FALSE /\ running = FALSE
  /\ rebuildRequested = FALSE /\ targetLost = FALSE
  /\ overlayVisible \in BOOLEAN /\ hudVisible \in BOOLEAN
  /\ gameFocused = TRUE /\ paused = FALSE /\ overlayInteractive = FALSE
  /\ configPass = "direct" /\ runPass \in {"direct", "passthrough"}
  /\ built = TRUE /\ capturing = FALSE /\ dropSink = "running"
  /\ overlay = NewOverlay /\ hudShown = FALSE
  /\ deviceLost = FALSE /\ windowAlive = TRUE /\ events = 0
  /\ panicked = FALSE /\ rejected = FALSE

\* The world does one more thing.
Event == events < MaxEvents /\ events' = events + 1

-------------------------------------------------------------------------------
(* The windows.                                                            *)

\* ApplyVisibility, with the intents and the focus as they are after the
\* caller's own assignments.
ApplyVisibility ==
  LET show == overlayVisible' /\ gameFocused'
  IN  /\ paused' = ~show
      /\ IF ~built THEN UNCHANGED windowVars
         ELSE /\ overlay' = [overlay EXCEPT !.shown = show]
              /\ hudShown' = (hudVisible' /\ gameFocused')

\* DCompOverlay::Hide on the thread that does not own the window.
PostHide == overlay' = [overlay EXCEPT !.hidePosted = TRUE]

-------------------------------------------------------------------------------
(* The owner thread: Start.                                                *)

\* Start, up to capture.  Its early return, a thread to join, cannot be
\* taken: main starts once and RebuildAndRestart stops first.
BeginStart ==
  /\ opc = "start"
  /\ opc' = "spawn"
  /\ stopRequested' = FALSE
  /\ running' = TRUE
  /\ capturing' = TRUE
  /\ UNCHANGED <<caller, attempt, reload, boxOpen, quitPosted, exitReason,
                 renderVars, rebuildRequested, targetLost, viewVars,
                 configPass, built, runPass, dropSink, worldVars, historyVars>>

\* Mutant: configure mode is restored with the visibility.
SpawnKeepingConfigureMode ==
  /\ opc = "spawn"
  /\ opc' = "started"
  /\ gameFocused' \in BOOLEAN
  /\ UNCHANGED <<overlayVisible, hudVisible, overlayInteractive>>
  /\ ApplyVisibility
  /\ rpc' = "loop"
  /\ UNCHANGED <<caller, attempt, reload, boxOpen, quitPosted, exitReason,
                 panicPending, flagVars, configPass, devVars, worldVars,
                 historyVars>>

\* Start, the rest: focus from whatever has the foreground, configure mode
\* off, the windows reconciled, and the render thread.
SpawnRenderThread ==
  /\ opc = "spawn"
  /\ opc' = "started"
  /\ gameFocused' \in BOOLEAN
  /\ overlayInteractive' = FALSE
  /\ UNCHANGED <<overlayVisible, hudVisible>>
  /\ ApplyVisibility
  /\ rpc' = "loop"
  /\ UNCHANGED <<caller, attempt, reload, boxOpen, quitPosted, exitReason,
                 panicPending, flagVars, configPass, devVars, worldVars,
                 historyVars>>

\* Mutant: the request is cleared after the restart instead of before it.
ReturnClearingRequest ==
  /\ opc = "started"
  /\ opc' = "pump"
  /\ rebuildRequested' = FALSE
  /\ UNCHANGED <<caller, attempt, reload, boxOpen, quitPosted, exitReason,
                 renderVars, stopRequested, running, targetLost, viewVars,
                 configPass, devVars, worldVars, historyVars>>

\* Start returns to main or to RebuildAndRestart, and both end up pumping.
ReturnToPump ==
  /\ opc = "started"
  /\ opc' = "pump"
  /\ UNCHANGED <<caller, attempt, reload, boxOpen, quitPosted, exitReason,
                 renderVars, flagVars, viewVars, configPass, devVars,
                 worldVars, historyVars>>

-------------------------------------------------------------------------------
(* The owner thread: Stop and RebuildAndRestart.                           *)

\* Mutant: Stop joins a thread it did not ask to stop.
RequestNothing ==
  /\ opc = "stop"
  /\ opc' = "join"
  /\ UNCHANGED <<caller, attempt, reload, boxOpen, quitPosted, exitReason,
                 renderVars, flagVars, viewVars, configPass, devVars,
                 worldVars, historyVars>>

\* Stop asks the render loop to end.
RequestStop ==
  /\ opc = "stop"
  /\ opc' = "join"
  /\ stopRequested' = TRUE
  /\ UNCHANGED <<caller, attempt, reload, boxOpen, quitPosted, exitReason,
                 renderVars, running, rebuildRequested, targetLost, viewVars,
                 configPass, devVars, worldVars, historyVars>>

\* Mutant: Stop does not wait for the thread.
DetachRenderThread ==
  /\ opc = "join"
  /\ opc' = "halt"
  /\ UNCHANGED <<caller, attempt, reload, boxOpen, quitPosted, exitReason,
                 renderVars, flagVars, viewVars, configPass, devVars,
                 worldVars, historyVars>>

\* Stop joins it, if there is one.  Nothing is pumped meanwhile.
JoinRenderThread ==
  /\ opc = "join"
  /\ rpc \in {"none", "over"}
  /\ rpc' = "none"
  /\ opc' = "halt"
  /\ UNCHANGED <<caller, attempt, reload, boxOpen, quitPosted, exitReason,
                 panicPending, flagVars, viewVars, configPass, devVars,
                 worldVars, historyVars>>

\* Stop closes the capture, drains the GPU and hides both windows.  At the
\* exit the pipeline is destroyed next, and the process ends.
Halt ==
  /\ opc = "halt"
  /\ opc' = IF caller = "exit" THEN "exited" ELSE "attempt"
  /\ built' = (built /\ caller # "exit")
  /\ capturing' = FALSE
  /\ overlay' = [overlay EXCEPT !.shown = FALSE]
  /\ hudShown' = FALSE
  /\ running' = FALSE
  /\ UNCHANGED <<caller, attempt, reload, boxOpen, quitPosted, exitReason,
                 renderVars, stopRequested, rebuildRequested, targetLost,
                 intentVars, paused, overlayInteractive, configPass, runPass,
                 dropSink, worldVars, historyVars>>

\* Rebuild, first half: everything dev_ holds is destroyed, the windows too.
DestroyDevice ==
  /\ opc = "attempt"
  /\ opc' = "create"
  /\ built' = FALSE
  /\ overlay' = NewOverlay
  /\ hudShown' = FALSE
  /\ UNCHANGED <<caller, attempt, reload, boxOpen, quitPosted, exitReason,
                 renderVars, flagVars, intentVars, paused, overlayInteractive,
                 configPass, runPass, capturing, dropSink, worldVars,
                 historyVars>>

\* Rebuild, second half: a temporary Pipeline is created and its dev_ moved
\* here.  Its drop callback still holds the temporary, destroyed on return.
\* RebuildAndRestart then lowers the request and starts.
CreateSucceeds ==
  /\ opc = "create"
  /\ windowAlive
  /\ opc' = "start"
  /\ attempt' = 0
  /\ built' = TRUE
  /\ overlay' = NewOverlay
  /\ runPass' \in {configPass, "passthrough"}
  /\ dropSink' = "destroyed"
  /\ deviceLost' = FALSE
  /\ rebuildRequested' = FALSE
  /\ UNCHANGED <<caller, reload, boxOpen, quitPosted, exitReason, renderVars,
                 stopRequested, running, targetLost, intentVars, hudShown,
                 paused, overlayInteractive, configPass, capturing,
                 windowAlive, events, historyVars>>

\* ... or it is not: no window to capture, or no device yet.
CreateFails ==
  /\ opc = "create"
  /\ attempt + 1 < kAttempts
  /\ opc' = "attempt"
  /\ attempt' = attempt + 1
  /\ UNCHANGED <<caller, reload, boxOpen, quitPosted, exitReason, renderVars,
                 flagVars, viewVars, configPass, devVars, worldVars,
                 historyVars>>

\* The last try fails.  The reload handler posts WM_QUIT and goes on pumping;
\* the loop puts up a message box, which pumps until it is dismissed.
GiveUp ==
  /\ opc = "create"
  /\ attempt + 1 = kAttempts
  /\ opc' = "pump"
  /\ attempt' = 0
  /\ quitPosted' = (quitPosted \/ caller = "reload")
  /\ boxOpen' = (boxOpen \/ caller = "loop")
  /\ UNCHANGED <<caller, reload, exitReason, renderVars, flagVars, viewVars,
                 configPass, devVars, worldVars, historyVars>>

-------------------------------------------------------------------------------
(* The owner thread: one message of the queue.                             *)

\* The window manager carries out a hide the render thread posted.
CarryOutHide ==
  /\ opc = "pump"
  /\ overlay.hidePosted
  /\ overlay' = [overlay EXCEPT !.shown = FALSE, !.hidePosted = FALSE]
  /\ UNCHANGED <<ownerVars, renderVars, flagVars, intentVars, hudShown, paused,
                 overlayInteractive, configPass, devVars, worldVars,
                 historyVars>>

\* SetOverlayVisible or SetHudVisible, from a command or a hotkey.
ChangeIntent ==
  /\ opc = "pump"
  /\ Event
  /\ \/ overlayVisible' = ~overlayVisible /\ UNCHANGED hudVisible
     \/ hudVisible' = ~hudVisible /\ UNCHANGED overlayVisible
  /\ UNCHANGED gameFocused
  /\ ApplyVisibility
  /\ UNCHANGED <<ownerVars, renderVars, flagVars, overlayInteractive,
                 configPass, devVars, deviceLost, windowAlive, historyVars>>

\* Mutant: the focus is noted and the windows are left as they are.
NoteForeground ==
  /\ opc = "pump"
  /\ Event
  /\ gameFocused' = ~gameFocused
  /\ UNCHANGED <<ownerVars, renderVars, flagVars, overlayVisible, hudVisible,
                 windowVars, paused, overlayInteractive, configPass, devVars,
                 deviceLost, windowAlive, historyVars>>

\* OnForegroundChanged; an event that does not change the focus does nothing.
OnForegroundChanged ==
  /\ opc = "pump"
  /\ Event
  /\ gameFocused' = ~gameFocused
  /\ UNCHANGED <<overlayVisible, hudVisible>>
  /\ ApplyVisibility
  /\ UNCHANGED <<ownerVars, renderVars, flagVars, overlayInteractive,
                 configPass, devVars, deviceLost, windowAlive, historyVars>>

\* SetOverlayInteractive(true): shown first, then the window takes input.
EnterConfigMode ==
  /\ opc = "pump"
  /\ Event
  /\ overlayInteractive' = TRUE
  /\ IF ~built THEN UNCHANGED <<intentVars, windowVars, paused>>
     ELSE LET show == overlayVisible
          IN  /\ gameFocused' = TRUE
              /\ UNCHANGED <<overlayVisible, hudVisible>>
              /\ paused' = ~show
              /\ overlay' = [overlay EXCEPT !.shown = show, !.interactive = TRUE]
              /\ hudShown' = hudVisible
  /\ UNCHANGED <<ownerVars, renderVars, flagVars, configPass, devVars,
                 deviceLost, windowAlive, historyVars>>

\* SetOverlayInteractive(false).
ExitConfigMode ==
  /\ opc = "pump"
  /\ Event
  /\ overlayInteractive' = FALSE
  /\ overlay' = IF built THEN [overlay EXCEPT !.interactive = FALSE] ELSE overlay
  /\ UNCHANGED <<ownerVars, renderVars, flagVars, intentVars, hudShown, paused,
                 configPass, devVars, deviceLost, windowAlive, historyVars>>

\* The manager's Stop command: PostQuitMessage.
StopCommand ==
  /\ opc = "pump"
  /\ Event
  /\ quitPosted' = TRUE
  /\ UNCHANGED <<opc, caller, attempt, reload, boxOpen, exitReason, renderVars,
                 flagVars, viewVars, configPass, devVars, deviceLost,
                 windowAlive, historyVars>>

\* ReloadSettings or a preset hotkey: ApplySettings copies config_ and
\* compares.  Another pass is structural; so are other settings.
BeginReload ==
  /\ opc = "pump"
  /\ Event
  /\ opc' = "merge"
  /\ \E pass \in {"direct", "passthrough"}, other \in BOOLEAN :
       reload' = [pass |-> pass, structural |-> other \/ pass # configPass]
  /\ UNCHANGED <<caller, attempt, boxOpen, quitPosted, exitReason, renderVars,
                 flagVars, viewVars, configPass, devVars, deviceLost,
                 windowAlive, historyVars>>

\* ApplySettings stores config_, and what it can take live it takes: here
\* the HUD's visibility.
ApplyLive ==
  /\ opc = "merge"
  /\ ~reload.structural
  /\ opc' = "pump"
  /\ configPass' = reload.pass
  /\ rejected' = FALSE
  /\ UNCHANGED <<overlayVisible, gameFocused>>
  /\ \/ UNCHANGED <<hudVisible, paused, windowVars>>
     \/ hudVisible' = ~hudVisible /\ ApplyVisibility
  /\ UNCHANGED <<caller, attempt, reload, boxOpen, quitPosted, exitReason,
                 renderVars, flagVars, overlayInteractive, devVars, worldVars,
                 panicked>>

\* The rest needs RebuildAndRestart, inside the same message.
ApplyByRebuild ==
  /\ opc = "merge"
  /\ reload.structural
  /\ opc' = "stop"
  /\ caller' = "reload"
  /\ configPass' = reload.pass
  /\ rejected' = FALSE
  /\ UNCHANGED <<attempt, reload, boxOpen, quitPosted, exitReason, renderVars,
                 flagVars, viewVars, devVars, worldVars, panicked>>

-------------------------------------------------------------------------------
(* The owner thread: the loop around the messages.                         *)

\* The exit: a reason, then ~Pipeline, which calls Stop.
Exit(reason) ==
  /\ opc' = "stop"
  /\ caller' = "exit"
  /\ exitReason' = reason

\* WM_QUIT comes out once the posted messages are gone; the loop, or the
\* message box, ends.
TakeQuit ==
  /\ opc = "pump"
  /\ quitPosted
  /\ Exit("stopped by the manager")
  /\ UNCHANGED <<attempt, reload, boxOpen, quitPosted, renderVars, flagVars,
                 viewVars, configPass, devVars, worldVars, historyVars>>

\* The message box is dismissed.
DismissBox ==
  /\ opc = "pump"
  /\ boxOpen
  /\ Exit("the graphics device could not be rebuilt")
  /\ UNCHANGED <<attempt, reload, boxOpen, quitPosted, renderVars, flagVars,
                 viewVars, configPass, devVars, worldVars, historyVars>>

\* The queue is empty.
QueueDrained ==
  /\ opc = "pump"
  /\ ~quitPosted /\ ~boxOpen /\ ~overlay.hidePosted
  /\ opc' = "checkTarget"
  /\ UNCHANGED <<caller, attempt, reload, boxOpen, quitPosted, exitReason,
                 renderVars, flagVars, viewVars, configPass, devVars,
                 worldVars, historyVars>>

CheckTarget ==
  /\ opc = "checkTarget"
  /\ IF targetLost \/ ~windowAlive
     THEN Exit("the app closed")
     ELSE opc' = "checkRebuild" /\ UNCHANGED <<caller, exitReason>>
  /\ UNCHANGED <<attempt, reload, boxOpen, quitPosted, renderVars, flagVars,
                 viewVars, configPass, devVars, worldVars, historyVars>>

CheckRebuild ==
  /\ opc = "checkRebuild"
  /\ IF rebuildRequested
     THEN opc' = "stop" /\ caller' = "loop"
     ELSE opc' = "checkRunning" /\ UNCHANGED caller
  /\ UNCHANGED <<attempt, reload, boxOpen, quitPosted, exitReason, renderVars,
                 flagVars, viewVars, configPass, devVars, worldVars,
                 historyVars>>

\* Mutant: a loop that ended on its own is not noticed.
IgnoreRunning ==
  /\ opc = "checkRunning"
  /\ opc' = "pump"
  /\ UNCHANGED <<caller, exitReason>>
  /\ UNCHANGED <<attempt, reload, boxOpen, quitPosted, renderVars, flagVars,
                 viewVars, configPass, devVars, worldVars, historyVars>>

CheckRunning ==
  /\ opc = "checkRunning"
  /\ IF running
     THEN opc' = "pump" /\ UNCHANGED <<caller, exitReason>>
     ELSE Exit("the render loop stopped")
  /\ UNCHANGED <<attempt, reload, boxOpen, quitPosted, renderVars, flagVars,
                 viewVars, configPass, devVars, worldVars, historyVars>>

-------------------------------------------------------------------------------
(* The render thread.                                                      *)

\* The loop's condition.
TestStop ==
  /\ rpc = "loop"
  /\ rpc' = IF stopRequested THEN "leave" ELSE "pump"
  /\ UNCHANGED <<ownerVars, panicPending, flagVars, viewVars, configPass,
                 devVars, worldVars, historyVars>>

\* PanicSwitch::Pump finds nothing.
PumpNothing ==
  /\ rpc = "pump"
  /\ ~panicPending
  /\ rpc' = "check"
  /\ UNCHANGED <<ownerVars, panicPending, flagVars, viewVars, configPass,
                 devVars, worldVars, historyVars>>

\* PanicSwitch::Pump finds the hotkey: Panic posts the overlay's hide.
Panic ==
  /\ rpc = "pump"
  /\ panicPending
  /\ panicPending' = FALSE
  /\ PostHide
  /\ panicked' = TRUE
  /\ rpc' = "hideHud"
  /\ UNCHANGED <<ownerVars, flagVars, intentVars, hudShown, paused,
                 overlayInteractive, configPass, devVars, worldVars, rejected>>

\* Panic hides the HUD: ShowWindow on another thread's window, which for a
\* visible one does not return before that thread pumps.  The rest follows.
PanicHidesHud ==
  /\ rpc = "hideHud"
  /\ hudShown => opc = "pump"
  /\ hudShown' = FALSE
  /\ overlayInteractive' = FALSE
  /\ stopRequested' = TRUE
  /\ rpc' = "leave"
  /\ UNCHANGED <<ownerVars, panicPending, running, rebuildRequested,
                 targetLost, intentVars, overlay, paused, configPass, devVars,
                 worldVars, historyVars>>

\* GetDeviceRemovedReason: FailAndHide, and ask for a rebuild.
SeeDeviceLost ==
  /\ rpc = "check"
  /\ deviceLost
  /\ PostHide
  /\ rpc' = "request"
  /\ UNCHANGED <<ownerVars, panicPending, flagVars, intentVars, hudShown,
                 paused, overlayInteractive, configPass, devVars, worldVars,
                 historyVars>>

\* rebuildRequested_ is raised and the owner thread woken.
RequestRebuild ==
  /\ rpc = "request"
  /\ rebuildRequested' = TRUE
  /\ rpc' = "leave"
  /\ UNCHANGED <<ownerVars, panicPending, stopRequested, running, targetLost,
                 viewVars, configPass, devVars, worldVars, historyVars>>

\* IsClosed: FailAndHide, and tell the owner.
SeeTargetGone ==
  /\ rpc = "check"
  /\ ~deviceLost /\ ~windowAlive
  /\ PostHide
  /\ targetLost' = TRUE
  /\ rpc' = "leave"
  /\ UNCHANGED <<ownerVars, panicPending, stopRequested, running,
                 rebuildRequested, intentVars, hudShown, paused,
                 overlayInteractive, configPass, devVars, worldVars,
                 historyVars>>

\* Neither: on to the frame.
CheckPasses ==
  /\ rpc = "check"
  /\ ~deviceLost /\ windowAlive
  /\ rpc' = "frame"
  /\ UNCHANGED <<ownerVars, panicPending, flagVars, viewVars, configPass,
                 devVars, worldVars, historyVars>>

\* No frame in time, a frame consumed while paused, or one presented.
FinishFrame ==
  /\ rpc = "frame"
  /\ rpc' = "loop"
  /\ UNCHANGED <<ownerVars, panicPending, flagVars, viewVars, configPass,
                 devVars, worldVars, historyVars>>

\* Mutant: a rejected pass asks for a rebuild but stays configured.
RejectKeepingPass ==
  /\ rpc = "frame"
  /\ ~paused /\ runPass = "direct"
  /\ Event
  /\ UNCHANGED configPass
  /\ rejected' = TRUE
  /\ rpc' = "request"
  /\ UNCHANGED <<ownerVars, panicPending, flagVars, viewVars, devVars,
                 deviceLost, windowAlive, panicked>>

\* The pass rejects the frame: degrade to passthrough and ask for a rebuild.
RejectFrame ==
  /\ rpc = "frame"
  /\ ~paused /\ runPass = "direct"
  /\ Event
  /\ configPass' = "passthrough"
  /\ rejected' = TRUE
  /\ rpc' = "request"
  /\ UNCHANGED <<ownerVars, panicPending, flagVars, viewVars, devVars,
                 deviceLost, windowAlive, panicked>>

\* After the loop the hotkey is unregistered, a press not yet pumped goes.
UnregisterPanic ==
  /\ rpc = "leave"
  /\ panicPending' = FALSE
  /\ rpc' = "clear"
  /\ UNCHANGED <<ownerVars, flagVars, viewVars, configPass, devVars, worldVars,
                 historyVars>>

ClearRunning ==
  /\ rpc = "clear"
  /\ running' = FALSE
  /\ rpc' = "over"
  /\ UNCHANGED <<ownerVars, panicPending, stopRequested, rebuildRequested,
                 targetLost, viewVars, configPass, devVars, worldVars,
                 historyVars>>

-------------------------------------------------------------------------------
(* The world.                                                              *)

\* The device is removed or reset.
LoseDevice ==
  /\ opc # "exited"
  /\ built /\ ~deviceLost
  /\ Event
  /\ deviceLost' = TRUE
  /\ UNCHANGED <<ownerVars, renderVars, flagVars, viewVars, configPass, devVars,
                 windowAlive, historyVars>>

\* The player quits the application.
CloseTarget ==
  /\ opc # "exited"
  /\ windowAlive
  /\ Event
  /\ windowAlive' = FALSE
  /\ UNCHANGED <<ownerVars, renderVars, flagVars, viewVars, configPass, devVars,
                 deviceLost, historyVars>>

\* The panic hotkey, while the render thread has it registered.
PressPanic ==
  /\ rpc \in {"loop", "pump", "check", "frame", "request"}
  /\ ~panicPending
  /\ Event
  /\ panicPending' = TRUE
  /\ UNCHANGED <<ownerVars, rpc, flagVars, viewVars, configPass, devVars,
                 deviceLost, windowAlive, historyVars>>

-------------------------------------------------------------------------------
OwnerStep ==
  \/ BeginStart \/ SpawnRenderThread \/ ReturnToPump
  \/ RequestStop \/ JoinRenderThread \/ Halt
  \/ DestroyDevice \/ CreateSucceeds \/ CreateFails \/ GiveUp
  \/ CarryOutHide \/ ApplyLive \/ ApplyByRebuild
  \/ TakeQuit \/ DismissBox \/ QueueDrained
  \/ CheckTarget \/ CheckRebuild \/ CheckRunning

Message ==
  \/ ChangeIntent \/ OnForegroundChanged \/ EnterConfigMode \/ ExitConfigMode
  \/ StopCommand \/ BeginReload

RenderStep ==
  \/ TestStop \/ PumpNothing \/ Panic \/ PanicHidesHud
  \/ SeeDeviceLost \/ RequestRebuild \/ SeeTargetGone \/ CheckPasses
  \/ FinishFrame \/ UnregisterPanic \/ ClearRunning

World == RejectFrame \/ LoseDevice \/ CloseTarget \/ PressPanic

Next == OwnerStep \/ Message \/ RenderStep \/ World

Spec == Init /\ [][Next]_vars

\* Both threads are scheduled; what the world does is up to it.
FairSpec == Spec /\ WF_vars(OwnerStep) /\ WF_vars(RenderStep)

-------------------------------------------------------------------------------
(* Properties.                                                             *)

RenderLive == rpc \notin {"none", "over"}

\* What the variables may hold.
TypeOK ==
  /\ opc \in {"start", "spawn", "started", "pump", "merge", "stop", "join",
              "halt", "attempt", "create", "checkTarget", "checkRebuild",
              "checkRunning", "exited"}
  /\ caller \in {"loop", "reload", "exit"}
  /\ attempt \in 0 .. kAttempts - 1
  /\ reload \in [pass : {"direct", "passthrough"}, structural : BOOLEAN]
  /\ rpc \in {"none", "loop", "pump", "hideHud", "check", "request", "frame",
              "leave", "clear", "over"}
  /\ {boxOpen, quitPosted, panicPending, stopRequested, running,
      rebuildRequested, targetLost, overlayVisible, hudVisible, gameFocused,
      paused, overlayInteractive, built, hudShown, capturing, deviceLost,
      windowAlive, panicked, rejected} \subseteq BOOLEAN
  /\ overlay \in [shown : BOOLEAN, interactive : BOOLEAN, hidePosted : BOOLEAN]
  /\ {configPass, runPass} \subseteq {"direct", "passthrough"}
  /\ dropSink \in {"running", "destroyed"}
  /\ events \in 0 .. MaxEvents
  /\ exitReason \in {"none", "stopped by the manager", "the app closed",
                     "the graphics device could not be rebuilt",
                     "the render loop stopped"}

\* The render thread never runs without the device state it draws with: dev_
\* is destroyed and replaced only while there is no such thread.
DeviceOutlivesRenderThread == RenderLive => built

\* While the pipeline runs, the status block says configure mode exactly when
\* the overlay takes input, through every rebuild.  Panic is the exception:
\* it lowers the flag only, the window is hidden anyway.
ConfigureModeReported ==
  (opc = "pump" /\ RenderLive /\ ~panicked) =>
    (overlayInteractive = overlay.interactive)

\* A pass the render loop rejected draws no frame until settings are applied
\* again, whatever rebuilds happen in between.
RejectedPassStaysOff == (rejected /\ rpc = "frame") => runPass = "passthrough"

\* The overlay is up only if the operator wants it and the game has focus,
\* and whenever it is up the render loop is fed: an opaque window never shows
\* a picture the loop was told to stop refreshing.
ShownIsWantedAndFed ==
  overlay.shown => (overlayVisible /\ gameFocused /\ ~paused)

\* The owner lowers a rebuild request only while no render thread exists that
\* could have raised it since, so none is wiped unserved.
RequestLoweredUnthreaded ==
  [][(rebuildRequested /\ ~rebuildRequested') => rpc = "none"]_vars

\* The two threads wait on each other: Panic for the owner thread to pump,
\* the owner thread, in Stop, for the render thread.
PanicBlocksJoin == opc = "join" /\ rpc = "hideHud" /\ hudShown

\* No process stays without a render loop: one that ended is followed by a
\* new one or by the exit.
NoProcessWithoutLoop ==
  ~RenderLive ~> (RenderLive \/ opc = "exited")

\* Stop from the manager, and the application closing, end the process; only
\* a panic blocked in Stop's join can keep it.
ProcessEnds ==
  (quitPosted \/ ~windowAlive) ~> (opc = "exited" \/ PanicBlocksJoin)

\* I13: the panic hotkey stops the pipeline.  After Panic there is no new
\* render thread over a shown overlay.
PanicIsFinal == ~(panicked /\ rpc = "loop" /\ overlay.shown)

\* What Pipeline.h says of pacing: each overwrite is recorded as a drop, in
\* the statistics of the pipeline that runs.
DropsReachStatistics == capturing => dropSink = "running"
===============================================================================
