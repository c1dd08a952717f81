---------------------- MODULE PipelineLifecycleProofs ----------------------
(***************************************************************************)
(* The render thread never outlives the device it draws with, a rebuild    *)
(* request is lowered by nobody it could race with, a rejected pass stays  *)
(* off and the overlay is only up while it is wanted and fed: for every    *)
(* number of tries and whatever the world does, for as long as it likes.   *)
(***************************************************************************)
EXTENDS PipelineLifecycle, TLAPS

-------------------------------------------------------------------------------
(* The threads and the device.                                             *)

\* From the join to the next spawn there is no render thread; a spawn has a
\* device state to give to the thread; and a thread has one.
ThreadInv ==
  /\ opc \in {"halt", "attempt", "create", "start", "spawn", "exited"} => rpc = "none"
  /\ opc \in {"start", "spawn"} => built
  /\ RenderLive => built

LEMMA ThreadInit == Init => ThreadInv
  BY DEF Init, ThreadInv, RenderLive

LEMMA ThreadStep == ThreadInv /\ [Next]_vars => ThreadInv'
  <1> SUFFICES ASSUME ThreadInv, [Next]_vars PROVE ThreadInv'
    OBVIOUS
  <1> USE DEF ThreadInv, RenderLive, ownerVars, renderVars, devVars
  <1>1. CASE BeginStart \/ SpawnRenderThread \/ ReturnToPump
    BY <1>1 DEF BeginStart, SpawnRenderThread, ReturnToPump
  <1>2. CASE RequestStop \/ JoinRenderThread \/ Halt
    BY <1>2 DEF RequestStop, JoinRenderThread, Halt
  <1>3. CASE DestroyDevice \/ CreateSucceeds \/ CreateFails \/ GiveUp
    BY <1>3 DEF DestroyDevice, CreateSucceeds, CreateFails, GiveUp
  <1>4. CASE CarryOutHide \/ ApplyLive \/ ApplyByRebuild
    BY <1>4 DEF CarryOutHide, ApplyLive, ApplyByRebuild
  <1>5. CASE TakeQuit \/ DismissBox \/ QueueDrained \/ CheckTarget \/ CheckRebuild \/ CheckRunning
    BY <1>5 DEF TakeQuit, DismissBox, QueueDrained, CheckTarget, CheckRebuild,
                CheckRunning, Exit
  <1>6. CASE Message
    BY <1>6 DEF Message, ChangeIntent, OnForegroundChanged, EnterConfigMode,
                ExitConfigMode, StopCommand, BeginReload
  <1>7. CASE TestStop \/ PumpNothing \/ Panic \/ PanicHidesHud
    BY <1>7 DEF TestStop, PumpNothing, Panic, PanicHidesHud
  <1>8. CASE SeeDeviceLost \/ RequestRebuild \/ SeeTargetGone \/ CheckPasses
    BY <1>8 DEF SeeDeviceLost, RequestRebuild, SeeTargetGone, CheckPasses
  <1>9. CASE FinishFrame \/ UnregisterPanic \/ ClearRunning
    BY <1>9 DEF FinishFrame, UnregisterPanic, ClearRunning
  <1>10. CASE World
    BY <1>10 DEF World, RejectFrame, LoseDevice, CloseTarget, PressPanic
  <1>11. CASE UNCHANGED vars
    BY <1>11 DEF vars
  <1> QED
    BY <1>1, <1>2, <1>3, <1>4, <1>5, <1>6, <1>7, <1>8, <1>9, <1>10, <1>11
       DEF Next, OwnerStep, RenderStep

\* The device state is destroyed and replaced only with no render thread.
THEOREM DeviceOutlives == Spec => []DeviceOutlivesRenderThread
  <1>1. ThreadInv => DeviceOutlivesRenderThread
    BY DEF ThreadInv, DeviceOutlivesRenderThread
  <1> QED BY <1>1, ThreadInit, ThreadStep, PTL DEF Spec

\* A rebuild request is lowered only with no render thread to raise it.
THEOREM RequestLowered == Spec => RequestLoweredUnthreaded
  <1>1. ThreadInv /\ [Next]_vars => [(rebuildRequested /\ ~rebuildRequested') => rpc = "none"]_vars
    <2> SUFFICES ASSUME ThreadInv, [Next]_vars, rebuildRequested, ~rebuildRequested'
                 PROVE  rpc = "none"
      OBVIOUS
    <2> USE DEF flagVars
    <2>1. CASE CreateSucceeds
      BY <2>1 DEF CreateSucceeds, ThreadInv
    <2>2. CASE OwnerStep /\ ~CreateSucceeds
      BY <2>2 DEF OwnerStep, BeginStart, SpawnRenderThread, ReturnToPump, RequestStop,
                  JoinRenderThread, Halt, DestroyDevice, CreateFails, GiveUp, CarryOutHide,
                  ApplyLive, ApplyByRebuild, TakeQuit, DismissBox, QueueDrained,
                  CheckTarget, CheckRebuild, CheckRunning, Exit
    <2>3. CASE Message
      BY <2>3 DEF Message, ChangeIntent, OnForegroundChanged, EnterConfigMode,
                  ExitConfigMode, StopCommand, BeginReload
    <2>4. CASE RenderStep
      BY <2>4 DEF RenderStep, TestStop, PumpNothing, Panic, PanicHidesHud, SeeDeviceLost,
                  RequestRebuild, SeeTargetGone, CheckPasses, FinishFrame,
                  UnregisterPanic, ClearRunning
    <2>5. CASE World
      BY <2>5 DEF World, RejectFrame, LoseDevice, CloseTarget, PressPanic
    <2>6. CASE UNCHANGED vars
      BY <2>6 DEF vars
    <2> QED BY <2>1, <2>2, <2>3, <2>4, <2>5, <2>6 DEF Next
  <1> QED BY <1>1, ThreadInit, ThreadStep, PTL DEF Spec, RequestLoweredUnthreaded

-------------------------------------------------------------------------------
(* A rejected pass.                                                        *)

\* While a rejection stands it is in the configuration, and in the pass of
\* every thread spawned since, from the rebuild to its last frame.
RejectionInv ==
  rejected =>
    /\ configPass = "passthrough"
    /\ \/ opc \in {"start", "spawn"}
       \/ rpc \in {"loop", "pump", "hideHud", "check", "frame"}
       => runPass = "passthrough"

LEMMA RejectionStep == ThreadInv /\ RejectionInv /\ [Next]_vars => RejectionInv'
  <1> SUFFICES ASSUME ThreadInv, RejectionInv, [Next]_vars PROVE RejectionInv'
    OBVIOUS
  <1> USE DEF RejectionInv, ownerVars, renderVars, devVars, historyVars
  <1>1. CASE BeginStart \/ SpawnRenderThread \/ ReturnToPump
    BY <1>1 DEF BeginStart, SpawnRenderThread, ReturnToPump
  <1>2. CASE RequestStop \/ JoinRenderThread \/ Halt
    BY <1>2 DEF RequestStop, JoinRenderThread, Halt
  <1>3. CASE DestroyDevice \/ CreateSucceeds \/ CreateFails \/ GiveUp
    BY <1>3 DEF DestroyDevice, CreateSucceeds, CreateFails, GiveUp, ThreadInv
  <1>4. CASE CarryOutHide \/ ApplyLive \/ ApplyByRebuild
    BY <1>4 DEF CarryOutHide, ApplyLive, ApplyByRebuild
  <1>5. CASE TakeQuit \/ DismissBox \/ QueueDrained \/ CheckTarget \/ CheckRebuild \/ CheckRunning
    BY <1>5 DEF TakeQuit, DismissBox, QueueDrained, CheckTarget, CheckRebuild,
                CheckRunning, Exit
  <1>6. CASE Message
    BY <1>6 DEF Message, ChangeIntent, OnForegroundChanged, EnterConfigMode,
                ExitConfigMode, StopCommand, BeginReload
  <1>7. CASE TestStop \/ PumpNothing \/ Panic \/ PanicHidesHud
    BY <1>7 DEF TestStop, PumpNothing, Panic, PanicHidesHud
  <1>8. CASE SeeDeviceLost \/ RequestRebuild \/ SeeTargetGone \/ CheckPasses
    BY <1>8 DEF SeeDeviceLost, RequestRebuild, SeeTargetGone, CheckPasses
  <1>9. CASE FinishFrame \/ UnregisterPanic \/ ClearRunning
    BY <1>9 DEF FinishFrame, UnregisterPanic, ClearRunning
  <1>10. CASE RejectFrame
    BY <1>10 DEF RejectFrame, ThreadInv
  <1>11. CASE LoseDevice \/ CloseTarget \/ PressPanic
    BY <1>11 DEF LoseDevice, CloseTarget, PressPanic
  <1>12. CASE UNCHANGED vars
    BY <1>12 DEF vars
  <1> QED
    BY <1>1, <1>2, <1>3, <1>4, <1>5, <1>6, <1>7, <1>8, <1>9, <1>10, <1>11, <1>12
       DEF Next, OwnerStep, RenderStep, World

\* A pass the render loop rejected draws no frame until settings are applied.
THEOREM RejectedStaysOff == Spec => []RejectedPassStaysOff
  <1>1. Init => RejectionInv
    BY DEF Init, RejectionInv
  <1>2. RejectionInv => RejectedPassStaysOff
    BY DEF RejectionInv, RejectedPassStaysOff
  <1> QED BY <1>1, <1>2, ThreadInit, ThreadStep, RejectionStep, PTL DEF Spec

-------------------------------------------------------------------------------
(* The overlay.                                                            *)

Overlay == [shown : BOOLEAN, interactive : BOOLEAN, hidePosted : BOOLEAN]

\* Shown or hidden, the window keeps its other attributes.
LEMMA OverlayShown ==
  ASSUME NEW o \in Overlay, NEW b \in BOOLEAN
  PROVE  /\ [o EXCEPT !.shown = b] \in Overlay
         /\ [o EXCEPT !.shown = b].shown = b
         /\ [o EXCEPT !.interactive = b] \in Overlay
         /\ [o EXCEPT !.interactive = b].shown = o.shown
         /\ [o EXCEPT !.hidePosted = b] \in Overlay
         /\ [o EXCEPT !.hidePosted = b].shown = o.shown
         /\ [o EXCEPT !.shown = FALSE, !.hidePosted = FALSE] \in Overlay
         /\ [o EXCEPT !.shown = FALSE, !.hidePosted = FALSE].shown = FALSE
         /\ [o EXCEPT !.shown = b, !.interactive = TRUE] \in Overlay
         /\ [o EXCEPT !.shown = b, !.interactive = TRUE].shown = b
  BY DEF Overlay

\* The window is up only if it is wanted and the loop is fed, and no window is
\* up without a device state: nothing could take it down again.
ShownInv ==
  /\ overlay \in Overlay
  /\ overlayVisible \in BOOLEAN /\ gameFocused \in BOOLEAN
  /\ overlay.shown => overlayVisible /\ gameFocused /\ ~paused
  /\ ~built => ~overlay.shown

LEMMA NewOverlayHidden == NewOverlay \in Overlay /\ ~NewOverlay.shown
  BY DEF NewOverlay, Overlay

\* ApplyVisibility keeps the overlay to what is wanted.
LEMMA VisibilityApplied ==
  ASSUME ShownInv, ApplyVisibility, UNCHANGED built,
         overlayVisible' \in BOOLEAN, gameFocused' \in BOOLEAN
  PROVE  ShownInv'
  <1> DEFINE show == overlayVisible' /\ gameFocused'
  <1>1. paused' = ~show /\ show \in BOOLEAN
    BY DEF ApplyVisibility
  <1>2. CASE built
    <2>1. overlay' = [overlay EXCEPT !.shown = show]
      BY <1>2 DEF ApplyVisibility
    <2>2. ASSUME overlayVisible' /\ gameFocused'
          PROVE  overlay' \in Overlay /\ overlay'.shown = TRUE
      BY <2>1, <2>2, OverlayShown DEF ShownInv
    <2>3. ASSUME ~(overlayVisible' /\ gameFocused')
          PROVE  overlay' \in Overlay /\ overlay'.shown = FALSE
      <3>1. overlay' = [overlay EXCEPT !.shown = FALSE]
        BY <2>1, <2>3
      <3> QED BY <3>1, OverlayShown DEF ShownInv
    <2> QED BY <1>1, <1>2, <2>2, <2>3 DEF ShownInv
  <1>3. CASE ~built
    BY <1>3 DEF ApplyVisibility, windowVars, ShownInv
  <1> QED BY <1>2, <1>3

LEMMA ShownStep == ShownInv /\ [Next]_vars => ShownInv'
  <1> SUFFICES ASSUME ShownInv, [Next]_vars PROVE ShownInv'
    OBVIOUS
  <1> USE DEF ownerVars, renderVars, devVars, intentVars, windowVars, viewVars
  <1> DEFINE Same == UNCHANGED <<overlay, overlayVisible, gameFocused, paused, built>>
  <1>0. CASE Same
    BY <1>0 DEF ShownInv
  <1>1. CASE SpawnRenderThread \/ ChangeIntent \/ OnForegroundChanged
    <2>1. ApplyVisibility /\ UNCHANGED built
      BY <1>1 DEF SpawnRenderThread, ChangeIntent, OnForegroundChanged
    <2>2. overlayVisible' \in BOOLEAN /\ gameFocused' \in BOOLEAN
      BY <1>1 DEF SpawnRenderThread, ChangeIntent, OnForegroundChanged, ShownInv
    <2> QED BY <2>1, <2>2, VisibilityApplied
  <1>2. CASE ApplyLive
    <2>1. CASE ApplyVisibility
      BY <1>2, <2>1, VisibilityApplied DEF ApplyLive, ShownInv
    <2>2. CASE ~ApplyVisibility
      BY <1>0, <1>2, <2>2 DEF ApplyLive
    <2> QED BY <2>1, <2>2
  <1>3. CASE Halt
    <2>1. overlay' \in Overlay /\ ~overlay'.shown
      BY <1>3, OverlayShown DEF Halt, ShownInv
    <2> QED BY <1>3, <2>1 DEF Halt, ShownInv
  <1>4. CASE DestroyDevice \/ CreateSucceeds
    <2>1. overlay' \in Overlay /\ ~overlay'.shown
      BY <1>4, NewOverlayHidden DEF DestroyDevice, CreateSucceeds
    <2> QED BY <1>4, <2>1 DEF DestroyDevice, CreateSucceeds, ShownInv
  <1>5. CASE CarryOutHide
    <2>1. overlay' \in Overlay /\ ~overlay'.shown
      BY <1>5, OverlayShown DEF CarryOutHide, ShownInv
    <2> QED BY <1>5, <2>1 DEF CarryOutHide, ShownInv
  <1>6. CASE EnterConfigMode
    <2>1. CASE ~built
      BY <1>0, <1>6, <2>1 DEF EnterConfigMode
    <2>2. CASE built
      <3>1. /\ overlay' = [overlay EXCEPT !.shown = overlayVisible, !.interactive = TRUE]
            /\ gameFocused' = TRUE /\ overlayVisible' = overlayVisible
            /\ paused' = ~overlayVisible /\ built' = built
        BY <1>6, <2>2 DEF EnterConfigMode
      <3>2. overlay' \in Overlay /\ overlay'.shown = overlayVisible
        BY <3>1, OverlayShown DEF ShownInv
      <3> QED BY <2>2, <3>1, <3>2 DEF ShownInv
    <2> QED BY <2>1, <2>2
  <1>7. CASE ExitConfigMode
    <2>1. overlay' \in Overlay /\ overlay'.shown = overlay.shown
      BY <1>7, OverlayShown DEF ExitConfigMode, ShownInv
    <2> QED BY <1>7, <2>1 DEF ExitConfigMode, ShownInv
  <1>8. CASE Panic \/ SeeDeviceLost \/ SeeTargetGone
    <2>1. overlay' = [overlay EXCEPT !.hidePosted = TRUE]
      BY <1>8 DEF Panic, SeeDeviceLost, SeeTargetGone, PostHide
    <2>2. overlay' \in Overlay /\ overlay'.shown = overlay.shown
      BY <2>1, OverlayShown DEF ShownInv
    <2> QED BY <1>8, <2>2 DEF Panic, SeeDeviceLost, SeeTargetGone, ShownInv
  <1>9. CASE \/ BeginStart \/ ReturnToPump \/ RequestStop \/ JoinRenderThread
             \/ CreateFails \/ GiveUp \/ ApplyByRebuild \/ QueueDrained
    BY <1>0, <1>9 DEF BeginStart, ReturnToPump, RequestStop, JoinRenderThread,
                      CreateFails, GiveUp, ApplyByRebuild, QueueDrained
  <1>10. CASE TakeQuit \/ DismissBox \/ CheckTarget \/ CheckRebuild \/ CheckRunning
    BY <1>0, <1>10 DEF TakeQuit, DismissBox, CheckTarget, CheckRebuild, CheckRunning
  <1>11. CASE StopCommand \/ BeginReload \/ World
    BY <1>0, <1>11 DEF StopCommand, BeginReload, World, RejectFrame, LoseDevice,
                       CloseTarget, PressPanic
  <1>12. CASE \/ TestStop \/ PumpNothing \/ PanicHidesHud \/ RequestRebuild
              \/ CheckPasses \/ FinishFrame \/ UnregisterPanic \/ ClearRunning
    BY <1>0, <1>12 DEF TestStop, PumpNothing, PanicHidesHud, RequestRebuild,
                       CheckPasses, FinishFrame, UnregisterPanic, ClearRunning
  <1>13. CASE UNCHANGED vars
    BY <1>0, <1>13 DEF vars
  <1> QED
    BY <1>1, <1>2, <1>3, <1>4, <1>5, <1>6, <1>7, <1>8, <1>9, <1>10, <1>11, <1>12,
       <1>13 DEF Next, OwnerStep, Message, RenderStep

\* The overlay is up only while it is wanted, focused and fed.
THEOREM ShownWanted == Spec => []ShownIsWantedAndFed
  <1>1. Init => ShownInv
    BY NewOverlayHidden DEF Init, ShownInv
  <1>2. ShownInv => ShownIsWantedAndFed
    BY DEF ShownInv, ShownIsWantedAndFed
  <1> QED BY <1>1, <1>2, ShownStep, PTL DEF Spec

-------------------------------------------------------------------------------
(* Configure mode.                                                         *)

\* Whether it takes input changes only where it is written.
LEMMA OverlayMode ==
  ASSUME NEW o \in Overlay, NEW b \in BOOLEAN
  PROVE  /\ [o EXCEPT !.shown = b].interactive = o.interactive
         /\ [o EXCEPT !.interactive = b].interactive = b
         /\ [o EXCEPT !.hidePosted = b].interactive = o.interactive
         /\ [o EXCEPT !.shown = FALSE, !.hidePosted = FALSE].interactive = o.interactive
         /\ [o EXCEPT !.shown = b, !.interactive = TRUE].interactive = TRUE
  BY DEF Overlay

LEMMA NewOverlayIdle == NewOverlay.interactive = FALSE
  BY DEF NewOverlay

\* A new window does not take input, and the thread that draws in it starts with
\* the mode off; from there both change together, but for a panic.
ConfigureInv ==
  /\ overlay \in Overlay /\ overlayInteractive \in BOOLEAN
  /\ overlayVisible \in BOOLEAN /\ gameFocused \in BOOLEAN
  /\ opc \in {"start", "spawn"} => overlay.interactive = FALSE
  /\ rpc = "hideHud" => panicked
  /\ RenderLive /\ ~panicked => overlayInteractive = overlay.interactive

\* ApplyVisibility leaves the mode of the window alone.
LEMMA VisibilityKeepsMode ==
  ASSUME ConfigureInv, ApplyVisibility, overlayVisible' \in BOOLEAN, gameFocused' \in BOOLEAN
  PROVE  overlay' \in Overlay /\ overlay'.interactive = overlay.interactive
  <1> DEFINE show == overlayVisible' /\ gameFocused'
  <1>1. CASE built
    <2>1. overlay' = [overlay EXCEPT !.shown = show]
      BY <1>1 DEF ApplyVisibility
    <2>2. CASE show
      <3>1. overlay' = [overlay EXCEPT !.shown = TRUE]
        BY <2>1, <2>2
      <3> QED BY <3>1, OverlayShown, OverlayMode DEF ConfigureInv
    <2>3. CASE ~show
      <3>1. overlay' = [overlay EXCEPT !.shown = FALSE]
        BY <2>1, <2>3
      <3> QED BY <3>1, OverlayShown, OverlayMode DEF ConfigureInv
    <2> QED BY <2>2, <2>3
  <1>2. CASE ~built
    BY <1>2 DEF ApplyVisibility, windowVars, ConfigureInv
  <1> QED BY <1>1, <1>2

LEMMA ConfigureStep == ThreadInv /\ ConfigureInv /\ [Next]_vars => ConfigureInv'
  <1> SUFFICES ASSUME ThreadInv, ConfigureInv, [Next]_vars PROVE ConfigureInv'
    OBVIOUS
  <1> USE DEF ConfigureInv, RenderLive, ownerVars, renderVars, devVars, intentVars,
              windowVars, viewVars, historyVars
  <1> DEFINE Same == UNCHANGED <<overlay, overlayInteractive, overlayVisible, gameFocused>>
  <1>1. CASE SpawnRenderThread
    <2>1. overlay' \in Overlay /\ overlay'.interactive = overlay.interactive
      BY <1>1, VisibilityKeepsMode DEF SpawnRenderThread
    <2> QED BY <1>1, <2>1 DEF SpawnRenderThread
  <1>2. CASE ChangeIntent \/ OnForegroundChanged
    <2>1. overlayVisible' \in BOOLEAN /\ gameFocused' \in BOOLEAN
      BY <1>2 DEF ChangeIntent, OnForegroundChanged
    <2>2. overlay' \in Overlay /\ overlay'.interactive = overlay.interactive
      BY <1>2, <2>1, VisibilityKeepsMode DEF ChangeIntent, OnForegroundChanged
    <2> QED BY <1>2, <2>1, <2>2 DEF ChangeIntent, OnForegroundChanged
  <1>3. CASE ApplyLive
    <2>1. overlay' \in Overlay /\ overlay'.interactive = overlay.interactive
      <3>1. CASE ApplyVisibility
        BY <1>3, <3>1, VisibilityKeepsMode DEF ApplyLive
      <3>2. CASE ~ApplyVisibility
        BY <1>3, <3>2 DEF ApplyLive
      <3> QED BY <3>1, <3>2
    <2> QED BY <1>3, <2>1 DEF ApplyLive
  <1>4. CASE Halt
    <2>1. overlay' \in Overlay /\ overlay'.interactive = overlay.interactive
      BY <1>4, OverlayShown, OverlayMode DEF Halt
    <2> QED BY <1>4, <2>1 DEF Halt
  <1>5. CASE DestroyDevice \/ CreateSucceeds
    <2>1. overlay' \in Overlay /\ overlay'.interactive = FALSE
      BY <1>5, NewOverlayHidden, NewOverlayIdle DEF DestroyDevice, CreateSucceeds
    <2>2. rpc = "none"
      BY <1>5 DEF DestroyDevice, CreateSucceeds, ThreadInv
    <2> QED BY <1>5, <2>1, <2>2 DEF DestroyDevice, CreateSucceeds
  <1>6. CASE CarryOutHide
    <2>1. overlay' \in Overlay /\ overlay'.interactive = overlay.interactive
      BY <1>6, OverlayShown, OverlayMode DEF CarryOutHide
    <2> QED BY <1>6, <2>1 DEF CarryOutHide
  <1>7. CASE EnterConfigMode
    <2>1. CASE ~built
      BY <1>7, <2>1 DEF EnterConfigMode, ThreadInv
    <2>2. CASE built
      <3>0. overlay' = [overlay EXCEPT !.shown = overlayVisible, !.interactive = TRUE]
        BY <1>7, <2>2 DEF EnterConfigMode
      <3>1. overlay' \in Overlay /\ overlay'.interactive = TRUE
        BY <3>0, OverlayShown, OverlayMode
      <3> QED BY <1>7, <2>2, <3>1 DEF EnterConfigMode
    <2> QED BY <2>1, <2>2
  <1>8. CASE ExitConfigMode
    <2>1. CASE ~built
      BY <1>8, <2>1 DEF ExitConfigMode, ThreadInv
    <2>2. CASE built
      <3>1. overlay' \in Overlay /\ overlay'.interactive = FALSE
        BY <1>8, <2>2, OverlayShown, OverlayMode DEF ExitConfigMode
      <3> QED BY <1>8, <3>1 DEF ExitConfigMode
    <2> QED BY <2>1, <2>2
  <1>9. CASE Panic \/ SeeDeviceLost \/ SeeTargetGone
    <2>1. overlay' = [overlay EXCEPT !.hidePosted = TRUE]
      BY <1>9 DEF Panic, SeeDeviceLost, SeeTargetGone, PostHide
    <2>2. overlay' \in Overlay /\ overlay'.interactive = overlay.interactive
      BY <2>1, OverlayShown, OverlayMode
    <2> QED BY <1>9, <2>2 DEF Panic, SeeDeviceLost, SeeTargetGone
  <1>10. CASE PanicHidesHud
    BY <1>10 DEF PanicHidesHud
  <1>11. CASE BeginStart \/ ReturnToPump \/ RequestStop \/ JoinRenderThread
    BY <1>11 DEF BeginStart, ReturnToPump, RequestStop, JoinRenderThread
  <1>12. CASE CreateFails \/ GiveUp \/ ApplyByRebuild \/ QueueDrained
    BY <1>12 DEF CreateFails, GiveUp, ApplyByRebuild, QueueDrained
  <1>13. CASE TakeQuit \/ DismissBox \/ CheckTarget \/ CheckRebuild \/ CheckRunning
    BY <1>13 DEF TakeQuit, DismissBox, CheckTarget, CheckRebuild, CheckRunning, Exit
  <1>14. CASE StopCommand \/ BeginReload \/ World
    BY <1>14 DEF StopCommand, BeginReload, World, RejectFrame, LoseDevice, CloseTarget,
                 PressPanic
  <1>15. CASE TestStop \/ PumpNothing \/ RequestRebuild \/ CheckPasses
    BY <1>15 DEF TestStop, PumpNothing, RequestRebuild, CheckPasses
  <1>16. CASE FinishFrame \/ UnregisterPanic \/ ClearRunning
    BY <1>16 DEF FinishFrame, UnregisterPanic, ClearRunning
  <1>17. CASE UNCHANGED vars
    BY <1>17 DEF vars
  <1> QED
    BY <1>1, <1>2, <1>3, <1>4, <1>5, <1>6, <1>7, <1>8, <1>9, <1>10, <1>11, <1>12,
       <1>13, <1>14, <1>15, <1>16, <1>17 DEF Next, OwnerStep, Message, RenderStep

\* The status block says configure mode exactly when the overlay takes input.
THEOREM ConfigureModeIsReported == Spec => []ConfigureModeReported
  <1>1. Init => ConfigureInv
    BY NewOverlayHidden, NewOverlayIdle DEF Init, ConfigureInv, RenderLive
  <1>2. ConfigureInv => ConfigureModeReported
    BY DEF ConfigureInv, ConfigureModeReported
  <1> QED BY <1>1, <1>2, ThreadInit, ThreadStep, ConfigureStep, PTL DEF Spec

-------------------------------------------------------------------------------
(* Types.                                                                  *)

\* What is chosen from a few names, and what is counted.
DataTyped ==
  /\ opc \in {"start", "spawn", "started", "pump", "merge", "stop", "join", "halt", "attempt",
              "create", "checkTarget", "checkRebuild", "checkRunning", "exited"}
  /\ caller \in {"loop", "reload", "exit"}
  /\ attempt \in 0 .. kAttempts - 1
  /\ reload \in [pass : {"direct", "passthrough"}, structural : BOOLEAN]
  /\ rpc \in {"none", "loop", "pump", "hideHud", "check", "request", "frame", "leave", "clear",
              "over"}
  /\ configPass \in {"direct", "passthrough"} /\ runPass \in {"direct", "passthrough"}
  /\ dropSink \in {"running", "destroyed"}
  /\ events \in 0 .. MaxEvents

ReasonTyped ==
  exitReason \in {"none", "stopped by the manager", "the app closed",
                  "the graphics device could not be rebuilt", "the render loop stopped"}

\* The Booleans, but for those ConfigureInv has.
FlagsTyped ==
  /\ boxOpen \in BOOLEAN /\ quitPosted \in BOOLEAN /\ panicPending \in BOOLEAN
  /\ stopRequested \in BOOLEAN /\ running \in BOOLEAN /\ rebuildRequested \in BOOLEAN
  /\ targetLost \in BOOLEAN /\ built \in BOOLEAN /\ capturing \in BOOLEAN
  /\ deviceLost \in BOOLEAN /\ windowAlive \in BOOLEAN
  /\ panicked \in BOOLEAN /\ rejected \in BOOLEAN
  /\ hudVisible \in BOOLEAN /\ paused \in BOOLEAN /\ hudShown \in BOOLEAN

\* The four actions that end the process write where the owner goes and why.
Ending == TakeQuit \/ DismissBox \/ CheckTarget \/ CheckRunning

LEMMA EndingWrites ==
  ASSUME Ending, ReasonTyped
  PROVE  /\ opc' \in {"stop", "checkRebuild", "pump"} /\ caller' \in {caller, "exit"}
         /\ ReasonTyped'
         /\ UNCHANGED <<attempt, reload, boxOpen, quitPosted, renderVars, flagVars,
                        viewVars, configPass, devVars, worldVars, historyVars>>
  <1>1. CASE TakeQuit
    BY <1>1, Zenon DEF TakeQuit, Exit, ReasonTyped
  <1>2. CASE DismissBox
    BY <1>2, Zenon DEF DismissBox, Exit, ReasonTyped
  <1>3. CASE CheckTarget
    BY <1>3, Zenon DEF CheckTarget, Exit, ReasonTyped
  <1>4. CASE CheckRunning
    BY <1>4, Zenon DEF CheckRunning, Exit, ReasonTyped
  <1> QED BY <1>1, <1>2, <1>3, <1>4 DEF Ending

LEMMA DataStep == DataTyped /\ ReasonTyped /\ [Next]_vars => DataTyped'
  <1> SUFFICES ASSUME DataTyped, ReasonTyped, [Next]_vars PROVE DataTyped'
    OBVIOUS
  <1> USE DEF ownerVars, renderVars, devVars, worldVars
  <1>0. kAttempts \in Nat \ {0} /\ MaxEvents \in Nat
    BY LifecycleAssumption
  <1>1. CASE BeginStart \/ SpawnRenderThread \/ ReturnToPump
    BY <1>1 DEF BeginStart, SpawnRenderThread, ReturnToPump, DataTyped
  <1>2. CASE RequestStop \/ JoinRenderThread \/ Halt
    BY <1>2 DEF RequestStop, JoinRenderThread, Halt, DataTyped
  <1>3. CASE DestroyDevice \/ CreateSucceeds \/ CreateFails \/ GiveUp
    BY <1>0, <1>3 DEF DestroyDevice, CreateSucceeds, CreateFails, GiveUp, DataTyped
  <1>4. CASE CarryOutHide \/ ApplyLive \/ ApplyByRebuild
    BY <1>4 DEF CarryOutHide, ApplyLive, ApplyByRebuild, DataTyped
  <1>5. CASE Ending
    BY <1>5, EndingWrites DEF DataTyped
  <1>6. CASE QueueDrained \/ CheckRebuild
    BY <1>6 DEF QueueDrained, CheckRebuild, DataTyped
  <1>7. CASE ChangeIntent \/ OnForegroundChanged \/ EnterConfigMode
    BY <1>0, <1>7 DEF ChangeIntent, OnForegroundChanged, EnterConfigMode, Event, DataTyped
  <1>8. CASE ExitConfigMode \/ StopCommand
    BY <1>0, <1>8 DEF ExitConfigMode, StopCommand, Event, DataTyped
  <1>9. CASE BeginReload
    <2>1. reload' \in [pass : {"direct", "passthrough"}, structural : BOOLEAN]
      BY <1>9 DEF BeginReload
    <2> QED BY <1>0, <1>9, <2>1 DEF BeginReload, Event, DataTyped
  <1>10. CASE TestStop \/ PumpNothing \/ Panic \/ PanicHidesHud
    BY <1>10 DEF TestStop, PumpNothing, Panic, PanicHidesHud, DataTyped
  <1>11. CASE SeeDeviceLost \/ RequestRebuild \/ SeeTargetGone \/ CheckPasses
    BY <1>11 DEF SeeDeviceLost, RequestRebuild, SeeTargetGone, CheckPasses, DataTyped
  <1>12. CASE FinishFrame \/ UnregisterPanic \/ ClearRunning
    BY <1>12 DEF FinishFrame, UnregisterPanic, ClearRunning, DataTyped
  <1>13. CASE RejectFrame \/ LoseDevice \/ CloseTarget \/ PressPanic
    BY <1>0, <1>13 DEF RejectFrame, LoseDevice, CloseTarget, PressPanic, Event, DataTyped
  <1>14. CASE UNCHANGED vars
    BY <1>14 DEF vars, DataTyped
  <1> QED
    BY <1>1, <1>2, <1>3, <1>4, <1>5, <1>6, <1>7, <1>8, <1>9, <1>10, <1>11, <1>12, <1>13,
       <1>14 DEF Next, OwnerStep, Message, RenderStep, World, Ending

LEMMA ReasonStep == ReasonTyped /\ [Next]_vars => ReasonTyped'
  <1> SUFFICES ASSUME ReasonTyped, [Next]_vars PROVE ReasonTyped'
    OBVIOUS
  <1>1. CASE Ending
    BY <1>1, EndingWrites
  <1> USE DEF ownerVars
  <1>2. OwnerStep /\ ~Ending => UNCHANGED exitReason
    BY DEF OwnerStep, Ending, BeginStart, SpawnRenderThread, ReturnToPump, RequestStop,
           JoinRenderThread, Halt, DestroyDevice, CreateSucceeds, CreateFails, GiveUp,
           CarryOutHide, ApplyLive, ApplyByRebuild, QueueDrained, CheckRebuild
  <1>3. Message \/ RenderStep => UNCHANGED exitReason
    BY DEF Message, ChangeIntent, OnForegroundChanged, EnterConfigMode, ExitConfigMode,
           StopCommand, BeginReload, RenderStep, TestStop, PumpNothing, Panic,
           PanicHidesHud, SeeDeviceLost, RequestRebuild, SeeTargetGone, CheckPasses,
           FinishFrame, UnregisterPanic, ClearRunning
  <1>4. World \/ UNCHANGED vars => UNCHANGED exitReason
    BY DEF World, RejectFrame, LoseDevice, CloseTarget, PressPanic, vars
  <1>5. UNCHANGED exitReason => ReasonTyped'
    BY Zenon DEF ReasonTyped
  <1> QED BY <1>1, <1>2, <1>3, <1>4, <1>5 DEF Next

\* ApplyVisibility writes Booleans.
LEMMA VisibilityTyped ==
  ASSUME hudShown \in BOOLEAN, paused \in BOOLEAN, ApplyVisibility,
         overlayVisible' \in BOOLEAN, hudVisible' \in BOOLEAN, gameFocused' \in BOOLEAN
  PROVE  hudShown' \in BOOLEAN /\ paused' \in BOOLEAN
  BY Zenon DEF ApplyVisibility, windowVars

LEMMA FlagsStep == ConfigureInv /\ FlagsTyped /\ ReasonTyped /\ [Next]_vars => FlagsTyped'
  <1> SUFFICES ASSUME ConfigureInv, FlagsTyped, ReasonTyped, [Next]_vars PROVE FlagsTyped'
    OBVIOUS
  <1> USE DEF ownerVars, renderVars, flagVars, intentVars, windowVars, viewVars, devVars,
              worldVars, historyVars
  <1>0. overlayVisible \in BOOLEAN /\ gameFocused \in BOOLEAN
    BY DEF ConfigureInv
  <1>1. CASE BeginStart
    <2>1. stopRequested' \in BOOLEAN /\ running' \in BOOLEAN /\ capturing' \in BOOLEAN
      BY <1>1, Zenon DEF BeginStart
    <2> QED BY <1>1, <2>1 DEF BeginStart, FlagsTyped
  <1>2. CASE RequestStop \/ PanicHidesHud
    <2>1. stopRequested' \in BOOLEAN /\ hudShown' \in BOOLEAN
      BY <1>2, Zenon DEF RequestStop, PanicHidesHud, FlagsTyped
    <2> QED BY <1>2, <2>1 DEF RequestStop, PanicHidesHud, FlagsTyped
  <1>3. CASE RequestRebuild \/ SeeTargetGone \/ ClearRunning
    <2>1. rebuildRequested' \in BOOLEAN /\ targetLost' \in BOOLEAN /\ running' \in BOOLEAN
      BY <1>3, Zenon DEF RequestRebuild, SeeTargetGone, ClearRunning, FlagsTyped
    <2> QED BY <1>3, <2>1 DEF RequestRebuild, SeeTargetGone, ClearRunning, FlagsTyped
  <1>4. CASE Panic \/ UnregisterPanic \/ PressPanic
    <2>1. panicPending' \in BOOLEAN /\ panicked' \in BOOLEAN
      BY <1>4, Zenon DEF Panic, UnregisterPanic, PressPanic, FlagsTyped
    <2> QED BY <1>4, <2>1 DEF Panic, UnregisterPanic, PressPanic, FlagsTyped
  <1>5. CASE Halt
    <2>1. /\ built' \in BOOLEAN /\ running' \in BOOLEAN
          /\ capturing' \in BOOLEAN /\ hudShown' \in BOOLEAN
      BY <1>5, Zenon DEF Halt
    <2> QED BY <1>5, <2>1 DEF Halt, FlagsTyped
  <1>6. CASE DestroyDevice
    <2>1. built' \in BOOLEAN /\ hudShown' \in BOOLEAN
      BY <1>6, Zenon DEF DestroyDevice
    <2> QED BY <1>6, <2>1 DEF DestroyDevice, FlagsTyped
  <1>7. CASE CreateSucceeds
    <2>1. built' \in BOOLEAN /\ deviceLost' \in BOOLEAN /\ rebuildRequested' \in BOOLEAN
      BY <1>7, Zenon DEF CreateSucceeds
    <2> QED BY <1>7, <2>1 DEF CreateSucceeds, FlagsTyped
  <1>8. CASE GiveUp \/ StopCommand
    <2>1. quitPosted' \in BOOLEAN /\ boxOpen' \in BOOLEAN
      BY <1>8, Zenon DEF GiveUp, StopCommand, FlagsTyped
    <2> QED BY <1>8, <2>1 DEF GiveUp, StopCommand, FlagsTyped
  <1>9. CASE ApplyByRebuild \/ RejectFrame
    <2>1. rejected' \in BOOLEAN
      BY <1>9, Zenon DEF ApplyByRebuild, RejectFrame
    <2> QED BY <1>9, <2>1 DEF ApplyByRebuild, RejectFrame, FlagsTyped
  <1>10. CASE LoseDevice \/ CloseTarget
    <2>1. deviceLost' \in BOOLEAN /\ windowAlive' \in BOOLEAN
      BY <1>10, Zenon DEF LoseDevice, CloseTarget, FlagsTyped
    <2> QED BY <1>10, <2>1 DEF LoseDevice, CloseTarget, FlagsTyped
  <1>11. CASE SpawnRenderThread \/ OnForegroundChanged
    <2>1. hudShown' \in BOOLEAN /\ paused' \in BOOLEAN
      <3>1. /\ hudShown \in BOOLEAN /\ paused \in BOOLEAN /\ ApplyVisibility
            /\ overlayVisible' \in BOOLEAN /\ hudVisible' \in BOOLEAN /\ gameFocused' \in BOOLEAN
        BY <1>0, <1>11, Zenon DEF SpawnRenderThread, OnForegroundChanged, FlagsTyped
      <3> QED BY <3>1, VisibilityTyped
    <2> QED BY <1>11, <2>1 DEF SpawnRenderThread, OnForegroundChanged, FlagsTyped
  <1>12. CASE ChangeIntent
    <2>1. hudVisible' \in BOOLEAN
      BY <1>12, Zenon DEF ChangeIntent, FlagsTyped
    <2>2. hudShown' \in BOOLEAN /\ paused' \in BOOLEAN
      <3>1. /\ hudShown \in BOOLEAN /\ paused \in BOOLEAN /\ ApplyVisibility
            /\ overlayVisible' \in BOOLEAN /\ gameFocused' \in BOOLEAN
        BY <1>0, <1>12, Zenon DEF ChangeIntent, FlagsTyped
      <3> QED BY <2>1, <3>1, VisibilityTyped
    <2> QED BY <1>12, <2>1, <2>2 DEF ChangeIntent, FlagsTyped
  <1>13. CASE ApplyLive
    <2>1. rejected' \in BOOLEAN /\ hudVisible' \in BOOLEAN
      BY <1>13, Zenon DEF ApplyLive, FlagsTyped
    <2>2. hudShown' \in BOOLEAN /\ paused' \in BOOLEAN
      <3>1. /\ hudShown \in BOOLEAN /\ paused \in BOOLEAN
            /\ overlayVisible' \in BOOLEAN /\ gameFocused' \in BOOLEAN
        BY <1>0, <1>13, Zenon DEF ApplyLive, FlagsTyped
      <3>2. ApplyVisibility \/ (hudShown' = hudShown /\ paused' = paused)
        BY <1>13, Zenon DEF ApplyLive
      <3> QED BY <2>1, <3>1, <3>2, VisibilityTyped
    <2> QED BY <1>13, <2>1, <2>2 DEF ApplyLive, FlagsTyped
  <1>14. CASE EnterConfigMode
    <2>1. hudShown' \in BOOLEAN /\ paused' \in BOOLEAN /\ hudVisible' \in BOOLEAN
      BY <1>0, <1>14, Zenon DEF EnterConfigMode, FlagsTyped
    <2> QED BY <1>14, <2>1 DEF EnterConfigMode, FlagsTyped
  <1>15. CASE Ending
    BY <1>15, EndingWrites DEF FlagsTyped
  <1>16. CASE \/ ReturnToPump \/ JoinRenderThread \/ CreateFails \/ CarryOutHide
              \/ QueueDrained \/ CheckRebuild \/ ExitConfigMode \/ BeginReload
    BY <1>16 DEF ReturnToPump, JoinRenderThread, CreateFails, CarryOutHide, QueueDrained,
                 CheckRebuild, ExitConfigMode, BeginReload, FlagsTyped
  <1>17. CASE TestStop \/ PumpNothing \/ SeeDeviceLost \/ CheckPasses \/ FinishFrame
    BY <1>17 DEF TestStop, PumpNothing, SeeDeviceLost, CheckPasses, FinishFrame, FlagsTyped
  <1>18. CASE UNCHANGED vars
    BY <1>18 DEF vars, FlagsTyped
  <1> QED
    BY <1>1, <1>2, <1>3, <1>4, <1>5, <1>6, <1>7, <1>8, <1>9, <1>10, <1>11, <1>12, <1>13,
       <1>14, <1>15, <1>16, <1>17, <1>18
       DEF Next, OwnerStep, Message, RenderStep, World, Ending

\* Every variable keeps its type.
THEOREM TypeCorrect == Spec => []TypeOK
  <1> DEFINE Inv == ThreadInv /\ ConfigureInv /\ DataTyped /\ ReasonTyped /\ FlagsTyped
  <1>1. Init => Inv
    <2>1. Init => DataTyped
      <3>1. kAttempts \in Nat \ {0} /\ MaxEvents \in Nat
        BY LifecycleAssumption
      <3>2. Init => /\ opc = "start" /\ caller = "loop" /\ attempt = 0
                    /\ rpc = "none" /\ configPass = "direct"
                    /\ runPass \in {"direct", "passthrough"}
                    /\ dropSink = "running" /\ events = 0
        BY DEF Init
      <3>3. Init => reload \in [pass : {"direct", "passthrough"}, structural : BOOLEAN]
        BY DEF Init
      <3> QED BY <3>1, <3>2, <3>3 DEF DataTyped
    <2>2. Init => ReasonTyped
      BY Zenon DEF Init, ReasonTyped
    <2>3. Init => FlagsTyped
      <3>1. Init => /\ boxOpen \in BOOLEAN /\ quitPosted \in BOOLEAN /\ panicPending \in BOOLEAN
                    /\ stopRequested \in BOOLEAN /\ running \in BOOLEAN
        BY Zenon DEF Init
      <3>2. Init => /\ rebuildRequested \in BOOLEAN /\ targetLost \in BOOLEAN
                    /\ built \in BOOLEAN /\ capturing \in BOOLEAN
        BY Zenon DEF Init
      <3>3. Init => /\ deviceLost \in BOOLEAN /\ windowAlive \in BOOLEAN
                    /\ panicked \in BOOLEAN /\ rejected \in BOOLEAN
        BY Zenon DEF Init
      <3>4. Init => hudVisible \in BOOLEAN /\ paused \in BOOLEAN /\ hudShown \in BOOLEAN
        BY Zenon DEF Init
      <3> QED BY <3>1, <3>2, <3>3, <3>4 DEF FlagsTyped
    <2>4. Init => ConfigureInv
      BY NewOverlayHidden, NewOverlayIdle DEF Init, ConfigureInv, RenderLive
    <2> QED BY <2>1, <2>2, <2>3, <2>4, ThreadInit
  <1>2. Inv /\ [Next]_vars => Inv'
    BY ThreadStep, ConfigureStep, DataStep, ReasonStep, FlagsStep
  <1>3. Inv => TypeOK
    <2> SUFFICES ASSUME Inv PROVE TypeOK
      OBVIOUS
    <2>1. {boxOpen, quitPosted, panicPending, stopRequested, running, rebuildRequested,
           targetLost, overlayVisible, hudVisible, gameFocused, paused, overlayInteractive,
           built, hudShown, capturing, deviceLost, windowAlive, panicked, rejected}
             \subseteq BOOLEAN
      BY DEF ConfigureInv, FlagsTyped
    <2>2. {configPass, runPass} \subseteq {"direct", "passthrough"}
      BY DEF DataTyped
    <2> QED BY <2>1, <2>2, Zenon DEF ConfigureInv, DataTyped, ReasonTyped, TypeOK, Overlay
  <1> QED BY <1>1, <1>2, <1>3, PTL DEF Spec
===============================================================================
