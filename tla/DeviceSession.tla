---------------------------- MODULE DeviceSession ----------------------------
(***************************************************************************)
(* What the pipeline holds on a graphics device, from Pipeline::Create to  *)
(* ~Pipeline: how the parts of DeviceState are made, which of them may be  *)
(* missing, how they are drained, taken apart and made again after a       *)
(* device loss, a refused frame or a change of settings (RebuildAndRestart)*)
(* -- while three others still use them: a capture callback on a thread    *)
(* pool, the optical flow engine on a queue of its own, and the GPU.       *)
(*                                                                         *)
(* Two libraries outlive the parts that use them: the NGX core, which one  *)
(* NgxSession initialises and shuts down for its device, and the neural    *)
(* runtime behind the forwarder DLL, which is initialised once for the     *)
(* life of the process.                                                    *)
(*                                                                         *)
(* The flags between the two threads are PipelineLifecycle's; here they    *)
(* are as short as this question allows.                                   *)
(***************************************************************************)
EXTENDS Integers

CONSTANTS
  kAttempts,    \* tries of RebuildAndRestart; 5 in the code
  Equipments,   \* machines: the adapter and the files beside the runtime
  MaxDevices,   \* bound of the model: devices that can be created
  MaxExecutes   \* bound of the model: flow executions on one device

ASSUME SessionAssumption ==
  /\ kAttempts \in Nat \ {0}
  /\ MaxDevices \in Nat \ {0} /\ MaxExecutes \in Nat
  /\ Equipments \subseteq
       [arch: {"Ada", "Blackwell"},
        runtime: {"missing", "unreadable", "stock", "patched", "unknown"},
        forwarder: {"missing", "foreign", "ours"}]

VARIABLES
  equipment,       \* the machine this process runs on
  \* The owner thread.
  opc, after,      \* its next step; why it is creating or taking apart
  tries,           \* failed tries of this RebuildAndRestart
  \* The render thread and the flags.
  rpc, rebuildRequested,
  config, passFromConfig,       \* config_.neuralPass, passFromConfig_
  \* Pipeline::dev_.
  dev, removed,    \* the device, counted from 1; it was removed
  alive,           \* the parts that exist
  pass, passOn,    \* the pass, and the device it was made on
  features,        \* the device the model's features are on; 0: none
  ngxOn,           \* the device the NGX core is initialised for
  runtimeOn,       \* the neural runtime was initialised, on some device
  \* NvofaFlow.
  session,         \* session_: the engine has a session
  issued,          \* outputFenceValue_
  done,            \* what the engine has signalled of it
  working,         \* executions the engine has not finished
  queue,           \* the render queue has work the GPU has not finished
  \* WgcSource and WindowTracker.
  capture,         \* "none", "made", "running"
  inCallback,      \* FrameArrived is being handled on the thread pool
  window,          \* the captured window exists
  over,            \* the overlay's bounds are the window's
  moving,          \* a location change waits in the owner's queue
  \* History.
  strayed,         \* handlers were revoked under the running callback
  gaveUp,          \* a wait of the last teardown ran out
  lost,            \* a pass the caller had supplied died in a failed try
  missed           \* the window moved between SetBounds and the tracker

ownerVars == <<opc, after, tries>>
configVars == <<config, passFromConfig>>
loopVars == <<rpc, rebuildRequested, config, passFromConfig>>
deviceVars == <<dev, removed, alive>>
passVars == <<pass, passOn, features, ngxOn, runtimeOn>>
flowVars == <<session, issued, done, working>>
captureVars == <<capture, inCallback, strayed>>
placeVars == <<window, over, moving, missed>>
historyVars == <<gaveUp, lost>>
vars == <<equipment, ownerVars, loopVars, deviceVars, passVars,
          flowVars, queue, captureVars, placeVars, historyVars>>

\* The members of DeviceState this module is about.
Parts == {"bridge", "source", "overlay", "tracker", "pass", "flow", "lumas"}

\* Their order in DeviceState.
Rank(part) ==
  CASE part = "bridge" -> 1 [] part = "source" -> 2 [] part = "overlay" -> 3
    [] part = "tracker" -> 4 [] part = "pass" -> 5 [] part = "flow" -> 6
    [] part = "lumas" -> 7

\* Mutant: an empty state is assigned over the parts, first to last.
EldestGoesFirst(part) ==
  part \in alive /\ \A other \in alive : Rank(part) <= Rank(other)

\* Destruction runs in reverse.
NextToGo(part) ==
  part \in alive /\ \A other \in alive : Rank(other) <= Rank(part)

\* WgcSource::IsClosed: what Closed said, or, for a process that was killed,
\* what the window manager says; both say that the window is gone.
IsClosed == ~window

-------------------------------------------------------------------------------
(* The machine, and what two parts of the code make of it.                 *)

\* CheckRuntimeCompatibility, on the adapters main does not refuse.
CheckRuntimeCompatibility(arch, variant) ==
  variant = "patched" \/ (variant = "stock" /\ arch = "Blackwell")

\* LookupRuntime knows these builds by their digest.
LookupRuntime(runtime) == runtime \in {"stock", "patched"}

\* The board's checks of the neural runtime and of the forwarder that say the
\* pass will fall back to passthrough.  An unreadable or unknown runtime is
\* only warned of.
BoardForetellsFallback ==
  \/ equipment.runtime = "missing"
  \/ /\ LookupRuntime(equipment.runtime)
     /\ ~CheckRuntimeCompatibility(equipment.arch, equipment.runtime)
  \/ equipment.forwarder = "missing"

\* Mutant: any build the manifest knows is taken.
AnyKnownBuild == equipment.runtime # "missing"

\* DirectNrPass::Create on the file of the runtime.
RuntimeAccepted ==
  /\ equipment.runtime # "missing"
  /\ LookupRuntime(equipment.runtime) =>
       CheckRuntimeCompatibility(equipment.arch, equipment.runtime)

\* NrForwarder::Load: the file is there, with this build's exports and
\* version.
ForwarderLoads == equipment.forwarder = "ours"

-------------------------------------------------------------------------------
(* Pipeline::Create.                                                       *)

\* The process starts Create with a pass from its settings, as main does, or
\* with one that holds no device, as the tests do.
Init ==
  /\ equipment \in Equipments
  /\ opc = "create" /\ after = "launch" /\ tries = 0
  /\ rpc = "none" /\ rebuildRequested = FALSE
  /\ config = "direct" /\ passFromConfig \in BOOLEAN
  /\ dev = 0 /\ removed = FALSE /\ alive = {}
  /\ pass = (IF passFromConfig THEN "none" ELSE "passthrough")
  /\ passOn = 0 /\ features = 0 /\ ngxOn = 0 /\ runtimeOn = FALSE
  /\ session = FALSE /\ issued = 0 /\ done = 0 /\ working = {}
  /\ queue = FALSE
  /\ capture = "none" /\ inCallback = FALSE /\ strayed = FALSE
  /\ window = TRUE /\ over = FALSE /\ moving = FALSE
  /\ gaveUp = FALSE /\ lost = FALSE /\ missed = FALSE

\* Mutant: the first overlay's bounds serve the later ones.
OldBounds == over' = (over \/ dev = 0)

\* The bounds Create gives the overlay: the window's, now.
InitialBounds == over' = TRUE

\* NvofaFlow::Create: without the library, its entry points or the adapter's
\* consent there is no session, and the part exists all the same.
NewSession == session' \in BOOLEAN

\* Create up to the flow: the bridge with its device, the overlay at the
\* window's place, the luminance targets, and a session of the flow engine
\* or none.  What is said of the engine and the queue is from here on said of
\* the new device's.
CreateDevice ==
  /\ opc = "create" /\ window /\ dev < MaxDevices
  /\ opc' = "pass"
  /\ dev' = dev + 1 /\ removed' = FALSE
  /\ alive' = {"bridge", "overlay", "flow", "lumas"}
  /\ InitialBounds /\ missed' = FALSE
  /\ NewSession
  /\ issued' = 0 /\ done' = 0 /\ working' = {}
  /\ queue' = FALSE /\ gaveUp' = FALSE
  /\ UNCHANGED <<equipment, after, tries, loopVars, passVars, captureVars,
                 window, moving, lost>>

\* NgxSession::Create initialises the core for this device.
CoreInitialised == ngxOn' = dev

\* sidecar_nr_init.  A runtime that is initialised stays so, on the device it
\* was initialised with: it is not asked again.
RuntimeInitialised == runtimeOn' = TRUE

\* DirectNrPass::Create with everything in order.
CreateDirectPass ==
  /\ RuntimeAccepted /\ ForwarderLoads
  /\ pass' = "direct" /\ passOn' = dev
  /\ CoreInitialised /\ RuntimeInitialised
  /\ UNCHANGED features

\* What the vendor's libraries answer is open.  Whatever they refuse, before
\* the runtime is initialised or after, the session is taken down with the
\* half-made pass.
DirectPassRefused ==
  /\ UNCHANGED <<passOn, features, ngxOn>>
  /\ \/ UNCHANGED runtimeOn
     \/ RuntimeAccepted /\ ForwarderLoads /\ RuntimeInitialised

\* MakeNeuralPass: a direct pass that is not to be had is a passthrough.
MakeNeuralPass ==
  \/ config = "direct" /\ CreateDirectPass
  \/ config = "direct" /\ DirectPassRefused /\ pass' = "passthrough"
  \/ /\ config = "passthrough" /\ pass' = "passthrough"
     /\ UNCHANGED <<passOn, features, ngxOn, runtimeOn>>

\* Create, the pass.  A pass whose resolve stage cannot be made is replaced by
\* passthrough, which is a refusal after the runtime was initialised.  A
\* supplied pass stays what it is.
CreatePass ==
  /\ opc = "pass" /\ opc' = "source"
  /\ IF pass = "none" THEN MakeNeuralPass ELSE UNCHANGED passVars
  /\ alive' = alive \union {"pass"}
  /\ UNCHANGED <<equipment, after, tries, loopVars, dev, removed, flowVars,
                 queue, captureVars, placeVars, historyVars>>

\* WgcSource::CreateForWindow: the handlers are installed, the session waits.
NewCapture == capture' = "made"

\* WindowTracker::Create, which may return none.
NewTracker == {{}, {"tracker"}}

\* Create, the end.
CreateSource ==
  /\ opc = "source" /\ window
  /\ opc' = "start"
  /\ NewCapture
  /\ \E tracker \in NewTracker :
       alive' = alive \union {"source"} \union tracker
  /\ UNCHANGED <<equipment, after, tries, loopVars, dev, removed, passVars,
                 flowVars, queue, inCallback, strayed, placeVars, historyVars>>

\* Create returns null at any of its steps: the window is gone or changed its
\* size, the adapter refuses, a part that is not optional cannot be made.
\* What was made dies with the Pipeline.  main gives up; RebuildAndRestart
\* tries again, without the pass it may have carried.
CreateFails ==
  /\ opc \in {"create", "pass", "source"}
  /\ tries' = tries + 1
  /\ opc' = IF after = "rebuild" /\ tries' < kAttempts THEN "create"
                                                       ELSE "exited"
  /\ alive' = {} /\ session' = FALSE
  /\ pass' = "none" /\ passOn' = 0 /\ ngxOn' = 0 /\ features' = 0
  /\ lost' = (lost \/ (~passFromConfig /\ pass # "none"))
  /\ UNCHANGED <<equipment, after, loopVars, dev, removed, runtimeOn, issued,
                 done, working, queue, captureVars, placeVars, gaveUp>>

-------------------------------------------------------------------------------
(* The owner thread: start, loop, stop.                                    *)

\* RebuildAndRestart lowers the request; Start starts capture and the thread.
Start ==
  /\ opc = "start" /\ opc' = "pump"
  /\ rebuildRequested' = FALSE
  /\ tries' = 0 /\ after' = "none"
  /\ capture' = "running" /\ rpc' = "loop"
  /\ UNCHANGED <<equipment, config, passFromConfig, deviceVars, passVars,
                 flowVars, queue, inCallback, strayed, placeVars, historyVars>>

\* main finds another overlay running and returns: ~Pipeline.
LaunchRefused ==
  /\ opc = "start" /\ after = "launch"
  /\ opc' = "join" /\ after' = "exit"
  /\ UNCHANGED <<equipment, tries, loopVars, deviceVars, passVars, flowVars,
                 queue, captureVars, placeVars, historyVars>>

\* WindowTracker::EventProc on the owner's queue: the overlay follows to
\* where the window is now.
FollowWindow ==
  /\ opc = "pump" /\ moving
  /\ moving' = FALSE
  /\ over' = (over \/ window)
  /\ UNCHANGED <<equipment, ownerVars, loopVars, deviceVars, passVars,
                 flowVars, queue, captureVars, window, missed, historyVars>>

\* The loop calls RebuildAndRestart or ends in ~Pipeline; both begin with
\* Stop, which raises stopRequested_ and joins.
StopFor(reason) ==
  /\ opc = "pump" /\ opc' = "join" /\ after' = reason
  /\ UNCHANGED <<equipment, tries, rpc, rebuildRequested, deviceVars, passVars,
                 flowVars, queue, captureVars, placeVars, historyVars>>

\* The end of a turn of the loop.  What TargetLost would add, the window
\* manager says.
PumpActs ==
  /\ \/ ~window /\ StopFor("exit")
     \/ window /\ rebuildRequested /\ StopFor("rebuild")
     \/ window /\ ~rebuildRequested /\ rpc = "left" /\ StopFor("exit")
  /\ UNCHANGED configVars

\* WM_QUIT, from the manager or at the end of the session.
Quit == StopFor("exit") /\ UNCHANGED configVars

\* applyConfig with settings that need a rebuild.
Reload ==
  /\ StopFor("rebuild")
  /\ config' \in {"direct", "passthrough"}
  /\ UNCHANGED passFromConfig

\* The render thread has ended, or was never started.
Join ==
  /\ opc = "join" /\ rpc \in {"none", "left"}
  /\ opc' = "revoke" /\ rpc' = "none"
  /\ UNCHANGED <<equipment, after, tries, rebuildRequested, config,
                 passFromConfig, deviceVars, passVars, flowVars, queue,
                 captureVars, placeVars, historyVars>>

\* Mutant: the session goes on and so do its handlers.
KeepHandlers == UNCHANGED <<capture, strayed>>

\* WgcSource::Stop.  Revoking does not wait for a handler that is running.
Revoke == capture' = "none" /\ strayed' = inCallback

StopSource ==
  /\ opc = "revoke" /\ opc' = "drain"
  /\ Revoke
  /\ UNCHANGED <<equipment, after, tries, loopVars, deviceVars, passVars,
                 flowVars, queue, inCallback, placeVars, historyVars>>

-------------------------------------------------------------------------------
(* DrainGpu and the destruction of the parts.                              *)

\* Mutant: the wait has no time limit.
WaitForever(busy) == ~busy /\ UNCHANGED gaveUp

\* A wait ends when what it waits for is done, and after two seconds anyway;
\* one whose fence, signal or event could not be had ends at once, with the
\* same outcome.
WaitBounded(busy) == gaveUp' = (gaveUp \/ busy)

\* NvofaFlow::WaitForIdle waits for a fence value.  An execution the engine
\* refused has taken its value and will not signal it, so the wait runs out
\* although the engine is idle.
FlowBusy == issued > 0 /\ ~removed /\ done < issued

\* Mutant: nothing is waited for.
DrainNothing == UNCHANGED gaveUp

\* DrainGpu: the engine, then the render queue; neither on a removed device.
DrainGpu == WaitBounded(FlowBusy \/ (queue /\ ~removed))

\* Rebuild drains once more what Stop has drained, then takes the pass out if
\* it carries it; ~Pipeline goes on to the parts.
Drain ==
  /\ opc = "drain"
  /\ DrainGpu
  /\ opc' = IF after = "rebuild" THEN "rebuild" ELSE "destroy"
  /\ UNCHANGED <<equipment, after, tries, loopVars, deviceVars, passVars,
                 flowVars, queue, captureVars, placeVars, lost>>

\* Mutant: the pass is always carried across.
AlwaysCarried == TRUE

\* A pass the caller supplied is carried across, one from the settings is not.
Carried == ~passFromConfig

Rebuild ==
  /\ opc = "rebuild" /\ opc' = "destroy"
  /\ DrainGpu
  /\ alive' = IF Carried THEN alive \ {"pass"} ELSE alive
  /\ UNCHANGED <<equipment, after, tries, loopVars, dev, removed, passVars,
                 flowVars, queue, captureVars, placeVars, lost>>

\* Mutant: the destructor leaves its features to the runtime.
ForgetFeatures == UNCHANGED features

\* ~DirectNrPass releases its features, then its NgxSession shuts the core
\* down.  The forwarder and the runtime stay loaded.
ReleaseFeatures == features' = 0

DestroyPass(part) ==
  IF part = "pass"
  THEN /\ pass' = "none" /\ passOn' = 0 /\ ngxOn' = 0
       /\ ReleaseFeatures /\ UNCHANGED runtimeOn
  ELSE UNCHANGED passVars

\* ~NvofaFlow: Shutdown waits once more.  The session is destroyed only on a
\* device that lives; on a removed one it went with the device.
DestroyFlow(part) ==
  IF part = "flow"
  THEN /\ session' = FALSE
       /\ IF session THEN WaitBounded(FlowBusy) ELSE UNCHANGED gaveUp
       /\ UNCHANGED <<issued, done, working>>
  ELSE UNCHANGED <<flowVars, gaveUp>>

\* The parts go one by one; UnhookWinEvent drops what the tracker had not
\* been told.
DestroyPart(part) ==
  /\ opc = "destroy" /\ NextToGo(part)
  /\ alive' = alive \ {part}
  /\ DestroyPass(part) /\ DestroyFlow(part)
  /\ moving' = (moving /\ part # "tracker")
  /\ UNCHANGED <<equipment, ownerVars, loopVars, dev, removed, queue,
                 captureVars, window, over, missed, lost>>

Destroyed ==
  /\ opc = "destroy" /\ alive = {}
  /\ opc' = IF after = "rebuild" THEN "create" ELSE "exited"
  /\ UNCHANGED <<equipment, after, tries, loopVars, deviceVars, passVars,
                 flowVars, queue, captureVars, placeVars, historyVars>>

-------------------------------------------------------------------------------
(* The render thread.                                                      *)

renderRest == <<equipment, ownerVars, deviceVars, pass, passOn, ngxOn,
                runtimeOn, captureVars, placeVars, historyVars>>

\* The top of the loop ends it when Stop or a panic asked for it, on a removed
\* device, for which a rebuild is requested, and on a closed window.  So does
\* a frame that fails.
RenderLeaves ==
  /\ rpc = "loop" /\ rpc' = "left"
  /\ rebuildRequested' \in {rebuildRequested, rebuildRequested \/ removed}
  /\ UNCHANGED <<renderRest, configVars, features, flowVars, queue>>

\* A frame begins: no stop was requested, the device and the window were
\* there.
FrameBegins == rpc = "loop" /\ opc # "join" /\ ~removed /\ ~IsClosed

\* NvofaFlow::Execute, when the frame has what it needs: the engine takes the
\* execution or refuses it, the value is used up either way.
Execute ==
  \/ UNCHANGED flowVars
  \/ /\ session /\ issued < MaxExecutes
     /\ issued' = issued + 1
     /\ working' \in {working, working \union {issued'}}
     /\ UNCHANGED <<session, done>>

\* One frame is submitted.  The direct pass makes its features on it.
RenderFrame ==
  /\ FrameBegins
  /\ Execute
  /\ queue' = TRUE
  /\ features' \in {features, IF pass = "direct" THEN passOn ELSE features}
  /\ UNCHANGED <<renderRest, rpc, rebuildRequested, configVars>>

\* The pass rejects a frame: the second list is not executed, the engine and
\* the first list may be at work, and a rebuild on passthrough is asked for.
RejectFrame ==
  /\ FrameBegins /\ rpc' = "left"
  /\ Execute
  /\ queue' = TRUE
  /\ config' = "passthrough" /\ passFromConfig' = TRUE
  /\ rebuildRequested' = TRUE
  /\ UNCHANGED <<renderRest, features>>

-------------------------------------------------------------------------------
(* The engine, the GPU, the capture and the world.                         *)

\* The engine finishes its eldest execution and signals its value.
EngineFinishes ==
  /\ \E value \in working :
       /\ \A other \in working : value <= other
       /\ working' = working \ {value} /\ done' = value
  /\ UNCHANGED <<equipment, ownerVars, loopVars, deviceVars, passVars, session,
                 issued, queue, captureVars, placeVars, historyVars>>

\* The render queue runs dry.  It waits for the engine, but not in a frame
\* that was rejected.
QueueFinishes ==
  /\ queue /\ queue' = FALSE
  /\ UNCHANGED <<equipment, ownerVars, loopVars, deviceVars, passVars,
                 flowVars, captureVars, placeVars, historyVars>>

\* The device is removed: what it was working on is gone.
LoseDevice ==
  /\ "bridge" \in alive /\ ~removed /\ removed' = TRUE
  /\ working' = {} /\ queue' = FALSE
  /\ UNCHANGED <<equipment, ownerVars, loopVars, dev, alive, passVars, session,
                 issued, done, captureVars, placeVars, historyVars>>

\* A frame arrives: the handler publishes it into the bridge and counts it in
\* the source.
FrameArrives ==
  /\ capture = "running" /\ window /\ ~inCallback
  /\ inCallback' = TRUE
  /\ UNCHANGED <<equipment, ownerVars, loopVars, deviceVars, passVars,
                 flowVars, queue, capture, strayed, placeVars, historyVars>>

CallbackReturns ==
  /\ inCallback /\ inCallback' = FALSE /\ strayed' = FALSE
  /\ UNCHANGED <<equipment, ownerVars, loopVars, deviceVars, passVars,
                 flowVars, queue, capture, placeVars, historyVars>>

\* The window moves: a tracker is told.
MoveWindow ==
  /\ window /\ over' = FALSE
  /\ moving' = (moving \/ "tracker" \in alive)
  /\ missed' = (missed \/ opc \in {"pass", "source"})
  /\ UNCHANGED <<equipment, ownerVars, loopVars, deviceVars, passVars,
                 flowVars, queue, captureVars, window, historyVars>>

CloseWindow ==
  /\ window /\ window' = FALSE
  /\ UNCHANGED <<equipment, ownerVars, loopVars, deviceVars, passVars,
                 flowVars, queue, captureVars, over, moving, missed,
                 historyVars>>

-------------------------------------------------------------------------------
Owner ==
  \/ CreateDevice \/ CreatePass \/ CreateSource \/ CreateFails
  \/ Start \/ LaunchRefused \/ FollowWindow \/ PumpActs
  \/ Join \/ StopSource \/ Drain \/ Rebuild
  \/ \E part \in Parts : DestroyPart(part)
  \/ Destroyed

Render == RenderLeaves \/ RenderFrame \/ RejectFrame

World ==
  \/ Quit \/ Reload
  \/ EngineFinishes \/ QueueFinishes \/ LoseDevice
  \/ FrameArrives \/ CallbackReturns \/ MoveWindow \/ CloseWindow

Next == Owner \/ Render \/ World

Spec == Init /\ [][Next]_vars

\* Each of the two threads goes on while it can.  Nothing is asked of the
\* engine, the GPU, the capture or the operator.
FairSpec == Spec /\ WF_vars(Owner) /\ WF_vars(Render)

-------------------------------------------------------------------------------
(* Properties.                                                             *)

TypeOK ==
  /\ equipment \in Equipments
  /\ opc \in {"create", "pass", "source", "start", "pump", "join", "revoke",
              "drain", "rebuild", "destroy", "exited"}
  /\ after \in {"none", "launch", "rebuild", "exit"}
  /\ tries \in 0 .. kAttempts
  /\ rpc \in {"none", "loop", "left"}
  /\ rebuildRequested \in BOOLEAN
  /\ config \in {"direct", "passthrough"} /\ passFromConfig \in BOOLEAN
  /\ dev \in 0 .. MaxDevices /\ removed \in BOOLEAN
  /\ alive \in SUBSET Parts
  /\ pass \in {"none", "passthrough", "direct"}
  /\ passOn \in 0 .. MaxDevices /\ features \in 0 .. MaxDevices
  /\ ngxOn \in 0 .. MaxDevices /\ runtimeOn \in BOOLEAN
  /\ session \in BOOLEAN /\ issued \in 0 .. MaxExecutes
  /\ done \in 0 .. MaxExecutes /\ working \in SUBSET (1 .. MaxExecutes)
  /\ queue \in BOOLEAN
  /\ capture \in {"none", "made", "running"}
  /\ inCallback \in BOOLEAN /\ strayed \in BOOLEAN
  /\ window \in BOOLEAN /\ over \in BOOLEAN /\ moving \in BOOLEAN
  /\ gaveUp \in BOOLEAN /\ lost \in BOOLEAN /\ missed \in BOOLEAN

\* A capture callback writes into the bridge and into the source from a
\* thread of the pool.  Through every rebuild and exit it finds both -- unless
\* it was already running when its handler was revoked (strayed), which Stop
\* does not wait for.  Nor does a part ever outlive one it points into: the
\* source and the overlay the bridge, the tracker's callback the overlay.
CallbacksFindTheirObjects ==
  /\ inCallback /\ ~strayed => {"bridge", "source"} \subseteq alive
  /\ "source" \in alive \/ "overlay" \in alive => "bridge" \in alive
  /\ "tracker" \in alive => "overlay" \in alive

\* Destroying a texture the GPU or the flow engine still reads is undefined,
\* and crashed: while either is at work, the bridge, the pass, the flow grid
\* and the luminance targets are there -- unless a two second wait for them
\* ran out (gaveUp).
TexturesOutliveTheirReaders ==
  /\ working # {} /\ ~gaveUp => {"bridge", "flow", "lumas"} \subseteq alive
  /\ queue /\ ~gaveUp =>
       {"bridge", "flow", "lumas"} \subseteq alive /\ pass # "none"

\* The direct pass, its features and the NGX core all belong to the device
\* that is there, and the runtime was initialised: nothing of a device that
\* went away is evaluated on the next one, and the core is shut down exactly
\* with the pass.  The exception is a process whose supplied pass died in a
\* failed try: the pass made in its place is taken for supplied and carried.
DirectPassIsBacked ==
  ~lost => /\ pass = "direct" => passOn = dev /\ runtimeOn
           /\ ngxOn = (IF pass = "direct" THEN dev ELSE 0)
           /\ features # 0 => pass = "direct" /\ features = dev

\* Where the manager's board says that the neural pass will fall back, no
\* direct pass is ever made: two parts of the code read the same files and
\* must come to the same conclusion.
BoardIsRight == BoardForetellsFallback => pass # "direct"

\* Between two messages the overlay lies over the window, through moves,
\* rebuilds and failed tries -- unless there is no tracker, or the window
\* moved while Create was between the overlay's bounds and the tracker
\* (missed): that move is not followed until the next one.
OverlayLiesOverWindow ==
  opc = "pump" /\ window /\ "tracker" \in alive /\ ~moving /\ ~missed => over

\* Stop, the drains, the destruction and the tries come to an end, whatever
\* the engine, the GPU and the window do: the owner thread is back in its
\* loop or the process ends.
TeardownEnds == opc \notin {"pump", "exited"} ~> opc \in {"pump", "exited"}
===============================================================================
