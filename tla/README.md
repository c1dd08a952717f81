# The DLSS 5 sidecar in TLA+

The sidecar is a Windows process that captures a game's window, runs a neural
rendering pass over every frame and presents the result in a click-through
overlay above the game. A second process, the manager, starts it, tunes it and
shows its status. This directory holds TLA+ models of the parts of the sidecar
that several threads or processes share, the TLC runs that check them on small
instances and the TLAPS proofs of what holds on every instance.

Paths below are relative to the repository (`src/runtime/Pipeline.cpp` is the
render pipeline). `PROJECT.json` maps each definition to the lines it models.

## 1. The system

Three threads and one foreign process matter:

* the **owner thread**: `wWinMain`, which creates the windows, pumps messages,
  carries out commands and hotkeys, and decides on rebuilds and the exit;
* the **render thread**: `Pipeline::RenderLoop`, one frame after the other;
* the **capture thread**: the Windows Graphics Capture callback that delivers
  frames at the game's rate;
* the **manager process**, which sends window messages and polls a block of
  shared memory, and which alone writes the two settings files both read.

Behind them are the GPU, which executes what they submit, and the world: the
player, the window manager, the driver.

| component | state | operations | meets | hard because | correct when |
|---|---|---|---|---|---|
| `DeviceBridge` | three texture slots, `published_`, `inFlight_`, an event, a fence | Publish, WaitForFrame, AcquireLatest | capture and render thread, GPU | lock-free, two atomics that are not read together | the newest whole frame is taken, a held one is not overwritten, no wake-up is lost |
| `Pipeline`: lifecycle | `dev_`, `config_`, four atomic flags, the render thread | Start, Stop, Rebuild, ApplySettings, Panic | owner and render thread | one thread destroys what the other uses, protected by a join only | device state outlives its users, no request is lost, no process lingers |
| `Pipeline`: windows | visibility intents, focus, pause, configure mode | SetOverlayVisible, OnForegroundChanged, SetOverlayInteractive, ApplyVisibility | owner thread, HUD, overlay, status block | asynchronous hides, windows replaced by rebuilds | an opaque window is up only over the focused game, wanted and fed |
| `Pipeline`: the frame | the device's textures and their states, flow history, two command lists | record and submit views, flow, motion, mask, pass, blend, present; read back; swap | render thread, flow engine's queue, neural pass | a dozen parts any of which may be missing, states named in many places, history across frames | what is presented is this frame, the interface is as drawn, motion belongs to the history it is used with |
| runtime `main` | the message queue, the exit reason | command handler, preset hotkeys, rebuild and exit decisions | manager, Pipeline | nested message loops, flags read one at a time | every reason to stop ends the process, no other does |
| `PanicSwitch` | a hotkey on the render thread | Pump | Pipeline | runs on the thread that does not own the windows | never blocks, is not undone |
| `ControlChannel` | a message window, a named block with a sequence counter | Create, Publish, Read, Send | two processes, and a second runtime | crash, relaunch, torn copies | one runtime owns it, a status read is one that was written |
| `DirectNrPass` | two generations of features, a state, history and failure counters, a pending request | RequestPassSetup, Evaluate | owner and render thread, vendor library | created and used on different frames, creation fails part way, requests replace each other | no feature leaks or is used too early, the history is the right one, the last request wins |
| `DCompOverlay`, `Hud` | windows, swapchain | Show, Hide, Present | owner and render thread, GPU | cross-thread window calls, bounded waits | see windows and ring |
| `DeviceState` as a whole | the parts of one device, most of them optional, with pointers and callbacks into each other | Create, DrainGpu, Rebuild, destruction | owner thread, capture callback, flow engine, GPU | users that are not threads of the process; waits with a limit; tries that fail half way | no part goes before its users, nothing of a device that went away is used on the next |
| `WgcSource`, `WindowTracker` | capture session and handlers; a hook and its queued events | Start, Stop, FrameArrived, EventProc | capture and owner thread, overlay | the target may move, close or be killed; revoking does not wait | a callback finds what it writes to, the overlay lies over the window |
| `NvofaFlow`, `FlowToMotionVec` | two fences, the flow grid, a session | Execute, WaitForIdle, Shutdown | render thread, second GPU queue | two queues, an execute that fails and uses up its fence value | motion belongs to the frame it is used with, textures outlive the engine's reads |
| NGX session, forwarder, factory, manifest | the core (per device), the runtime (per process), the known builds | Create, sidecar_nr_init, MakeNeuralPass, Lookup | DirectNrPass, the manager's board | two lifetimes of one library, refusals half way | the pass is backed by its device's core; the board foretells what the factory does |
| `Config`, `Presets`, `Hotkeys` | settings, `sidecar.toml`, `presets.toml` | load, save, apply, match and step through presets, parse, serialise | both processes, files | two processes on one file, names that stand for looks, clamps, unknown keys | what is saved is what is read and what runs; a name means one look |
| `UiCalibration`, mask geometry | the request, the first capture, the rectangles found, the mask | two captures, pixels to cells to rectangles, rectangles to coverage | render and owner thread, the game | captures taken apart in time, a resize between them, smaller cells and feather at the edges | the rectangles hold what differs and no more, the mask keeps all of it from the model |
| manager | `config`, `presets`, `dirty`, `lastMirroredPreset`, polled status | poll, mirror, save, send, launch, stop, calibrate | runtime, files | answers that come late or not at all, a status up to a second old | what it shows as saved is saved, what it sent is what runs, the runtime cannot freeze it |
| hotkey texts, logging, statistics, profile, theme, test pattern | | | | texts, files and pixels | |

## 2. The modules

| module | what it is |
|---|---|
| `LatestWins` | the abstract mailbox: one frame pending, a new one replaces it, the replaced one is a drop |
| `DeviceBridge` | the ring, one action per access to shared state; implements `LatestWins` |
| `PipelineLifecycle` | owner thread, render thread, windows, panic and the world |
| `ControlChannel` | two runtimes and the reading manager |
| `DirectNrPass` | the neural pass, one action per phase of Evaluate |
| `FramePipeline` | one frame of the render loop on the device's textures, and the device Create makes |
| `DeviceSession` | the parts of a device made, drained, destroyed and made again under their users |
| `SettingsFlow` | the settings between the operator, the manager, the files and the runtime |
| `UiCalibration` | the two captures of a calibration, the rectangles made of them, the mask made of those |
| `SettingsCodec` | the two settings files as text: what becomes of each value when it is written and read |
| `MC...` | instances for TLC |
| `...Proofs` | theorems about the module of that name |
| `ExchangeProofs` | theorems about `ControlChannel` and `SettingsCodec`, the two ways the manager and the runtime tell each other something |

**DeviceBridge.** The capture thread goes through `LoadInFlight`, `SelectSlot`
(the two loads of `NextWritableSlot`), `CopyIntoSlot`, `StampFence`,
`ExchangePublished` and `SignalReady` (Publish and Commit). The render thread
goes through `CheckPublished`, `EventWakes` or `WaitTimesOut` (WaitForFrame),
`AcquireNothing` or `TakePublished`, `Pin` and `ReadFence` (AcquireLatest), and
`SkipPaused` or `Submit` and `PresentRetired` or `PresentGivesUp` (the frame).
`RetireRead` is the GPU. A frame is named by its fence value, which says all a
property needs: which frame a slot holds, which one its stamp names, and which
one the render thread believes it has. `taken`, `gapCommit` and `overtaken` are
history variables; no guard reads them.

**PipelineLifecycle.** Each thread has a program counter and one action per
access to what both share. `opc` walks the owner thread through Start, the
message queue (`pump`), ApplySettings (`merge`), Stop, Rebuild and the three
tests after the queue; `rpc` walks the render thread through the loop, the panic
pump, the two checks and the frame. `RebuildAndRestart` is the sequence
`RequestStop`, `JoinRenderThread`, `Halt`, `DestroyDevice`, `CreateSucceeds` or
`CreateFails` or `GiveUp`, `BeginStart`, `SpawnRenderThread`, and `caller` says
where it returns to. What a frame does to the ring is in `DeviceBridge`: here it
is the one step `FinishFrame`, or `RejectFrame` when the pass refuses it. The
message box after a failed rebuild is a flag: it pumps messages like the loop
and ends in an exit. `Hide` from the render thread is posted (`hidePosted`) and
carried out by the owner; the HUD's is a synchronous call that waits for it.

**ControlChannel.** A runtime looks for the control window, creates it, maps and
initialises the block word by word, publishes word by word between an odd and an
even counter, and leaves in the destructor's order or is killed at any point,
after which the kernel closes its handles in any order against the rest. The
manager opens a view, loads the counter, the words and the counter again. A
status is a function from words to publication numbers, so that a torn copy is
visible as a mixture. The block lives as long as somebody has it open.

**DirectNrPass.** `Evaluate` is cut at the decisions it takes: the pending
request, the next generation (kept, restarted from failure, created, swapped),
the state, the features created one by one, the motion field, and the outcome
of the model. `live` is the vendor library's set of features; `fresh` those
created on the command list being recorded; `shown` the setup whose history the
model holds. `dropped` and `recreated` are history variables.

**FramePipeline.** One action per stage of a frame: `RecordViews` (the first
list: widened frame and luminance), `EstimateFlow`, `RecordMotion`, `UploadMask`,
one of `CopyFrame`, `PassThroughDirect`, `NoMotion`, `EvaluateModel`,
`RefuseModel` and `Reject` (Evaluate of the two passes; `depthUploaded` is the constant
depth the direct pass uploads when it first records, `copied` whether the model's input
is the view itself), `Blend`, `Present` or
`PresentGivesUp`, the readbacks `Dump` and `Capture`, and `SwapLuma`. `dev` is what
Create made: every combination of pass, desktop, rectangles and missing parts is an
initial state. A command list is a sequence of moves (barriers) and uses, each
naming the state it expects; `Play` applies it to `gpu.at` and `gpu.ok` says
whether all of them found what they named. A picture is, per region, the number of
the frame it shows and whether the model edited it, which is what tells an old, a
foreign or a wrongly masked picture from the right one. `EngineDone` is the flow
engine on its own queue. Of the direct pass it has the state and the resets; its
features are in `DirectNrPass`, the ring the frame comes from in `DeviceBridge`, and
what happens to the threads when a frame is rejected in `PipelineLifecycle`.

**DeviceSession.** The owner thread walks through Create (`CreateDevice`, `CreatePass`,
`CreateSource`, or `CreateFails` at any of them), `Start`, its loop (`PumpActs`, `Quit`,
`Reload`, `FollowWindow`), Stop (`Join`, `StopSource`, `Drain`), `Rebuild` and the parts in
reverse order of the members (`DestroyPart`, with what ~DirectNrPass, ~NgxSession and
~NvofaFlow do). `alive` is the set of parts; `dev` numbers the devices, and `passOn`,
`features` and `ngxOn` say which of them the pass, its features and the NGX core belong
to. `runtimeOn` is the neural runtime behind the forwarder, initialised once per process.
`RenderFrame` and `RejectFrame` leave work on the queue and on the flow engine;
`EngineFinishes`, `QueueFinishes`, `FrameArrives` and `CallbackReturns` are the three users
that no join waits for. `issued` counts output fence values, `done` is the one signalled:
an execution the engine refuses raises the first only. `equipment` is the machine, read by
`RuntimeAccepted` and `ForwarderLoads` (the runtime's checks) and by
`BoardForetellsFallback` (the manager's). `strayed`, `gaveUp`, `lost` and `missed` are
history. The flags between the threads are those of `PipelineLifecycle`, cut to one
request; what a frame does is in `FramePipeline` and `DirectNrPass`.

**SettingsFlow.** The manager is one thread: `Poll` (PollLiveState and the mirror),
`LiveApply`, one operator action, `EndFrame`. A write is `OpenFile`, which truncates,
and `WriteFile`, or `RefuseFile`; `why` says what it is for, hence whether its result
is looked at, whether the running overlay is told (`SendReload`, then `Acknowledged`
or `GiveUp` after Send's two seconds) and where the frame goes on (`Resume`). The
operator's actions are the manager's controls, each with what it marks, writes and
sends, which differs from one to the next. The runtime goes `LoadSettings`,
`OpenChannel`, `PublishStatus`, `HandleReload` and `StepPreset`, the last two with
ApplySettings (`ApplyConfig`), and `FinishRebuild` when that could not apply them
live. A look is what a preset carries, reduced to what is decided on: what needs a
rebuild, what is taken live, and the split, which no comparison sees. Files are read
as they are at that moment: a truncated one as any beginning of what is written.
`agreed`, `stepped` and `unkept` are history variables. What the owner thread does
during a rebuild is in `PipelineLifecycle`, how a status is read in one piece in
`ControlChannel`.

**UiCalibration.** The player hides and shows the interface (`ToggleInterface`) and
resizes the window before a rebuild (`Resize`); the operator asks for one of the two
captures (`RequestCalibrationCapture`) and takes the found rectangles into the settings
(`TakeOver`). The render thread serves a request after a present: `CaptureWithInterface`
keeps the frame, `CaptureWithout` compares (steps 1 to 4 of `RectsFromDiff`: pixels,
marked cells, groups, dilation), `ScanRow` is step 5 one row of cells at a time,
`WriteRects` writes the largest; `NothingToCompare` and `ReadbackFails` are the ways a
request comes to nothing. `Rasterise` makes the mask on the first frame that has
rectangles and none. A frame is the set of pixels that do not look like the plain
world, so two captures differ in what the interface covers and in what flickers;
scaling, clamping, feather and union are those of `MaskMath.h`. `compared` and
`limited` are history.

**SettingsCodec.** A file is a sequence of sections, each a header and a table of the
keys it names. `ParseConfig`, `SerializeConfig`, `SerializePresets` and `AllPresets`
(which parses) are operators with the defaults, ranges, inheritance and name rules of
`Config.cpp`; numbers are in thousandths, one digit finer than the text. The actions are
the manager's Tuning page, which edits what it holds while it draws it (`DrawTuning`,
`SlidePass`, `SlideFrame`, `SlidePasses`, `TuneSeparately`, `ChoosePipeline`,
`ToggleAdvanced`), the choices that write (`ChoosePreset`, `ChooseTarget`,
`SaveSettings`, `SavePreset`), `Reopen`, and a hand in either file (`EditText`,
`EditPresetText`). A `presets.toml` that is not there gives no presets and no message, as
an empty one does, and is the empty sequence. `saved` and `seen` are history. When the files are written and who
reads them is in `SettingsFlow`, where a look is reduced to what is decided on.

## 3. The runs

| run | checks | expected |
|---|---|---|
| `bridge` | `ReadyFrameIsNewestAndWhole`, `HeldFrameIntact`, `WakeUpNotLost`; the refinement `ImplementsLatestWins` with its liveness | pass |
| `lifecycle` | `DeviceOutlivesRenderThread`, `ConfigureModeReported`, `RejectedPassStaysOff`, `ShownIsWantedAndFed`; `RequestLoweredUnthreaded`; `NoProcessWithoutLoop`, `ProcessEnds` | pass |
| `panic_final` | design rule I13, that panic stops the pipeline | violated |
| `drops` | that each overwrite reaches the running pipeline's statistics | violated |
| `channel` | `StatusIsWhole`, `OneRuntimeUnlessRaced` | pass |
| `direct_nr` | `EvaluatesOlderFeatures`, `NoFeatureForgotten`, `HistoryIsContinuous`; `SetupTakesEffect` | pass |
| `frame` | `PresentedIsThisFrame`, `InterfaceUntouched`; `BarriersMatch`, `MotionMatchesHistory`, `FlowInputsSettled` | pass |
| `device_session` | `CallbacksFindTheirObjects`, `TexturesOutliveTheirReaders`, `DirectPassIsBacked`; `BoardIsRight`, `OverlayLiesOverWindow`; `TeardownEnds` | pass |
| `settings` | `CleanMeansSaved`, `AcknowledgedMeansApplied`, `NamesAreUnique`, `StepsAreUndone`; `ManagerResponds`, `LiveChangesAreSaved` | pass |
| `settings_status` | the status comment that it names the preset last applied | violated |
| `ui_calibration` | `RunsTileTheCells`, `RectsHoldTheInterface`, `MaskKeepsTheInterface` | pass |
| `settings_codec` | `ReadIsLegal`, `WrittenReadsBack`, `LookKeepsItsName` | pass |

A run that is expected to be violated states what a comment or a document says
and shows that the code does something else; `PROJECT.json` quotes the sentence
under "findings". Where a promise has one known exception, the passing run
checks it with the exception named in the property (`overtaken` in
`HeldFrameIntact`, `raced` in `OneRuntimeUnlessRaced`, `shared` in `StatusIsWhole`, `recreated` in
`NoFeatureForgotten`, `PanicBlocksJoin` in `ProcessEnds`, the first copy into a
scratch target in `BarriersMatch`, `ViewNeverWritten` and `BlendNeverRecorded` in
`PresentedIsThisFrame`, `strayed` in `CallbacksFindTheirObjects`, `gaveUp` in
`TexturesOutliveTheirReaders`, `lost` in `DirectPassIsBacked`, `missed` in
`OverlayLiesOverWindow`, `unkept` in `CleanMeansSaved`, two captures of one size and no
more than `MaxRects` groups in `RectsHoldTheInterface`, the feather of an edge of the
frame or between two rectangles, or one wider than the dilation, in
`MaskKeepsTheInterface`, numbers that are none in
`ReadIsLegal`, numbers typed past a slider's end and strings no text can hold in
`WrittenReadsBack`, presets written by hand with a third decimal in `LookKeepsItsName`),
so that the exception is the only one. An exception that is itself a hazard of the code
(`PanicBlocksJoin`, `raced`, `unkept`, `strayed`, captures of two sizes, strings no text
can hold) is not caught by its property: the property says that there is no other. The two of `PresentedIsThisFrame` are
devices that lost more than the comment in Create admits: without the widening
pass a direct pass on an SDR desktop reads a texture nothing wrote, and a mask whose
upload buffer did not map once is never uploaded, so the blend never runs.

More departures from comments are in the models as they are in the code, without a
run of their own:

* the header promises that an acquired slot is pinned (DeviceBridge.h:65); two frames
  captured between the acquire and the pin overwrite it (`TakePublished`, `Pin`);
* a present that gives up leaves reads of the ring slot, which is released at the next
  acquire whether they are done or not (`PresentGivesUp` in `DeviceBridge`;
  DeviceBridge.cpp:149-152 says they have retired). Until then `HeldFrameIntact` holds
  of that slot too;
* a rebuild request raised between main's two reads ends the process (`CheckRebuild`,
  `CheckRunning`; main.cpp:424-425);
* two runtimes that both look for the control window before either creates one both
  run (`raced` in `ControlChannel`);
* Pipeline.h:161-162 says that Panic is "safe to call from the hotkey callback"; that
  callback runs on the render thread, and Panic hides the HUD with a call that waits for
  the owner thread, which may be waiting in Stop for the render thread
  (`PanicBlocksJoin`, the exception of `ProcessEnds`);
* after a rebuild sidecar_nr_init answers that the runtime is initialised without
  initialising it again (nvngx_forwarder.cpp:196-205), so the runtime keeps the device it
  got first, though Pipeline.cpp:990-993 says that a pass from the settings is made anew
  for the new device (`RuntimeInitialised`);
* WgcSource::Stop revokes the frame handler and goes on; a handler that is running then
  can find the bridge and the source destroyed (`Revoke`, `strayed`);
* an execution that the flow engine refuses has used up its fence value, so every
  teardown until the next accepted one waits its two seconds for an idle engine, twice or
  three times, and then releases the textures without knowing (`FlowBusy`, `gaveUp`);
* the comment in Rebuild (Pipeline.cpp:985-987) gives the drain as what keeps the engine
  from textures that are going away; the luminance targets go before the engine's session
  does, and a drain that ran out is not noticed (`NextToGo`, `WaitBounded`);
* a window that moves while Create runs is not followed until it moves again: the bounds
  are taken first and the tracker comes last (`InitialBounds`, `NewTracker`, `missed`);
* a pass the caller supplied dies with the first try that fails; the next one makes a
  pass from the settings, which later rebuilds take for the supplied one and carry to
  another device (`CreateFails`, `Carried`, `lost`). main supplies none;
* a frame without motion is copied through, not evaluated as a static scene
  (`NoMotion`; Pipeline.cpp:1311-1312);
* settings that are saved while the runtime starts, or written by the mirror, a target
  choice or the advanced switch, are not sent to it; a reload that comes after Send
  gave up can read a file that is being written (`LoadSettings`, `HandleReload`);
* a hotkey step back to the look mirrored last, after the operator chose another, is
  not mirrored, and a status that still names the operator's earlier choice is taken for
  a hotkey's (`Mirrors`; manager/main.cpp:561-566);
* the first barrier of the masked passthrough names UNORDERED_ACCESS for a target that
  is in COPY_SOURCE (Pipeline.cpp:1375-1378; the exception of `BarriersMatch`);
* the first calibration capture survives a rebuild after a resize and is compared with
  one of another size (UiCalibration.h:27 asks for the same; `SameSize`); nothing sets
  the size the rectangles were made for, so they are never scaled (`Rasterise`); of more than
  `MaxRects` groups the smaller ones stay unmasked; and the feather ramps down inside the
  rectangle, which at an edge of the frame or a seam of two rectangles is interface
  (`Coverage`). UiCalibration.cpp:99 gives the dilation as what keeps the ramp "outside the
  text"; with the cell of 32 pixels and the feather of 24 that ship it does, but the
  setting accepts up to 256 (Config.cpp:300), and past 32 the ramp reaches the text;
* an integer past 32 bits is cut before it is clamped, into neither what was written nor
  the nearest legal value (`Wrapped`; Config.cpp:74); NaN passes every clamp (`Legal`);
* a control character in a window's title, or a quote in a pass's name, is written into
  a file that cannot be read: all settings return to their defaults (`Quotable`,
  `SerializeConfig`);
* the numbers of a slider can be typed beyond its ends, and take effect until the file
  is read again (`SlidePass`, `SlidePasses`); a preset written by hand with a third
  decimal is no longer recognised after the settings are saved (`FinerThanText`).

### Bounds

* Ring: depth 3 as in the code, 5 frames. One frame is held, one published and
  one written while two more arrive, which is what it takes to lap a pin; every
  slot index and every wrap of the index occurs.
* Lifecycle: 2 tries for 5 (one that is repeated, one that is last) and 3 events
  of the world. Three are enough for each pair of causes plus one reaction (a
  loss during a reload with a panic in between); every finding needs at most two.
* Channel: 2 runtimes, 2 words, 2 publications each over 3 launches, 2 tries.
  Two words are the least that tear, 3 launches give a killed runtime, its
  successor and a rival. The counter wraps at 2^32 in the code; no bound reaches it.
* Neural pass: at most 2 of 4 passes, 4 handles (two generations of two), the
  first create at frame 2 for `kCreateAtFrame`, 2 refusals for 8, 3 setups: one
  running, one being built, one replacing it.

* Frame pipeline: 4 frames, 1 rebuild, up to 2 of 4 passes. The pass creates on the
  first, resets on the second, keeps its history on the third, and a fourth may be
  skipped, refused or without flow in between; a rebuild may come after any. Two
  passes are the least that hand a picture on, and both ways of handing on occur.

* Device session: 2 tries for 5 and 2 devices, so that every part, wait and failure
  occurs on a device that replaces another; 1 execution on each, taken or refused. Two
  machines: one on which the direct pass can be made and one with a build the manifest
  knows and the adapter cannot run. A supplied pass that dies and is replaced by one that
  is carried needs a third device: there the exception `lost` is needed, and the proof,
  which has no bound, covers it.

* Settings: the two presets that ship and one custom one, so that the list has a
  middle; one application; 4 acts of operator, player and world together and 1 file
  that does not open. Two choices, a step and an exit fit; the finding needs two
  acts. Invariants were also checked with 5 acts.

* Calibration: windows of 11 by 5 and 7 by 6 pixels with cells of 2, so that one has
  smaller cells at both edges and the other at one; groups of 3 cells, 2 rectangles, a
  feather of 2, any of 4 panels (an L, a bar at the edge, one in the middle) with or
  without a flicker that covers one cell and part of another. 4 acts: two captures with
  the interface hidden between them, and a resize or taking the result over.
* Codec: 2 edits, 1 custom preset, 5 typed passes (one more than is kept). Eight keys
  are touched, one or two of each kind: a number that is clamped, one whose range has a
  negative end, the one with a gap in its range, an integer, a switch, a choice, a name
  and the switch the page sets by itself. Values are inside, at and past both ends, finer
  than the text, of the wrong type and no number; `IntModulus` is 2^16 for 2^32, which
  a cut value reaches as well. Two edits are a hand's and an operator's, in either order
  around saving and reopening, which are free.

`CHECK_DEADLOCK FALSE` stands where the program or the bounded world stops: the
process has exited, runtimes are used up, no frames are left to evaluate.

### Fairness

* `DeviceBridge`: weak fairness of the capture callback once it has begun (it
  never blocks), of the render loop (its waits have time limits) and of the GPU.
  Nothing makes a new frame arrive.
* `PipelineLifecycle`: weak fairness of each thread as a whole. Both are
  scheduled by the OS and neither waits without a limit, except in the join and
  in the HUD's hide, which are guards. The message box counts as dismissed in
  the end. Events, losses and rejections are never forced.
* `DirectNrPass`: weak fairness of `Evaluate`, which says that frames keep
  coming; `SetupTakesEffect` is about a pass that is fed and allows for a
  failed create.

* `DeviceSession`: weak fairness of the owner and of the render thread. The engine, the
  GPU, the capture callback, the window and the operator are not fair: `TeardownEnds`
  holds although none of them may ever act, because each wait for them has a limit.
* `SettingsFlow`: weak fairness of the manager's own steps, for it draws frames as long
  as it is open; strong fairness of `LiveApply`, whose condition ("nothing is being
  dragged") comes and goes with every frame, for nobody drags forever; weak fairness
  of the runtime's message loop and of its publishing. A rebuild may hang in a
  driver: `FinishRebuild` is not fair, and the manager must do without. The operator
  does nothing by force.

## 4. The proofs

TLAPS checks every statement below for all values of the constants under the
named assumptions of each module (`BridgeAssumption`: at least three slots;
the others ask only for the kind of each constant).

* **DeviceBridgeProofs.** `TypeCorrect`, then `BridgeInvariant`: a slot is stamped
  before it is published (`StampBeforePublish`), stamps never run ahead of copies
  (`StampsFollowCopies`), the slot being written is neither the published nor the
  pinned one (`WriteIndexAvoidsReady` and its companions), and while the pin is
  pending the taken slot is safe for one more commit (`TakenSlotNotYetPinned`),
  which is why the exception needs two. `ReadyFrame`, `HeldFrame` and `WakeUp`
  follow. `Refinement` shows that each step of the ring is a step of the mailbox or
  a stutter. `SelectedSlot` needs depth three: it is the lemma that a writable
  slot exists.
* **PipelineLifecycleProofs.** `ThreadInv` ties the program counters together
  (when the owner is between the join and the spawn there is no render thread,
  and elsewhere `dev_` is built or there is none). From it `DeviceOutlives` and
  `RequestLowered`. `RejectionInv` carries a rejection through request, join and
  rebuild to the passthrough it ends in (`RejectedStaysOff`); `ShownInv` adds to
  the property what each window can be while it is being replaced (`ShownWanted`).
  `ConfigureInv` says that a new window starts without the mode, and so does the thread
  that will draw in it, and that a thread blocked in the HUD's hide has panicked
  (`ConfigureModeIsReported`). `TypeCorrect` is proved in three parts, names and counts,
  the exit's reason, and Booleans, which different provers are good at.
* **ExchangeProofs, the channel.** `OwnerInv` counts who is past the check for another
  runtime (`OneRuntimeHasChannel`). `SeqlockInv` is the argument of the sequence
  lock: with an even counter the block is one publication, and a reader whose
  first load still equals the counter has copied words of that publication only
  (`StatusReadWhole`).
* **DirectNrPassProofs.** `HistoryInv`, `OwnershipInv` (live features are those
  the two generations hold, which are disjoint) and `CreatedInv` (the features
  fresh on this list belong to a generation not running yet) give `HistoryKept`,
  `FeaturesOwned` and `OlderFeaturesEvaluated`.

* **FramePipelineProofs.** `Resolved` is what Create guarantees of a device: a direct
  pass that cannot write the presentable target has a blend. With `RectanglesKept`
  it gives `InterfaceIsUntouched`. `EngineBetween` bounds the time in which the
  engine may read (`FlowInputsAreSettled`). `FrameSeen` says that the view and the
  current luminance target show this frame, and `HistoryIsReference` that a running
  model's history is the frame in the reference target, which is the other one
  before the pass and the current one after it: from both, `MotionIsHistorys`. For
  `PresentedIsFresh`, `HistoryPast` keeps the history behind the frame until the pass
  and `PictureFollowed` carries the picture from the pass through the blend.
  `BarriersMatch` is about whole command lists, and a list finds what the one before it
  left: `Resting` names the one state each texture has between two lists (the depth
  plane's goes by whether it was uploaded), and TLC
  checked it before it was proved (`RestsBetweenLists`). Playing a list is a fold, whose
  recursive function has to be shown to exist; that is an induction over its length, taken
  from the least element of a set of numbers, as the library's induction theorems cannot
  be instantiated here (`IterExists`, `PlaySteps`, `PlayConcat`). Then one lemma per kind of
  list says what it finds and leaves (`ReadbackLeaves`, `ViewLeaves`, `PlayLeaves` and the
  others), and `BarriersAllMatch` follows for every device, settings and number of passes.

* **DeviceSessionProofs.** `PartsInv` says which parts exist at each point of the owner
  thread's walk, and that they go in reverse order, which gives the last two parts of
  `CallbacksFindTheirObjects`; `ThreadInv` that the capture runs and the render thread
  loops only where all of them exist. `InFlight` follows a callback past the revocation,
  and with it `CallbacksFind`. `WorkInv` says that what the engine and the queue still do
  was issued on this device, and that after the drain (lemma `Drained`) nothing is left of
  it unless a wait ran out: `TexturesOutlive`. `PassInv` ties pass, features, core and
  device together through every way a pass can be lost or carried (`DirectIsBacked`),
  `BoardInv` keeps a pass from a machine that cannot have it (`BoardForetells`), and
  `PlaceInv` says that an overlay which is not over the window has either missed its move
  or is about to be told (`OverlayFollows`). All of it for every number of tries, devices
  and executions and every set of machines.

* **SettingsFlowProofs.** `CleanInv` adds to `CleanMeansSaved` what holds while a file is
  being written: a write that clears the mark is entered with the mark set, so a
  refused one leaves it (`CleanIsSaved`). `AnswerInv` says that a command is sent for
  a whole file only, and that a manager waiting for its answer while none is queued has
  a runtime that runs on that file (`AcknowledgedIsApplied`). Both split on
  manager, operator and runtime, in a lemma each. `UniqueInv` says that the custom
  presets have custom names, one each, and that both files are configurations; what a
  search of the list returns (`SelectInSeq` chooses the first place) comes from the
  library's least element of a set of numbers. With it no two presets share a name
  (`NamesUnique`), a preset found is a preset, and every variable keeps its type
  (`TypeCorrect`). `StepsUndone` follows without a further invariant: by name, a step
  goes to a neighbour in the ring of presets, and the neighbour's neighbour the other
  way is the place itself.

* **UiCalibrationProofs.** `ScanInv` strengthens `RunsTileTheCells`: each run is a block
  of marked cells that no marked cell continues to the left or right (`Block`). That is
  what makes the merge sound, for a run of the next row with the same columns has at
  most one above it (`OneAbove`), and the two are one block (`MergedIsBlock`). That each
  marked cell of a row is in a maximal run (`InSomeRun`) comes from the library's least
  element of a set of numbers, taken once to the left and once to the right
  (`RunsTile`, for every size, cell and set of marked cells). `CalibrationInv` says what a
  finished calibration is of: the two frames it compared and the rectangles of their
  difference. For `RectsHold` the fold of `Components` is shown to keep a partition of the
  cells seen so far into groups that nothing continues and none of which is made of
  smaller ones (`JoinParts`, `KeptAreInGroups`), counting pixels by a numbering of them
  shows that a cell is marked exactly if enough of its pixels differ (`MarkedChanged`),
  and the runs of the grown cells cover the pixels of those cells (`RunCovers`). For
  `MaskKeeps`, the mask of rectangles that fit the frame is the rectangles, and a pixel
  whose feather reaches no pixel outside is covered wholly. The hypothesis
  `Feather <= DilateCells * Cell` of the property is needed: a wider ramp reaches the text.

* **ExchangeProofs, the settings as text.** For all strings, numbers, sections a hand may
  append, touched keys and numbers of edits; `AdditionsAssumption` says of a hand's sections
  only that a value is of its key's type or marked as of another one. `CodecInv` is what
  the files and the manager hold: a file is a sequence of sections whose values have
  their keys' types or are of another (`Readable`), the configuration and each preset have
  exactly the keys of the defaults with values of their types, and the configuration last
  written is the one the text was made from (`CodecTyped`). The step has a lemma per
  action (`SetIs`, `WriteIs` and those after them); what a hand can do to a file is
  `ByHandIs`. `ReadLegal` follows, since all that is read goes through a clamp, except
  what is inherited, and that is a default or was read itself (`ReadIsTyped`,
  `ReadTopIs`). For `WrittenBack`, the sections of one name in a file of six parts are
  the part of that name (`Collect` is a fold; `SectionsConcat`, `PartsOfFile`); rounding to
  hundredths stays within five thousandths of the value and inside every range, whose ends are all
  hundredths (`NumberIs`, `TensOfRanges`), so the clamp changes nothing that was in
  range (`ValueBack`, `TableBack`); looks have one class each, so reading them one after the
  other replaces none (`LooksBack`), and a rectangle's edges fit their width (`RectsBack`).
  Both theorems speak of folds over files of any length; that the library's recursive
  functions exist and go step by step is again taken from the least element of a set of
  numbers (`LooksSteps`, `FlattenSteps`).

  `LookKept` is that a look which is a preset's stays that preset's through both files.
  Which of two values is read as which does not depend on the file: what is read of a
  value is one function of it, `Reread`, the legal value of the rounded one, so values
  that were equal stay equal, whatever they were (`NrReread`, `TopReread`,
  `ConfigReread`), and a configuration that matched a preset matches that preset as read
  (`MatchKept`). A preset that is legal and no finer than the text is its own `Reread`
  (`PresetStays`). The invariant is `SeenInv`: the manager's presets begin with the
  built-in ones and have no name twice (`NamedPresets`), and they are those of the file
  it last read, or the file is what was written from them. The second half is why the
  list need not be compared digit by digit through every edit: a written list is read
  back preset by preset, each section at its preset's place (`PresetParts`,
  `PresetPlaces`, `PresetBack`, `ListBack`). The hypothesis that no hand wrote the preset
  finer than the text is needed: such a preset is read with its third decimal, and the
  configuration made from it has lost it.

Type invariants are proved (`TypeCorrect` of each module) rather than checked by a run;
the runs check what could be wrong.

Every invariant a passing run checks is a theorem. Only model-checked is liveness
(`NoProcessWithoutLoop`, `ProcessEnds`, `TeardownEnds`, `SetupTakesEffect`,
`ManagerResponds`, `LiveChangesAreSaved` and the fair part of the refinement), which is
outside what the prover handles.

## 5. What is not modelled, and why

* The parsing of hotkey texts and their registration with the system; the desktop's
  table of combinations is shared with every other program, and a press is an input of
  `PipelineLifecycle` and `SettingsFlow`.
* The capture's throttle when the player is away (Pipeline.cpp:1680-1689), which corrects
  itself with the next frame; a captured window that changes its size, which the code
  notices at the next rebuild only; GPU adapters and displays, which are queries; the
  manager's installation of files.
* Pixels: shaders, colour conversion, compose parameters, what the model returns.
* Vendor and OS internals: a feature is created, refused or faults; a window is
  shown or hidden; a section lives as long as its handles.
* Foreground rules: focus changes are free, so a hand-over that Windows refuses
  looks like one that is late.
* Data races on strings (`config_.neuralPass` written by the render thread,
  the HUD's model): the order of the accesses is modelled, a torn object is not.
* `memcpy` of a status also writes the counter's own word, with the odd value it
  already holds; that store is left out.
* Statistics, timing records, logging, and what dumps and captures do with the
  pixels they read back.
* Settings: `presets.toml` is written in one step; a write that opens and then fails
  (a full disk) is like one that succeeds; a second runtime process finds the first's
  window and exits unseen; a stop is one of the reasons of `Exit`; a file edited by
  hand while the manager is open. The hotkeys' and logging tables, which are read and
  written as the application's is, the sliders of the split and the model's scale, whose
  keys are read and written, and the texts of hotkeys.
* The early returns of `DrainGpu` and `WaitForIdle` on a fence, an event or a signal that
  cannot be had (Pipeline.cpp:1123-1128, NvofaFlow.cpp:200): the caller goes on as after a
  wait that ran out, which `DeviceSession` has.
* In `SettingsFlow`, that drawing the Tuning page derives `nr.base` and `perPassTuning`
  again without marking the change (manager/main.cpp:1558-1592): both follow from the
  list of passes and are derived again at the next draw, so nothing the operator set is
  lost. `SettingsCodec` models what is derived.
* What a capture holds of a pixel besides being like the plain world or not, and formats
  of textures, so a dump that reads one format as another looks like any other.

## 6. The plan

Order: what can harm a player first, then what can lose their settings.

1. Done: the ring, the lifecycle, the channel, the neural pass, the frame pipeline, the
   way of the settings, their text, and the calibration, as above.
2. Done: `DeviceSession`, which took up what capture and flow keep of a device.
3. The capture callback composed with the ring: frames of another size than the slots
   they are copied into, between a resize of the window and the next rebuild.
4. Theorems: the invariants of every run are proved. Next is an abstract specification
   of the settings, a one-cell register that the file implements between an acknowledged
   save and the next, and a proof that `SettingsFlow` implements it.
5. `Hotkeys`: the parsing of a combination, its registration at launch and with each
   reload, and the panic switch that registers its own on every new render thread.
6. The manager's installation of the runtime files (`Install.cpp`), step by step with
   each step failing.
