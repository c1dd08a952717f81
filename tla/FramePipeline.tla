---------------------------- MODULE FramePipeline ----------------------------
(***************************************************************************)
(* One frame of the render loop (src/runtime/Pipeline.cpp, from the frame  *)
(* acquired to the luminance swap) on the textures Create made for it:     *)
(* which picture each texture holds, which resource state each is in, what *)
(* the optical flow engine reads on its own queue, and which frame the     *)
(* model's history is of.                                                  *)
(*                                                                         *)
(* A picture is a frame number and an edit for each of two regions: the    *)
(* interface, which the operator's rectangles cover, and the scene.  The   *)
(* device's optional parts may be missing, as in Create.  The direct pass  *)
(* is its state and its resets (module DirectNrPass has its features).     *)
(* Formats, sizes, feathering and timestamps are left out.                 *)
(***************************************************************************)
EXTENDS Integers, Sequences, SequencesExt

CONSTANTS
  MaxFrames,    \* bound of the model: frames acquired
  MaxRebuilds,  \* bound of the model: rebuilds of the device
  MaxPasses     \* passes of the direct pass's setup; 4 in the code

ASSUME FrameAssumption ==
  /\ MaxFrames \in Nat \ {0}
  /\ MaxRebuilds \in Nat
  /\ MaxPasses \in Nat \ {0}

Regions == {"interface", "scene"}
States == {"COMMON", "UAV", "SRV", "COPY_SOURCE", "COPY_DEST"}

\* What Create may fail to make and go on without: the widening pass, the
\* widened frame (normalized), the luminance pass and its two targets, the
\* flow engine, the conversion to motion vectors, the mask blend.
OptionalParts == {"normalize", "view", "luminance", "flow", "motion", "mask"}

VARIABLES
  dev,        \* dev_: the parts that exist and the pass that was made
  pc,         \* where in the frame the render loop is
  frame,      \* frames acquired so far; the newest one's number
  gpu,        \* the texture states as the recorded lists leave them, and
              \* whether each command recorded last found what it names
  view,       \* the frame normalized shows, 0: none
  luma, cur,  \* the frames of the two luminance targets; the current one
  havePrevious,    \* havePreviousFrame
  engine,     \* luminance targets the flow engine reads, unfenced
  haveFlow,   \* the frame's Execute succeeded
  motion,     \* motionTarget: the frames its vectors lead from and to
  given,      \* the pass is given the motion field
  uploaded, hasMask,    \* maskUploaded; the mask's HasMask
  passState, reset,     \* the direct pass: state_ and reset_
  history, kept,   \* the frame of its last evaluate, which kept the history
  depthUploaded,   \* depthUploaded_
  target,     \* the picture neuralTarget holds
  work,       \* the picture workTarget holds
  presented,  \* the picture on screen
  rebuilds

textureVars == <<view, luma, cur, havePrevious, motion, target, work>>
flowVars == <<engine, haveFlow, given>>
maskVars == <<uploaded, hasMask>>
passVars == <<passState, reset, history, kept, depthUploaded>>
vars == <<dev, pc, frame, gpu, textureVars, flowVars, maskVars, passVars,
          presented, rebuilds>>

Original(f) == [r \in Regions |-> [frame |-> f, edited |-> FALSE]]
Edited(f) == [r \in Regions |-> [frame |-> f, edited |-> TRUE]]

-------------------------------------------------------------------------------
(* The device, as Create makes it.                                         *)

\* The direct pass writes the presentable target itself: an SDR desktop, no
\* mask rectangles, a device that can store the format.
DirectResolve(c) == c.direct /\ ~c.hdr /\ ~c.rects /\ c.typedStore

\* The blend is wanted for rectangles, and to resolve what the pass wrote.
WantsMask(c) == c.rects \/ (c.direct /\ ~DirectResolve(c))

\* Without the resolve the direct pass cannot be presented: passthrough.
Device(c) ==
  [direct |-> c.direct /\ (WantsMask(c) => "mask" \in c.parts),
   resolveFolded |-> DirectResolve(c),
   hdr |-> c.hdr,
   rects |-> c.rects,
   typedStore |-> c.typedStore,
   masked |-> WantsMask(c) /\ "mask" \in c.parts,
   parts |-> c.parts]

\* On an HDR desktop the tone-mapped view is not optional.  The device is
\* asked what it can store only where the resolve could be folded.
Configurations ==
  {c \in [direct : BOOLEAN, hdr : BOOLEAN, rects : BOOLEAN,
          typedStore : BOOLEAN, parts : SUBSET OptionalParts] :
     /\ c.hdr => "view" \in c.parts
     /\ c.typedStore => ~c.hdr /\ ~c.rects}

Has(part) == part \in dev.parts
HaveLuma == Has("luminance")
\* Mutant: the frame is widened only for a flow engine to see.
WidensForFlow == Has("view") /\ HaveLuma /\ (dev.hdr \/ Has("normalize"))
Widens == Has("view") /\ (dev.hdr \/ Has("normalize"))

ViaIntermediate == dev.direct /\ ~dev.resolveFolded
Scratch == dev.masked \/ ViaIntermediate

Tex(name) == <<name, 0>>
View == Tex("view")
Motion == Tex("motion")
Mask == Tex("mask")
Neural == Tex("neural")
Work == Tex("work")
Luma(i) == <<"luma", i>>
ModelIn == Tex("modelIn")
ModelOut == Tex("modelOut")
Depth == Tex("depth")
Raw(i) == <<"raw", i>>
Chained(i) == <<"chained", i>>
Textures ==
  {View, Motion, Mask, Neural, Work, ModelIn, ModelOut, Depth,
   Luma(1), Luma(2)}
    \union {Raw(i) : i \in 1 .. MaxPasses - 1}
    \union {Chained(i) : i \in 1 .. MaxPasses - 1}

\* The state each texture is created in.
CreatedIn(d) ==
  [t \in Textures |->
     CASE t \in {Luma(1), Luma(2), Mask, Depth} -> "COMMON"
       [] t = Work -> "COPY_SOURCE"
       [] t = Neural -> IF d.direct THEN "UAV" ELSE "COPY_SOURCE"
       [] OTHER -> "UAV"]

\* A device nothing has run on yet.
Fresh(c) ==
  /\ dev' = Device(c)
  /\ gpu' = [at |-> CreatedIn(Device(c)), ok |-> TRUE]
  /\ view' = 0 /\ luma' = [i \in 1 .. 2 |-> 0] /\ cur' = 1
  /\ havePrevious' = FALSE
  /\ engine' = {} /\ haveFlow' = FALSE /\ given' = FALSE
  /\ motion' = [from |-> 0, to |-> 0]
  /\ uploaded' = FALSE /\ hasMask' = FALSE
  /\ passState' = "WaitingToCreate" /\ reset' = TRUE
  /\ history' = 0 /\ kept' = FALSE /\ depthUploaded' = FALSE
  /\ target' = Original(0) /\ work' = Original(0)

Init ==
  /\ \E c \in Configurations :
       /\ dev = Device(c)
       /\ gpu = [at |-> CreatedIn(Device(c)), ok |-> TRUE]
  /\ pc = "idle" /\ frame = 0
  /\ view = 0 /\ luma = [i \in 1 .. 2 |-> 0] /\ cur = 1
  /\ havePrevious = FALSE
  /\ engine = {} /\ haveFlow = FALSE /\ given = FALSE
  /\ motion = [from |-> 0, to |-> 0]
  /\ uploaded = FALSE /\ hasMask = FALSE
  /\ passState = "WaitingToCreate" /\ reset = TRUE
  /\ history = 0 /\ kept = FALSE /\ depthUploaded = FALSE
  /\ target = Original(0) /\ work = Original(0)
  /\ presented = Original(0)
  /\ rebuilds = 0

-------------------------------------------------------------------------------
(* Command lists.  A command names the state it expects a texture in and   *)
(* the one it leaves it in; a use leaves it as it is.                      *)

Move(t, before, after) == <<[tex |-> t, before |-> before, after |-> after]>>
Use(t, state) == Move(t, state, state)

\* A command, played on texture states and on whether all was as named so far.
Run(g, c) == [at |-> [g.at EXCEPT ![c.tex] = c.after],
              ok |-> g.ok /\ g.at[c.tex] = c.before]

PlayFrom(g, commands) == FoldLeft(Run, g, commands)
Play(commands) == PlayFrom([gpu EXCEPT !.ok = TRUE], commands)

\* What is recorded only under a condition.
When(condition, commands) == IF condition THEN commands ELSE <<>>

\* What holds for each pass from 1 to n, in their order.
Each(n, Commands(_)) == FlattenSeq([i \in 1 .. n |-> Commands(i)])

-------------------------------------------------------------------------------
(* The first list: the SDR view and the luminance.                         *)

ViewCommands ==
  LET luminance == Luma(cur)
      fromView == dev.hdr
  IN When(Widens, Use(View, "UAV"))
     \o When(HaveLuma,
             Move(luminance, "COMMON", "UAV")
             \o When(fromView, Move(View, "UAV", "SRV"))
             \o Use(luminance, "UAV")
             \o When(fromView, Move(View, "SRV", "UAV"))
             \o Move(luminance, "UAV", "COMMON"))

\* AcquireLatest has a frame, but the overlay is hidden: it is consumed.
SkipPaused ==
  /\ pc = "idle"
  /\ frame < MaxFrames
  /\ frame' = frame + 1
  /\ UNCHANGED <<dev, pc, gpu, textureVars, flowVars, maskVars, passVars,
                 presented, rebuilds>>

\* The list is submitted before the flow engine is asked to start.
RecordViews ==
  /\ pc = "idle"
  /\ frame < MaxFrames
  /\ frame' = frame + 1
  /\ gpu' = Play(ViewCommands)
  /\ view' = IF Widens THEN frame + 1 ELSE view
  /\ luma' = IF HaveLuma THEN [luma EXCEPT ![cur] = frame + 1] ELSE luma
  /\ pc' = "flow"
  /\ UNCHANGED <<dev, cur, havePrevious, motion, target, work, flowVars,
                 maskVars, passVars, presented, rebuilds>>

-------------------------------------------------------------------------------
(* The flow engine and the motion field.                                   *)

\* Execute succeeds, and the engine starts on both luminance targets once
\* its input fence is reached; or Execute fails, or there is nothing to run.
EstimateFlow ==
  /\ pc = "flow"
  /\ pc' = "motion"
  /\ \/ /\ Has("flow") /\ HaveLuma /\ havePrevious
        /\ gpu' = Play(Use(Luma(cur), "COMMON") \o Use(Luma(3 - cur), "COMMON"))
        /\ engine' = {1, 2}
        /\ haveFlow' = TRUE
     \/ /\ haveFlow' = FALSE
        /\ UNCHANGED <<gpu, engine>>
  /\ UNCHANGED <<dev, frame, textureVars, given, maskVars, passVars, presented,
                 rebuilds>>

\* Mutant: the queue does not wait for the engine's output fence.
RecordMotionUnfenced ==
  /\ pc = "motion"
  /\ pc' = "mask"
  /\ given' = (haveFlow /\ Has("motion"))
  /\ IF haveFlow /\ Has("motion")
     THEN /\ gpu' = Play(Use(Motion, "UAV"))
          /\ motion' = [from |-> luma[3 - cur], to |-> luma[cur]]
     ELSE UNCHANGED <<gpu, motion>>
  /\ UNCHANGED <<dev, frame, view, luma, cur, havePrevious, target, work,
                 engine, haveFlow, maskVars, passVars, presented, rebuilds>>

\* The second list begins.  The queue waits for the engine, so what follows
\* on it finds the engine done.
RecordMotion ==
  /\ pc = "motion"
  /\ pc' = "mask"
  /\ given' = (haveFlow /\ Has("motion"))
  /\ IF haveFlow /\ Has("motion")
     THEN /\ engine' = {}
          /\ gpu' = Play(Use(Motion, "UAV"))
          /\ motion' = [from |-> luma[3 - cur], to |-> luma[cur]]
     ELSE UNCHANGED <<engine, gpu, motion>>
  /\ UNCHANGED <<dev, frame, view, luma, cur, havePrevious, target, work,
                 haveFlow, maskVars, passVars, presented, rebuilds>>

\* The engine is done with what it was given, at any time.
EngineDone ==
  /\ engine # {}
  /\ engine' = {}
  /\ UNCHANGED <<dev, pc, frame, gpu, textureVars, haveFlow, given, maskVars,
                 passVars, presented, rebuilds>>

\* Rasterise, once for a device: the upload buffer may not map, and then the
\* mask is never tried again.
UploadMask ==
  /\ pc = "mask"
  /\ pc' = "pass"
  /\ IF dev.masked /\ ~uploaded
     THEN /\ uploaded' = TRUE
          /\ \/ /\ hasMask' = TRUE
                /\ gpu' = Play(Move(Mask, "COMMON", "COPY_DEST")
                               \o Move(Mask, "COPY_DEST", "COMMON"))
             \/ UNCHANGED <<hasMask, gpu>>
     ELSE UNCHANGED <<uploaded, hasMask, gpu>>
  /\ UNCHANGED <<dev, frame, textureVars, flowVars, passVars, presented,
                 rebuilds>>

-------------------------------------------------------------------------------
(* The pass.  The render loop brackets it with barriers on its target.     *)

PassTarget == IF Scratch THEN Neural ELSE Work
RestState == IF Scratch THEN "UAV" ELSE "COPY_SOURCE"
ReadState == IF Scratch THEN "SRV" ELSE "COPY_SOURCE"
WriteState == IF dev.direct THEN "UAV" ELSE "COPY_DEST"

Bracketed(evaluate) ==
  When(RestState # WriteState, Move(PassTarget, RestState, WriteState))
  \o evaluate
  \o When(RestState # WriteState, Move(PassTarget, WriteState, RestState))
  \o When(RestState # ReadState, Move(PassTarget, RestState, ReadState))

\* The pass returns true: its picture is in its target.
Writes(picture) ==
  /\ pc = "pass"
  /\ pc' = "blend"
  /\ IF Scratch THEN target' = picture /\ UNCHANGED work
                ELSE work' = picture /\ UNCHANGED target
  /\ UNCHANGED <<dev, frame, view, luma, cur, havePrevious, motion, flowVars,
                 maskVars, presented, rebuilds>>

\* PassthroughPass::Evaluate.
CopyFrame ==
  /\ ~dev.direct
  /\ gpu' = Play(Bracketed(Use(PassTarget, "COPY_DEST")))
  /\ Writes(Original(frame))
  /\ UNCHANGED passVars

\* DirectNrPass::Evaluate uploads the constant depth when it first records.
UploadDepth ==
  When(~depthUploaded, Move(Depth, "COMMON", "COPY_DEST") \o Move(Depth, "COPY_DEST", "SRV"))

Records(commands) ==
  /\ gpu' = Play(Bracketed(UploadDepth \o commands))
  /\ depthUploaded' = TRUE

\* DirectNrPass::CopyThrough: a resample where the formats differ.
CopyThroughCommands ==
  IF dev.resolveFolded
  THEN Move(View, "UAV", "SRV") \o Use(PassTarget, "UAV")
       \o Move(View, "SRV", "UAV")
  ELSE Move(PassTarget, "UAV", "COPY_DEST") \o Move(View, "UAV", "COPY_SOURCE")
       \o Move(View, "COPY_SOURCE", "UAV") \o Move(PassTarget, "COPY_DEST", "UAV")

CopyThrough ==
  /\ Records(CopyThroughCommands)
  /\ Writes(Original(view))
  /\ UNCHANGED <<history, kept>>

\* What the model reads: a copy of the view, where the sizes are the same and
\* its colours need no encoding; or else what a dispatch makes of it.
EncodeCommands(copied) ==
  IF copied
  THEN Move(View, "SRV", "COPY_SOURCE") \o Move(ModelIn, "UAV", "COPY_DEST")
       \o Move(ModelIn, "COPY_DEST", "UAV") \o Move(View, "COPY_SOURCE", "SRV")
  ELSE Use(ModelIn, "UAV")

\* The passes of a setup, up to the one that is refused: n + 1 for none.  The
\* commands name what each reads and writes; a pass hands its output on, or
\* the frame composed with it when the setup chains them.
ModelCommands(n, refused, chained, copied) ==
  LET handedOn == (IF refused > n THEN n ELSE refused) - 1
      Input(i) == IF i = 1 THEN ModelIn
                  ELSE IF chained THEN Chained(i - 1) ELSE Raw(i - 1)
      Output(i) == IF i = n THEN ModelOut ELSE Raw(i)
      Evaluate(i) ==
        Use(Input(i), "SRV") \o Use(Depth, "SRV") \o Use(Motion, "SRV")
        \o Use(Output(i), "UAV")
      HandOn(i) ==
        Evaluate(i) \o Move(Raw(i), "UAV", "SRV")
        \o When(chained, Use(ModelIn, "SRV") \o Move(Chained(i), "UAV", "SRV"))
      TakeBack(i) ==
        Move(Raw(i), "SRV", "UAV")
        \o When(chained, Move(Chained(i), "SRV", "UAV"))
  IN Move(View, "UAV", "SRV") \o Move(Motion, "UAV", "SRV")
     \o EncodeCommands(copied) \o Move(ModelIn, "UAV", "SRV")
     \o Each(handedOn, HandOn)
     \o Evaluate(handedOn + 1)
     \o When(refused > n,
             Move(ModelOut, "UAV", "SRV") \o Use(PassTarget, "UAV")
             \o Move(ModelOut, "SRV", "UAV"))
     \o Each(handedOn, TakeBack)
     \o Move(ModelIn, "SRV", "UAV") \o Move(Motion, "SRV", "UAV")
     \o Move(View, "SRV", "UAV")

\* The features do not exist yet, or never will.
PassThroughDirect ==
  /\ dev.direct /\ Has("view")
  /\ \/ /\ passState = "WaitingToCreate"
        /\ passState' \in {"WaitingToCreate", "CreatedNotYetRun", "Failed"}
     \/ passState = "Failed" /\ passState' \in {"Failed", "WaitingToCreate"}
  /\ CopyThrough
  /\ UNCHANGED reset

Running == dev.direct /\ Has("view") /\ passState \in {"CreatedNotYetRun", "Running"}

\* No motion field: the frame goes by without the model.
NoMotion ==
  /\ Running /\ ~given
  /\ passState' = "Running"
  /\ reset' = TRUE
  /\ CopyThrough

\* The model sees the view and the motion field.  A setup swapped in on this
\* frame resets it too.
EvaluateModel ==
  /\ Running /\ given
  /\ \E n \in 1 .. MaxPasses, chained, copied \in BOOLEAN :
       Records(ModelCommands(n, n + 1, chained, copied))
  /\ \E swapped \in BOOLEAN :
       kept' = ~(reset \/ swapped \/ passState = "CreatedNotYetRun")
  /\ history' = view
  /\ passState' = "Running" /\ reset' = FALSE
  /\ Writes(Edited(view))

\* A pass is refused: the frame goes by without the model, which is given up
\* after too many.
RefuseModel ==
  /\ Running /\ given
  /\ \E n \in 1 .. MaxPasses, chained, copied \in BOOLEAN :
       \E refused \in 1 .. n :
         Records(ModelCommands(n, refused, chained, copied) \o CopyThroughCommands)
  /\ passState' \in {"Running", "Failed"}
  /\ reset' = TRUE
  /\ Writes(Original(view))
  /\ UNCHANGED <<history, kept>>

\* Evaluate returns false, for want of the view or on a fault: the second
\* list is dropped and the loop ends.
Reject ==
  /\ pc = "pass"
  /\ dev.direct
  /\ Has("view") => Running /\ given
  /\ pc' = "rejected"
  /\ UNCHANGED <<dev, frame, gpu, textureVars, flowVars, maskVars, passVars,
                 presented, rebuilds>>

-------------------------------------------------------------------------------
(* The blend, the present and what follows.                                *)

\* Mutant: the scratch target is left as it would be for a copy.
BlendCommandsForCopy ==
  LET fromView == dev.hdr /\ dev.direct
  IN Move(Work, "COPY_SOURCE", "UAV")
     \o When(fromView, Move(View, "UAV", "SRV") \o Use(Neural, "SRV")
                       \o Use(Work, "UAV") \o Move(View, "SRV", "UAV"))
     \o When(~fromView /\ hasMask,
             Use(Neural, "SRV") \o Use(Mask, "COMMON") \o Use(Work, "UAV"))
     \o Move(Work, "UAV", "COPY_SOURCE")
     \o Move(Neural, "SRV", "COPY_SOURCE")

\* The rest of the second list, when the pass wrote a scratch target.
BlendCommands ==
  LET fromView == dev.hdr /\ dev.direct
  IN Move(Work, "COPY_SOURCE", "UAV")
     \o When(fromView, Move(View, "UAV", "SRV") \o Use(Neural, "SRV")
                       \o Use(Work, "UAV") \o Move(View, "SRV", "UAV"))
     \o When(~fromView /\ hasMask,
             Use(Neural, "SRV") \o Use(Mask, "COMMON") \o Use(Work, "UAV"))
     \o Move(Work, "UAV", "COPY_SOURCE")
     \o Move(Neural, "SRV", RestState)

\* UiMask::Record: the original under the rectangles.
Restored ==
  [r \in Regions |->
     IF r = "interface" /\ dev.rects
     THEN [frame |-> frame, edited |-> FALSE]
     ELSE target[r]]

\* Mutant: every pass that resolves is composed, as on an HDR desktop.
BlendComposingAlways ==
  /\ pc = "blend"
  /\ pc' = "present"
  /\ gpu' = IF dev.masked THEN Play(BlendCommands) ELSE gpu
  /\ work' = CASE ~dev.masked -> work
               [] dev.masked /\ dev.direct -> target
               [] dev.masked /\ ~dev.direct /\ hasMask -> Restored
               [] OTHER -> work
  /\ UNCHANGED <<dev, frame, view, luma, cur, havePrevious, motion, target,
                 flowVars, maskVars, passVars, presented, rebuilds>>

\* On an HDR desktop the model's edit is composed onto the original, and the
\* rectangles play no part.  Without a mask the blend records nothing.
Blend ==
  /\ pc = "blend"
  /\ pc' = "present"
  /\ gpu' = IF dev.masked THEN Play(BlendCommands) ELSE gpu
  /\ work' = CASE ~dev.masked -> work
               [] dev.masked /\ dev.hdr /\ dev.direct -> target
               [] dev.masked /\ ~(dev.hdr /\ dev.direct) /\ hasMask -> Restored
               [] OTHER -> work
  /\ UNCHANGED <<dev, frame, view, luma, cur, havePrevious, motion, target,
                 flowVars, maskVars, passVars, presented, rebuilds>>

\* DCompOverlay::Present returns early: there is no back buffer to copy to.
PresentGivesUp ==
  /\ pc = "present"
  /\ pc' = "unpresented"
  /\ UNCHANGED <<dev, frame, gpu, textureVars, flowVars, maskVars, passVars,
                 presented, rebuilds>>

\* DCompOverlay::Present.
Present ==
  /\ pc = "present"
  /\ pc' = "presented"
  /\ gpu' = Play(Use(Work, "COPY_SOURCE"))
  /\ presented' = work
  /\ UNCHANGED <<dev, frame, textureVars, flowVars, maskVars, passVars,
                 rebuilds>>

Readback(t, rest) ==
  When(rest # "COPY_SOURCE", Move(t, rest, "COPY_SOURCE"))
  \o Use(t, "COPY_SOURCE")
  \o When(rest # "COPY_SOURCE", Move(t, "COPY_SOURCE", rest))

\* DumpDebugFrames, when the hotkey asked for it.
Dump ==
  /\ pc \in {"presented", "unpresented"}
  /\ pc' = "dumped"
  /\ gpu' = Play(When(Has("view"), Readback(View, "UAV"))
                 \o When(dev.resolveFolded, Readback(Work, "COPY_SOURCE"))
                 \o When(dev.masked /\ ~dev.resolveFolded,
                         Readback(Neural, "UAV"))
                 \o When(Has("motion"), Readback(Motion, "UAV"))
                 \o Readback(Work, "COPY_SOURCE"))
  /\ UNCHANGED <<dev, frame, textureVars, flowVars, maskVars, passVars,
                 presented, rebuilds>>

\* CalibrationCapture reads the view back, when the manager asked for it.
Capture ==
  /\ pc \in {"presented", "unpresented", "dumped"}
  /\ pc' = "captured"
  /\ gpu' = IF Has("view") THEN Play(Readback(View, "UAV")) ELSE gpu
  /\ UNCHANGED <<dev, frame, textureVars, flowVars, maskVars, passVars,
                 presented, rebuilds>>

\* Mutant: a present that gave up returns before the swap.
SwapLumaIfPresented ==
  /\ pc \in {"presented", "unpresented", "dumped", "captured"}
  /\ pc' = "idle"
  /\ IF HaveLuma /\ pc # "unpresented"
     THEN cur' = 3 - cur /\ havePrevious' = TRUE
     ELSE UNCHANGED <<cur, havePrevious>>
  /\ UNCHANGED <<dev, frame, gpu, view, luma, motion, target, work, flowVars,
                 maskVars, passVars, presented, rebuilds>>

\* This frame's luminance becomes the next one's reference.
SwapLuma ==
  /\ pc \in {"presented", "unpresented", "dumped", "captured"}
  /\ pc' = "idle"
  /\ IF HaveLuma THEN cur' = 3 - cur /\ havePrevious' = TRUE
                 ELSE UNCHANGED <<cur, havePrevious>>
  /\ UNCHANGED <<dev, frame, gpu, view, luma, motion, target, work, flowVars,
                 maskVars, passVars, presented, rebuilds>>

\* RebuildAndRestart, between two frames or after a rejected one, which
\* falls back to passthrough.  The new device meets the same machine.
Rebuild ==
  /\ pc \in {"idle", "rejected"}
  /\ rebuilds < MaxRebuilds
  /\ rebuilds' = rebuilds + 1
  /\ \E direct \in BOOLEAN :
       /\ pc = "rejected" => ~direct
       /\ Fresh([direct |-> direct, hdr |-> dev.hdr, rects |-> dev.rects,
                 typedStore |-> dev.typedStore, parts |-> dev.parts])
  /\ pc' = "idle"
  /\ presented' = Original(0)
  /\ UNCHANGED frame

-------------------------------------------------------------------------------
Next ==
  \/ SkipPaused \/ RecordViews \/ EstimateFlow \/ RecordMotion \/ EngineDone
  \/ UploadMask
  \/ CopyFrame \/ PassThroughDirect \/ NoMotion \/ EvaluateModel
  \/ RefuseModel \/ Reject
  \/ Blend \/ Present \/ PresentGivesUp \/ Dump \/ Capture \/ SwapLuma
  \/ Rebuild

Spec == Init /\ [][Next]_vars

-------------------------------------------------------------------------------
(* Properties.                                                             *)

Picture == [Regions -> [frame : 0 .. MaxFrames, edited : BOOLEAN]]

\* What the variables may hold; the texture states are BarriersMatch's.
TypeOK ==
  /\ dev \in [direct : BOOLEAN, resolveFolded : BOOLEAN, hdr : BOOLEAN,
              rects : BOOLEAN, typedStore : BOOLEAN, masked : BOOLEAN,
              parts : SUBSET OptionalParts]
  /\ pc \in {"idle", "flow", "motion", "mask", "pass", "blend", "present",
             "presented", "unpresented", "dumped", "captured", "rejected"}
  /\ frame \in 0 .. MaxFrames
  /\ view \in 0 .. MaxFrames
  /\ luma \in [1 .. 2 -> 0 .. MaxFrames] /\ cur \in 1 .. 2
  /\ havePrevious \in BOOLEAN
  /\ engine \in SUBSET (1 .. 2)
  /\ haveFlow \in BOOLEAN /\ given \in BOOLEAN
  /\ motion \in [from : 0 .. MaxFrames, to : 0 .. MaxFrames]
  /\ uploaded \in BOOLEAN /\ hasMask \in BOOLEAN
  /\ passState \in {"WaitingToCreate", "CreatedNotYetRun", "Running", "Failed"}
  /\ reset \in BOOLEAN
  /\ history \in 0 .. MaxFrames /\ kept \in BOOLEAN /\ depthUploaded \in BOOLEAN
  /\ target \in Picture /\ work \in Picture /\ presented \in Picture
  /\ rebuilds \in 0 .. MaxRebuilds

\* Every barrier names the state its texture is in, and every use finds the
\* one it needs, whatever the pass, the desktop, the refusals, the dropped
\* lists and the readbacks between two frames -- except for a passthrough
\* pass's first copy into a scratch target, which Create makes in one state
\* where the loop's first barrier names another.
BarriersMatch ==
  [][(gpu' # gpu /\ ~gpu'.ok) =>
       ~dev.direct /\ dev.masked /\ gpu.at[Neural] = "COPY_SOURCE"]_vars

\* What could not be made for this device costs it the picture: the view is
\* not written, or there is no mask to blend with.
ViewNeverWritten == dev.direct /\ ~dev.hdr /\ ~Has("normalize")
BlendNeverRecorded == dev.masked /\ ~hasMask /\ ~(dev.hdr /\ dev.direct)

\* The picture on screen is the frame just acquired, in both regions, and the
\* scene carries the model's edit exactly if the model was evaluated on it:
\* no missing part, refused pass, failed flow or blend shows an older frame.
PresentedIsThisFrame ==
  (pc = "presented" /\ ~ViewNeverWritten /\ ~BlendNeverRecorded) =>
    /\ \A r \in Regions : presented[r].frame = frame
    /\ presented["scene"].edited <=> history = frame

\* Where the operator drew rectangles the model's edit is never presented,
\* though the mask or the pass could not be made -- except on an HDR desktop,
\* where the model's edit is composed without them.
InterfaceUntouched ==
  (dev.rects /\ ~dev.hdr) => ~presented["interface"].edited

\* When the model keeps its history, the motion vectors lead from the frame
\* that history is of to the frame it sees, through skipped frames, refused
\* ones and failed estimates.
MotionMatchesHistory ==
  [][(history' # history /\ kept') =>
       motion = [from |-> history, to |-> frame]]_vars

\* The luminance pass never writes a target the flow engine may still read on
\* its own queue -- as long as the queue waits for its output, which it does
\* where there is a conversion to motion vectors.
FlowInputsSettled ==
  [][\A i \in 1 .. 2 :
       (luma'[i] # luma[i] /\ luma'[i] # 0 /\ Has("motion")) => i \notin engine]_vars
===============================================================================
