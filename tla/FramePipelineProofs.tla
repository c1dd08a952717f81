------------------------ MODULE FramePipelineProofs -------------------------
(***************************************************************************)
(* The motion vectors match the model's history, the interface is left     *)
(* alone, the presented picture is of the frame just acquired and every    *)
(* barrier names the state its texture is in, for every number of frames,  *)
(* rebuilds and passes and every device.                                   *)
(***************************************************************************)
EXTENDS FramePipeline, TLAPS, NaturalsInduction, WellFoundedInduction

-------------------------------------------------------------------------------
(* What the variables may hold.                                            *)

LEMMA PictureTypes ==
  \A f \in 0 .. MaxFrames : Original(f) \in Picture /\ Edited(f) \in Picture
  BY DEF Original, Edited, Picture

LEMMA DeviceType ==
  ASSUME NEW c, c.direct \in BOOLEAN, c.hdr \in BOOLEAN, c.rects \in BOOLEAN,
         c.typedStore \in BOOLEAN, c.parts \in SUBSET OptionalParts
  PROVE  Device(c) \in [direct : BOOLEAN, resolveFolded : BOOLEAN,
                        hdr : BOOLEAN, rects : BOOLEAN, typedStore : BOOLEAN,
                        masked : BOOLEAN, parts : SUBSET OptionalParts]
  <1>1. /\ (c.direct /\ (WantsMask(c) => "mask" \in c.parts)) \in BOOLEAN
        /\ DirectResolve(c) \in BOOLEAN
        /\ (WantsMask(c) /\ "mask" \in c.parts) \in BOOLEAN
    BY DEF DirectResolve, WantsMask
  <1> QED BY <1>1 DEF Device

LEMMA TypeInit == Init => TypeOK
  <1> SUFFICES ASSUME Init PROVE TypeOK
    OBVIOUS
  <1>1. dev \in [direct : BOOLEAN, resolveFolded : BOOLEAN, hdr : BOOLEAN,
                 rects : BOOLEAN, typedStore : BOOLEAN, masked : BOOLEAN,
                 parts : SUBSET OptionalParts]
    BY DeviceType DEF Init, Configurations
  <1>2. 0 \in 0 .. MaxFrames /\ 0 \in 0 .. MaxRebuilds
    BY FrameAssumption
  <1>3. /\ Original(0) \in Picture
        /\ [i \in 1 .. 2 |-> 0] \in [1 .. 2 -> 0 .. MaxFrames]
        /\ [from |-> 0, to |-> 0] \in [from : 0 .. MaxFrames, to : 0 .. MaxFrames]
    BY <1>2, PictureTypes
  <1>4. engine \in SUBSET (1 .. 2) /\ cur \in 1 .. 2
    BY DEF Init
  <1> QED BY <1>1, <1>2, <1>3, <1>4 DEF Init, TypeOK

LEMMA TypeStep == TypeOK /\ [Next]_vars => TypeOK'
  <1> SUFFICES ASSUME TypeOK, [Next]_vars PROVE TypeOK'
    OBVIOUS
  <1> USE FrameAssumption
  <1>1. CASE SkipPaused
    <2>1. frame + 1 \in 0 .. MaxFrames
      BY <1>1 DEF SkipPaused, TypeOK
    <2> QED BY <1>1, <2>1
         DEF TypeOK, SkipPaused, textureVars, flowVars, maskVars, passVars
  <1>2. CASE RecordViews
    <2>1. frame + 1 \in 0 .. MaxFrames
      BY <1>2 DEF RecordViews, TypeOK
    <2>2. view' \in 0 .. MaxFrames /\ luma' \in [1 .. 2 -> 0 .. MaxFrames]
      BY <1>2, <2>1 DEF RecordViews, TypeOK
    <2> QED BY <1>2, <2>1, <2>2
         DEF TypeOK, RecordViews, flowVars, maskVars, passVars
  <1>3. CASE EstimateFlow
    <2>1. \/ haveFlow' = TRUE /\ engine' = {1, 2}
          \/ haveFlow' = FALSE /\ engine' = engine
      BY <1>3, Zenon DEF EstimateFlow
    <2>2. {1, 2} \in SUBSET (1 .. 2)
      OBVIOUS
    <2>3. haveFlow' \in BOOLEAN /\ engine' \in SUBSET (1 .. 2)
      BY <2>1, <2>2 DEF TypeOK
    <2>4. /\ pc' = "motion"
          /\ UNCHANGED <<dev, frame, textureVars, given, maskVars, passVars,
                         presented, rebuilds>>
      BY <1>3, Zenon DEF EstimateFlow
    <2> QED BY <2>3, <2>4 DEF TypeOK, textureVars, maskVars, passVars
  <1>4. CASE RecordMotion
    <2>1. luma[3 - cur] \in 0 .. MaxFrames /\ luma[cur] \in 0 .. MaxFrames
      BY DEF TypeOK
    <2>2. (haveFlow /\ Has("motion")) \in BOOLEAN
      BY DEF TypeOK, Has
    <2>3. /\ given' = (haveFlow /\ Has("motion"))
          /\ engine' = {} \/ engine' = engine
          /\ motion' = [from |-> luma[3 - cur], to |-> luma[cur]] \/ motion' = motion
      BY <1>4 DEF RecordMotion
    <2>4. engine' \in SUBSET (1 .. 2)
      BY <2>3 DEF TypeOK
    <2>5. given' \in BOOLEAN /\ motion' \in [from : 0 .. MaxFrames, to : 0 .. MaxFrames]
      BY <2>1, <2>2, <2>3 DEF TypeOK
    <2>6. /\ pc' = "mask"
          /\ UNCHANGED <<dev, frame, view, luma, cur, havePrevious, target,
                         work, haveFlow, maskVars, passVars, presented,
                         rebuilds>>
      BY <1>4 DEF RecordMotion
    <2> QED BY <2>4, <2>5, <2>6 DEF TypeOK, maskVars, passVars
  <1>5. CASE EngineDone
    <2>1. engine' = {} /\ UNCHANGED <<dev, pc, frame, gpu, textureVars, haveFlow,
                                      given, maskVars, passVars, presented, rebuilds>>
      BY <1>5 DEF EngineDone
    <2>2. engine' \in SUBSET (1 .. 2)
      BY <2>1
    <2> QED BY <2>1, <2>2 DEF TypeOK, textureVars, maskVars, passVars
  <1>6. CASE UploadMask
    <2>1. uploaded' \in BOOLEAN /\ hasMask' \in BOOLEAN
      BY <1>6 DEF TypeOK, UploadMask
    <2>2. /\ pc' = "pass"
          /\ UNCHANGED <<dev, frame, textureVars, flowVars, passVars, presented,
                         rebuilds>>
      BY <1>6 DEF UploadMask
    <2> QED BY <2>1, <2>2 DEF TypeOK, textureVars, flowVars, passVars
  <1>7. CASE CopyFrame
    BY <1>7, PictureTypes DEF TypeOK, CopyFrame, Writes, flowVars, maskVars, passVars
  <1>8. CASE PassThroughDirect
    <2>1. Original(view) \in Picture
      BY PictureTypes DEF TypeOK
    <2> QED BY <1>8, <2>1
         DEF TypeOK, PassThroughDirect, CopyThrough, Records, Writes, flowVars, maskVars
  <1>9. CASE NoMotion
    <2>1. Original(view) \in Picture
      BY PictureTypes DEF TypeOK
    <2> QED BY <1>9, <2>1
         DEF TypeOK, NoMotion, CopyThrough, Records, Writes, flowVars, maskVars
  <1>10. CASE EvaluateModel
    <2>1. Edited(view) \in Picture
      BY PictureTypes DEF TypeOK
    <2>2. kept' \in BOOLEAN
      BY <1>10 DEF EvaluateModel
    <2>3. target' \in Picture /\ work' \in Picture /\ pc' = "blend"
      BY <1>10, <2>1 DEF TypeOK, EvaluateModel, Writes
    <2>4. /\ UNCHANGED <<dev, frame, view, luma, cur, havePrevious, motion, flowVars,
                         maskVars, presented, rebuilds>>
          /\ history' = view /\ passState' = "Running" /\ reset' = FALSE
          /\ depthUploaded' = TRUE
      BY <1>10 DEF EvaluateModel, Records, Writes
    <2>5. /\ history' \in 0 .. MaxFrames
          /\ pc' \in {"idle", "flow", "motion", "mask", "pass", "blend", "present",
                     "presented", "unpresented", "dumped", "captured", "rejected"}
          /\ passState' \in {"WaitingToCreate", "CreatedNotYetRun", "Running", "Failed"}
          /\ reset' \in BOOLEAN /\ depthUploaded' \in BOOLEAN
      BY <2>3, <2>4 DEF TypeOK
    <2>6. /\ UNCHANGED <<dev, frame, view, luma, cur, havePrevious, motion, presented,
                         rebuilds>>
          /\ UNCHANGED <<engine, haveFlow, given, uploaded, hasMask>>
      BY <2>4 DEF flowVars, maskVars
    <2> QED BY <2>2, <2>3, <2>5, <2>6 DEF TypeOK
  <1>11. CASE RefuseModel
    <2>1. Original(view) \in Picture
      BY PictureTypes DEF TypeOK
    <2> QED BY <1>11, <2>1 DEF TypeOK, RefuseModel, Records, Writes, flowVars, maskVars
  <1>12. CASE Reject
    BY <1>12 DEF TypeOK, Reject, textureVars, flowVars, maskVars, passVars
  <1>13. CASE Blend
    <2>1. Restored \in Picture
      BY DEF TypeOK, Restored, Picture
    <2>2. work' \in Picture
      BY <1>13, <2>1 DEF Blend, TypeOK
    <2> QED BY <1>13, <2>2 DEF TypeOK, Blend, flowVars, maskVars, passVars
  <1>14. CASE Present
    BY <1>14 DEF TypeOK, Present, textureVars, flowVars, maskVars, passVars
  <1>20. CASE PresentGivesUp
    BY <1>20 DEF TypeOK, PresentGivesUp, textureVars, flowVars, maskVars, passVars
  <1>15. CASE Dump
    BY <1>15 DEF TypeOK, Dump, textureVars, flowVars, maskVars, passVars
  <1>16. CASE Capture
    BY <1>16 DEF TypeOK, Capture, textureVars, flowVars, maskVars, passVars
  <1>17. CASE SwapLuma
    <2>1. 3 - cur \in 1 .. 2
      BY DEF TypeOK
    <2>2. cur' \in 1 .. 2 /\ havePrevious' \in BOOLEAN
      BY <1>17, <2>1 DEF SwapLuma, TypeOK
    <2> QED BY <1>17, <2>2 DEF TypeOK, SwapLuma, flowVars, maskVars, passVars
  <1>18. CASE Rebuild
    <2>1. PICK direct \in BOOLEAN :
            Fresh([direct |-> direct, hdr |-> dev.hdr, rects |-> dev.rects,
                   typedStore |-> dev.typedStore, parts |-> dev.parts])
      BY <1>18 DEF Rebuild
    <2> DEFINE c == [direct |-> direct, hdr |-> dev.hdr, rects |-> dev.rects,
                     typedStore |-> dev.typedStore, parts |-> dev.parts]
    <2>2. Device(c) \in [direct : BOOLEAN, resolveFolded : BOOLEAN,
                         hdr : BOOLEAN, rects : BOOLEAN, typedStore : BOOLEAN,
                         masked : BOOLEAN, parts : SUBSET OptionalParts]
      BY DeviceType DEF TypeOK
    <2>3. dev' = Device(c) /\ Fresh(c)
      BY <2>1 DEF Fresh
    <2> HIDE DEF c
    <2>4. /\ Original(0) \in Picture
          /\ [i \in 1 .. 2 |-> 0] \in [1 .. 2 -> 0 .. MaxFrames]
          /\ [from |-> 0, to |-> 0] \in [from : 0 .. MaxFrames, to : 0 .. MaxFrames]
          /\ {} \in SUBSET (1 .. 2)
      BY PictureTypes
    <2>5. rebuilds' \in 0 .. MaxRebuilds
      BY <1>18 DEF TypeOK, Rebuild
    <2>6. /\ pc' = "idle" /\ presented' = Original(0) /\ frame' = frame
      BY <1>18 DEF Rebuild
    <2>7. /\ view' = 0 /\ luma' = [i \in 1 .. 2 |-> 0] /\ cur' = 1
          /\ havePrevious' = FALSE
          /\ engine' = {} /\ haveFlow' = FALSE /\ given' = FALSE
          /\ motion' = [from |-> 0, to |-> 0]
          /\ uploaded' = FALSE /\ hasMask' = FALSE
          /\ passState' = "WaitingToCreate" /\ reset' = TRUE
          /\ history' = 0 /\ kept' = FALSE /\ depthUploaded' = FALSE
          /\ target' = Original(0) /\ work' = Original(0)
      BY <2>3 DEF Fresh
    <2>8. engine' \in SUBSET (1 .. 2)
      BY <2>7
    <2>9. luma' \in [1 .. 2 -> 0 .. MaxFrames] /\ cur' \in 1 .. 2
      BY <2>4, <2>7
    <2> QED BY <2>2, <2>3, <2>4, <2>5, <2>6, <2>7, <2>8, <2>9 DEF TypeOK
  <1>19. CASE UNCHANGED vars
    BY <1>19 DEF TypeOK, vars, textureVars, flowVars, maskVars, passVars
  <1> QED
    BY <1>1, <1>2, <1>3, <1>4, <1>5, <1>6, <1>7, <1>8, <1>9, <1>10, <1>11,
       <1>12, <1>13, <1>14, <1>15, <1>16, <1>17, <1>18, <1>19, <1>20 DEF Next

\* The frame pipeline's variables keep their types: Pipeline::RenderLoop.
THEOREM TypeCorrect == Spec => []TypeOK
  BY TypeInit, TypeStep, PTL DEF Spec

-------------------------------------------------------------------------------
(* The device: a direct pass that cannot present its own output has a      *)
(* blend that does, and only an SDR desktop without rectangles folds it.   *)

Resolved(d) ==
  /\ d.resolveFolded => d.direct /\ ~d.hdr /\ ~d.rects
  /\ d.direct /\ ~d.resolveFolded => d.masked
  /\ d.hdr => "view" \in d.parts

LEMMA DeviceResolved ==
  ASSUME NEW c, c.hdr => "view" \in c.parts
  PROVE  Resolved(Device(c))
  <1>1. /\ DirectResolve(c) = (c.direct /\ ~c.hdr /\ ~c.rects /\ c.typedStore)
        /\ WantsMask(c) = (c.rects \/ (c.direct /\ ~DirectResolve(c)))
    BY DEF DirectResolve, WantsMask
  <1> DEFINE d == Device(c)
  <1>2. /\ d.direct = (c.direct /\ (WantsMask(c) => "mask" \in c.parts))
        /\ d.resolveFolded = DirectResolve(c)
        /\ d.hdr = c.hdr /\ d.rects = c.rects /\ d.parts = c.parts
        /\ d.masked = (WantsMask(c) /\ "mask" \in c.parts)
    BY DEF Device
  <1> HIDE DEF d
  <1>3. d.resolveFolded => d.direct /\ ~d.hdr /\ ~d.rects
    BY <1>1, <1>2
  <1>4. d.direct /\ ~d.resolveFolded => d.masked
    BY <1>1, <1>2
  <1>5. d.hdr => "view" \in d.parts
    BY <1>2
  <1>6. Resolved(d)
    BY <1>3, <1>4, <1>5 DEF Resolved
  <1> QED BY <1>6 DEF d

LEMMA DeviceInit == Init => Resolved(dev)
  BY DeviceResolved DEF Init, Configurations

\* What a rebuild does to the variables the invariants speak of.
LEMMA RebuildEffect ==
  ASSUME Resolved(dev), Rebuild
  PROVE  /\ Resolved(dev)'
         /\ dev'.rects = dev.rects /\ dev'.hdr = dev.hdr
         /\ dev'.parts = dev.parts
         /\ pc' = "idle" /\ frame' = frame
         /\ view' = 0 /\ luma' = [i \in 1 .. 2 |-> 0]
         /\ engine' = {} /\ haveFlow' = FALSE /\ given' = FALSE
         /\ passState' = "WaitingToCreate"
         /\ history' = 0 /\ kept' = FALSE
         /\ work' = Original(0) /\ presented' = Original(0)
  <1>1. PICK direct \in BOOLEAN :
          Fresh([direct |-> direct, hdr |-> dev.hdr, rects |-> dev.rects,
                 typedStore |-> dev.typedStore, parts |-> dev.parts])
    BY DEF Rebuild
  <1> DEFINE c == [direct |-> direct, hdr |-> dev.hdr, rects |-> dev.rects,
                   typedStore |-> dev.typedStore, parts |-> dev.parts]
  <1>2. c.hdr => "view" \in c.parts
    BY DEF Resolved
  <1>3. c.rects = dev.rects /\ c.hdr = dev.hdr /\ c.parts = dev.parts
    OBVIOUS
  <1>4. Fresh(c)
    BY <1>1
  <1> HIDE DEF c
  <1>5. Resolved(Device(c))
    BY <1>2, DeviceResolved
  <1>6. dev' = Device(c)
    BY <1>4 DEF Fresh
  <1>7. dev'.rects = c.rects /\ dev'.hdr = c.hdr /\ dev'.parts = c.parts
    BY <1>6 DEF Device
  <1>8. /\ view' = 0 /\ luma' = [i \in 1 .. 2 |-> 0]
        /\ haveFlow' = FALSE /\ given' = FALSE
        /\ passState' = "WaitingToCreate"
        /\ history' = 0 /\ kept' = FALSE
        /\ work' = Original(0)
    BY <1>4 DEF Fresh
  <1>9. engine' = {}
    BY <1>4 DEF Fresh
  <1>10. pc' = "idle" /\ frame' = frame /\ presented' = Original(0)
    BY DEF Rebuild
  <1> QED BY <1>3, <1>5, <1>6, <1>7, <1>8, <1>9, <1>10 DEF Resolved

\* Only a rebuild changes the device.
LEMMA DeviceKept == Next => dev' = dev \/ Rebuild
  BY DEF Next, SkipPaused, RecordViews, EstimateFlow, RecordMotion, EngineDone,
     UploadMask, CopyFrame, PassThroughDirect, NoMotion, CopyThrough,
     EvaluateModel, RefuseModel, Writes, Reject, Blend, Present, PresentGivesUp,
     Dump, Capture, SwapLuma

LEMMA DeviceStep == Resolved(dev) /\ [Next]_vars => Resolved(dev)'
  BY DeviceKept, RebuildEffect DEF Resolved, vars

-------------------------------------------------------------------------------
(* The rectangles: no picture that carries the edit under them reaches the *)
(* target that is presented.                                               *)

RectanglesKept ==
  (dev.rects /\ ~dev.hdr) =>
    ~work["interface"].edited /\ ~presented["interface"].edited

\* No action but these writes the presentable target or the screen.
LEMMA WorkKept ==
  Next => \/ work' = work /\ presented' = presented
          \/ \E f : pc = "pass" /\ Writes(Original(f)) /\ presented' = presented
          \/ dev.direct /\ Writes(Edited(view)) /\ presented' = presented
          \/ Blend \/ Present \/ Rebuild
  <1> SUFFICES ASSUME Next
               PROVE  \/ work' = work /\ presented' = presented
                      \/ \E f : pc = "pass" /\ Writes(Original(f))
                                /\ presented' = presented
                      \/ dev.direct /\ Writes(Edited(view)) /\ presented' = presented
                      \/ Blend \/ Present \/ Rebuild
    OBVIOUS
  <1>1. CASE CopyFrame \/ PassThroughDirect \/ NoMotion \/ RefuseModel
    <2>1. Writes(Original(frame)) \/ Writes(Original(view))
      BY <1>1 DEF CopyFrame, PassThroughDirect, NoMotion, CopyThrough, RefuseModel
    <2> QED BY <2>1 DEF Writes
  <1>2. CASE EvaluateModel
    <2>1. dev.direct /\ Writes(Edited(view))
      BY <1>2 DEF EvaluateModel, Running
    <2> QED BY <2>1 DEF Writes
  <1>3. CASE SkipPaused \/ RecordViews \/ EstimateFlow \/ RecordMotion \/ EngineDone
             \/ UploadMask \/ Reject \/ PresentGivesUp \/ Dump \/ Capture \/ SwapLuma
    BY <1>3 DEF SkipPaused, RecordViews, EstimateFlow, RecordMotion, EngineDone,
       UploadMask, Reject, PresentGivesUp, Dump, Capture, SwapLuma, textureVars
  <1> QED BY <1>1, <1>2, <1>3 DEF Next

LEMMA RectanglesInit == Init => RectanglesKept
  BY DEF Init, RectanglesKept, Original, Regions

LEMMA RectanglesStep ==
  Resolved(dev) /\ RectanglesKept /\ [Next]_vars => RectanglesKept'
  <1> SUFFICES ASSUME Resolved(dev), RectanglesKept, [Next]_vars
               PROVE  RectanglesKept'
    OBVIOUS
  <1>1. CASE UNCHANGED vars
    BY <1>1 DEF vars, textureVars, RectanglesKept
  <1>2. CASE Rebuild
    BY <1>2, RebuildEffect DEF RectanglesKept, Original, Regions
  <1>3. CASE Next /\ ~Rebuild
    <2>1. dev' = dev
      BY <1>3, DeviceKept
    <2>2. CASE work' = work /\ presented' = presented
      BY <2>1, <2>2 DEF RectanglesKept
    <2>3. CASE \E f : pc = "pass" /\ Writes(Original(f)) /\ presented' = presented
      <3>1. PICK f : Writes(Original(f)) /\ presented' = presented
        BY <2>3
      <3>2. work' = work \/ work' = Original(f)
        BY <3>1 DEF Writes
      <3> QED BY <2>1, <3>1, <3>2 DEF RectanglesKept, Original, Regions
    <2>4. CASE dev.direct /\ Writes(Edited(view)) /\ presented' = presented
      <3>1. Scratch => work' = work
        BY <2>4 DEF Writes
      <3>2. dev.rects => Scratch
        BY <2>4 DEF Resolved, Scratch
      <3> QED BY <2>1, <2>4, <3>1, <3>2 DEF RectanglesKept
    <2>5. CASE Blend
      <3>1. presented' = presented
        BY <2>5 DEF Blend
      <3>2. ~dev.hdr => work' = work \/ work' = Restored
        BY <2>5 DEF Blend
      <3>3. dev.rects => ~Restored["interface"].edited
        BY DEF Restored, Regions
      <3> QED BY <2>1, <3>1, <3>2, <3>3 DEF RectanglesKept
    <2>6. CASE Present
      BY <2>1, <2>6 DEF Present, textureVars, RectanglesKept
    <2> QED BY <1>3, <2>2, <2>3, <2>4, <2>5, <2>6, WorkKept
  <1> QED BY <1>1, <1>2, <1>3

\* Where the operator drew rectangles on an SDR desktop, the model's edit is
\* never presented under them: Pipeline::RenderLoop, UiMask::Record.
THEOREM InterfaceIsUntouched == Spec => []InterfaceUntouched
  <1>1. Init => Resolved(dev) /\ RectanglesKept
    BY DeviceInit, RectanglesInit
  <1>2. Resolved(dev) /\ RectanglesKept /\ [Next]_vars
          => (Resolved(dev) /\ RectanglesKept)'
    BY DeviceStep, RectanglesStep
  <1>3. RectanglesKept => InterfaceUntouched
    BY DEF RectanglesKept, InterfaceUntouched
  <1> QED BY <1>1, <1>2, <1>3, PTL DEF Spec

-------------------------------------------------------------------------------
(* The flow engine: it reads the luminance targets only between Execute    *)
(* and the wait of the frame that called it.                               *)

EngineBetween ==
  Has("motion") /\ ~(pc = "motion" /\ haveFlow) => engine = {}

LEMMA EngineInit == Init => EngineBetween
  BY DEF Init, EngineBetween

LEMMA EngineStep == Resolved(dev) /\ EngineBetween /\ [Next]_vars => EngineBetween'
  <1> SUFFICES ASSUME Resolved(dev), EngineBetween, [Next]_vars PROVE EngineBetween'
    OBVIOUS
  <1>1. CASE Rebuild
    BY <1>1, RebuildEffect DEF EngineBetween
  <1>2. CASE EstimateFlow
    BY <1>2 DEF EstimateFlow, EngineBetween, Has
  <1>3. CASE RecordMotion
    BY <1>3 DEF RecordMotion, EngineBetween, Has
  <1>4. CASE EngineDone
    BY <1>4 DEF EngineDone, EngineBetween
  <1>5. CASE /\ dev' = dev /\ engine' = engine /\ haveFlow' = haveFlow
             /\ pc # "motion" \/ pc' = pc
    BY <1>5 DEF EngineBetween, Has
  <1>6. CASE UNCHANGED vars
    BY <1>5, <1>6 DEF vars, flowVars
  <1>7. CASE SkipPaused \/ RecordViews \/ UploadMask \/ Reject \/ Blend \/ Present \/ PresentGivesUp
             \/ Dump \/ Capture \/ SwapLuma
    BY <1>5, <1>7 DEF SkipPaused, RecordViews, UploadMask, Reject, Blend,
       Present, PresentGivesUp, Dump, Capture, SwapLuma, flowVars
  <1>8. CASE CopyFrame \/ PassThroughDirect \/ NoMotion \/ EvaluateModel \/ RefuseModel
    BY <1>5, <1>8 DEF CopyFrame, PassThroughDirect, NoMotion, CopyThrough,
       EvaluateModel, RefuseModel, Writes, flowVars
  <1> QED BY <1>1, <1>2, <1>3, <1>4, <1>6, <1>7, <1>8 DEF Next

\* Only the first list and a rebuild write the luminance targets.
LEMMA LumaKept == [Next]_vars => luma' = luma \/ RecordViews \/ Rebuild
  BY DEF Next, SkipPaused, EstimateFlow, RecordMotion, EngineDone,
     UploadMask, CopyFrame, PassThroughDirect, NoMotion, CopyThrough,
     EvaluateModel, RefuseModel, Writes, Reject, Blend, Present, PresentGivesUp,
     Dump, Capture, SwapLuma, vars, textureVars

LEMMA SettledStep ==
  ASSUME Resolved(dev), EngineBetween, [Next]_vars,
         NEW i \in 1 .. 2, luma'[i] # luma[i], luma'[i] # 0, Has("motion")
  PROVE  i \notin engine
  <1>1. CASE RecordViews
    BY <1>1 DEF RecordViews, EngineBetween
  <1>2. CASE Rebuild
    BY <1>2, RebuildEffect
  <1> QED BY <1>1, <1>2, LumaKept

\* No luminance target is rewritten while the flow engine may read it:
\* NvofaFlow::Execute and WaitForIdle, called by Pipeline::RenderLoop.
THEOREM FlowInputsAreSettled == Spec => FlowInputsSettled
  <1>1. Init => Resolved(dev) /\ EngineBetween
    BY DeviceInit, EngineInit
  <1>2. Resolved(dev) /\ EngineBetween /\ [Next]_vars
          => (Resolved(dev) /\ EngineBetween)'
    BY DeviceStep, EngineStep
  <1>3. Resolved(dev) /\ EngineBetween /\ [Next]_vars
          => [\A i \in 1 .. 2 :
                (luma'[i] # luma[i] /\ luma'[i] # 0 /\ Has("motion"))
                  => i \notin engine]_vars
    BY SettledStep
  <1> QED BY <1>1, <1>2, <1>3, PTL DEF Spec, FlowInputsSettled

-------------------------------------------------------------------------------
(* The history: the frame a running model last saw is in the luminance     *)
(* target that is the flow engine's reference.                             *)

InFrame == pc \notin {"idle", "rejected"}

\* The view shows this frame, and the current luminance target holds it.
FrameSeen ==
  /\ Widens /\ InFrame => view = frame
  /\ HaveLuma /\ InFrame => luma[cur] = frame
  /\ ~Widens => view = 0 /\ history = 0

\* The reference is the other target until the model ran, then the current.
Reference == IF pc \in {"idle", "flow", "motion", "mask", "pass"}
             THEN 3 - cur ELSE cur

HistoryIsReference ==
  /\ passState # "WaitingToCreate" => dev.direct
  /\ haveFlow /\ pc = "motion" => HaveLuma
  /\ given /\ pc \in {"mask", "pass"} =>
       /\ HaveLuma
       /\ motion = [from |-> luma[3 - cur], to |-> luma[cur]]
  /\ Widens /\ HaveLuma /\ passState = "Running" /\ ~reset /\ pc # "rejected"
       => luma[Reference] = history
  /\ Widens /\ passState = "Running" /\ ~reset => HaveLuma

LEMMA SeenInit == Init => FrameSeen
  BY DEF Init, FrameSeen, InFrame

LEMMA HistoryInit == Init => HistoryIsReference
  BY DEF Init, HistoryIsReference

LEMMA SeenStep ==
  TypeOK /\ Resolved(dev) /\ FrameSeen /\ [Next]_vars => FrameSeen'
  <1> SUFFICES ASSUME TypeOK, Resolved(dev), FrameSeen, [Next]_vars
               PROVE  FrameSeen'
    OBVIOUS
  <1>1. CASE Rebuild
    BY <1>1, RebuildEffect DEF FrameSeen, InFrame, Widens, Has
  <1>2. CASE RecordViews
    <2>1. /\ dev' = dev /\ cur' = cur /\ frame' = frame + 1 /\ history' = history
          /\ view' = IF Widens THEN frame + 1 ELSE view
          /\ luma' = IF HaveLuma THEN [luma EXCEPT ![cur] = frame + 1] ELSE luma
      BY <1>2 DEF RecordViews, passVars
    <2>2. HaveLuma => luma'[cur] = frame + 1
      BY <2>1 DEF TypeOK
    <2> QED BY <2>1, <2>2 DEF FrameSeen, Widens, HaveLuma, Has
  <1>3. CASE SkipPaused
    BY <1>3 DEF SkipPaused, textureVars, passVars, FrameSeen, InFrame, Widens,
       HaveLuma, Has
  <1>4. CASE SwapLuma
    BY <1>4 DEF SwapLuma, passVars, FrameSeen, InFrame, Widens, Has
  <1>5. CASE EvaluateModel
    BY <1>5 DEF EvaluateModel, Writes, FrameSeen, InFrame, Widens, HaveLuma, Has
  <1>6. CASE /\ UNCHANGED <<dev, view, frame, luma, cur, history>>
             /\ InFrame' => InFrame
    BY <1>6 DEF FrameSeen, Widens, HaveLuma, Has
  <1>7. CASE UNCHANGED vars
    BY <1>6, <1>7 DEF vars, textureVars, passVars, InFrame
  <1>8. CASE EstimateFlow \/ RecordMotion \/ EngineDone \/ UploadMask \/ Reject
             \/ Blend \/ Present \/ PresentGivesUp \/ Dump \/ Capture
    BY <1>6, <1>8 DEF EstimateFlow, RecordMotion, EngineDone, UploadMask, Reject,
       Blend, Present, PresentGivesUp, Dump, Capture, textureVars, passVars, InFrame
  <1>9. CASE CopyFrame \/ PassThroughDirect \/ NoMotion \/ RefuseModel
    BY <1>6, <1>9 DEF CopyFrame, PassThroughDirect, NoMotion, CopyThrough,
       RefuseModel, Writes, passVars, InFrame
  <1> QED BY <1>1, <1>2, <1>3, <1>4, <1>5, <1>7, <1>8, <1>9 DEF Next

LEMMA HistoryStep ==
  TypeOK /\ Resolved(dev) /\ FrameSeen /\ HistoryIsReference /\ [Next]_vars
    => HistoryIsReference'
  <1> SUFFICES ASSUME TypeOK, Resolved(dev), FrameSeen, HistoryIsReference,
                      [Next]_vars
               PROVE  HistoryIsReference'
    OBVIOUS
  <1> USE DEF HistoryIsReference, Reference, Widens, HaveLuma, Has
  <1>1. CASE Rebuild
    BY <1>1, RebuildEffect
  <1>2. CASE RecordViews
    <2>1. /\ dev' = dev /\ cur' = cur /\ history' = history
          /\ passState' = passState /\ reset' = reset
          /\ pc = "idle" /\ pc' = "flow"
          /\ luma' = IF HaveLuma THEN [luma EXCEPT ![cur] = frame + 1] ELSE luma
      BY <1>2 DEF RecordViews, passVars
    <2>2. luma'[3 - cur] = luma[3 - cur]
      BY <2>1 DEF TypeOK
    <2> QED BY <2>1, <2>2
  <1>3. CASE SkipPaused \/ EngineDone \/ Present \/ PresentGivesUp \/ Dump \/ Capture \/ Reject
    BY <1>3 DEF SkipPaused, EngineDone, Present, PresentGivesUp, Dump, Capture, Reject,
       textureVars, flowVars, passVars
  <1>4. CASE EstimateFlow
    BY <1>4 DEF EstimateFlow, textureVars, passVars
  <1>5. CASE RecordMotion
    BY <1>5 DEF RecordMotion, passVars
  <1>6. CASE UploadMask
    BY <1>6 DEF UploadMask, textureVars, flowVars, passVars
  <1>7. CASE CopyFrame
    BY <1>7 DEF CopyFrame, Writes, flowVars, passVars
  <1>8. CASE PassThroughDirect \/ NoMotion \/ RefuseModel
    BY <1>8 DEF PassThroughDirect, NoMotion, RefuseModel, CopyThrough, Running,
       Writes, flowVars
  <1>9. CASE EvaluateModel
    <2>1. /\ given /\ dev.direct /\ pc = "pass" /\ pc' = "blend"
          /\ UNCHANGED <<dev, luma, cur>>
          /\ history' = view
      BY <1>9 DEF EvaluateModel, Running, Writes
    <2>2. Widens => luma[cur] = view
      BY <2>1 DEF FrameSeen, InFrame
    <2> QED BY <2>1, <2>2
  <1>10. CASE Blend
    BY <1>10 DEF Blend, flowVars, passVars
  <1>11. CASE SwapLuma
    <2>1. 3 - (3 - cur) = cur
      BY DEF TypeOK
    <2> QED BY <1>11, <2>1 DEF SwapLuma, flowVars, passVars
  <1>12. CASE UNCHANGED vars
    BY <1>12 DEF vars, textureVars, flowVars, passVars
  <1> QED BY <1>1, <1>2, <1>3, <1>4, <1>5, <1>6, <1>7, <1>8, <1>9, <1>10,
             <1>11, <1>12 DEF Next

\* Only the model's evaluation and a rebuild change the history.
LEMMA HistoryKept == [Next]_vars => history' = history \/ EvaluateModel \/ Rebuild
  BY DEF Next, SkipPaused, RecordViews, EstimateFlow, RecordMotion, EngineDone,
     UploadMask, CopyFrame, PassThroughDirect, NoMotion, CopyThrough,
     RefuseModel, Writes, Reject, Blend, Present, PresentGivesUp,
     Dump, Capture, SwapLuma, vars, passVars

LEMMA MatchStep ==
  ASSUME Resolved(dev), FrameSeen, HistoryIsReference, [Next]_vars,
         history' # history, kept'
  PROVE  motion = [from |-> history, to |-> frame]
  <1>1. CASE EvaluateModel
    <2>1. /\ given /\ pc = "pass" /\ history' = view
          /\ passState = "Running" /\ ~reset
      BY <1>1 DEF EvaluateModel, Running, Writes
    <2>2. Widens
      BY <2>1 DEF FrameSeen
    <2>3. luma[cur] = frame /\ luma[3 - cur] = history
      BY <2>1, <2>2 DEF FrameSeen, InFrame, HistoryIsReference, Reference
    <2> QED BY <2>1, <2>3 DEF HistoryIsReference
  <1>2. CASE Rebuild
    BY <1>2, RebuildEffect
  <1> QED BY <1>1, <1>2, HistoryKept

\* A model that keeps its history sees motion vectors that lead from that
\* history's frame to this one: Pipeline::RenderLoop, DirectNrPass::Evaluate.
THEOREM MotionIsHistorys == Spec => MotionMatchesHistory
  <1> DEFINE Inv == TypeOK /\ Resolved(dev) /\ FrameSeen /\ HistoryIsReference
  <1>1. Init => Inv
    BY TypeInit, DeviceInit, SeenInit, HistoryInit
  <1>2. Inv /\ [Next]_vars => Inv'
    BY TypeStep, DeviceStep, SeenStep, HistoryStep
  <1>3. Inv /\ [Next]_vars
          => [(history' # history /\ kept') =>
                motion = [from |-> history, to |-> frame]]_vars
    BY MatchStep
  <1> QED BY <1>1, <1>2, <1>3, PTL DEF Spec, MotionMatchesHistory

-------------------------------------------------------------------------------
(* The picture: what the pass wrote is this frame, and stays it through    *)
(* the blend to the screen.                                                *)

HistoryPast ==
  /\ history <= frame
  /\ pc \in {"flow", "motion", "mask", "pass"} => history < frame

ThisFrame(picture) ==
  /\ \A r \in Regions : picture[r].frame = frame
  /\ picture["scene"].edited <=> history = frame

PictureFollowed ==
  ~ViewNeverWritten =>
    /\ pc = "blend" => ThisFrame(IF Scratch THEN target ELSE work)
    /\ pc = "present" /\ ~BlendNeverRecorded => ThisFrame(work)
    /\ pc = "presented" /\ ~BlendNeverRecorded => ThisFrame(presented)

LEMMA PastInit == Init => HistoryPast
  BY DEF Init, HistoryPast

LEMMA PastStep ==
  TypeOK /\ Resolved(dev) /\ FrameSeen /\ HistoryPast /\ [Next]_vars => HistoryPast'
  <1> SUFFICES ASSUME TypeOK, Resolved(dev), FrameSeen, HistoryPast, [Next]_vars
               PROVE  HistoryPast'
    OBVIOUS
  <1> USE FrameAssumption DEF HistoryPast
  <1>1. frame \in Nat /\ history \in Nat
    BY DEF TypeOK
  <1>2. CASE EvaluateModel
    <2>1. view = frame \/ view = 0
      BY <1>2 DEF EvaluateModel, Writes, FrameSeen, InFrame
    <2> QED BY <1>1, <1>2, <2>1 DEF EvaluateModel, Writes
  <1>3. CASE Rebuild
    BY <1>1, <1>3, RebuildEffect
  <1>4. CASE SkipPaused
    BY <1>1, <1>4 DEF SkipPaused, passVars
  <1>5. CASE RecordViews
    BY <1>1, <1>5 DEF RecordViews, passVars
  <1>6. CASE UNCHANGED vars
    BY <1>6 DEF vars, passVars
  <1>7. CASE EstimateFlow \/ RecordMotion \/ EngineDone \/ UploadMask \/ Reject
             \/ Blend \/ Present \/ PresentGivesUp \/ Dump \/ Capture \/ SwapLuma
    BY <1>7 DEF EstimateFlow, RecordMotion, EngineDone, UploadMask, Reject,
       Blend, Present, PresentGivesUp, Dump, Capture, SwapLuma, passVars
  <1>8. CASE CopyFrame \/ PassThroughDirect \/ NoMotion \/ RefuseModel
    BY <1>8 DEF CopyFrame, PassThroughDirect, NoMotion, CopyThrough,
       RefuseModel, Writes, passVars
  <1> QED BY <1>2, <1>3, <1>4, <1>5, <1>6, <1>7, <1>8 DEF Next

LEMMA OriginalSeen ==
  \A f : \A r \in Regions :
    /\ Original(f)[r].frame = f /\ ~Original(f)[r].edited
    /\ Edited(f)[r].frame = f /\ Edited(f)[r].edited
  BY DEF Original, Edited

LEMMA PictureInit == Init => PictureFollowed
  BY DEF Init, PictureFollowed

LEMMA PictureStep ==
  /\ TypeOK /\ Resolved(dev) /\ FrameSeen /\ HistoryPast /\ PictureFollowed
  /\ [Next]_vars
  => PictureFollowed'
  <1> SUFFICES ASSUME TypeOK, Resolved(dev), FrameSeen, HistoryPast,
                      PictureFollowed, [Next]_vars
               PROVE  PictureFollowed'
    OBVIOUS
  <1>1. frame \in Nat /\ history \in Nat /\ "scene" \in Regions
    BY FrameAssumption DEF TypeOK, Regions
  <1>2. CASE Rebuild
    BY <1>2, RebuildEffect DEF PictureFollowed
  <1>3. ASSUME NEW picture, Writes(picture), dev' = dev,
               ~ViewNeverWritten => ThisFrame(picture)'
        PROVE  PictureFollowed'
    <2>1. /\ pc' = "blend"
          /\ IF Scratch THEN target' = picture ELSE work' = picture
      BY <1>3 DEF Writes
    <2>2. Scratch' = Scratch /\ ViewNeverWritten' = ViewNeverWritten
      BY <1>3 DEF Scratch, ViaIntermediate, ViewNeverWritten, Has
    <2> QED BY <1>3, <2>1, <2>2 DEF PictureFollowed, ThisFrame
  <1>4. ~ViewNeverWritten /\ dev.direct /\ Has("view") /\ pc = "pass" => view = frame
    BY DEF FrameSeen, InFrame, Widens, ViewNeverWritten
  <1>5. CASE CopyFrame
    <2>1. /\ Writes(Original(frame)) /\ dev' = dev /\ frame' = frame
          /\ history' = history /\ pc = "pass"
      BY <1>5 DEF CopyFrame, Writes, passVars
    <2>2. ThisFrame(Original(frame))'
      BY <1>1, <2>1, OriginalSeen DEF ThisFrame, HistoryPast
    <2> QED BY <1>3, <2>1, <2>2
  <1>6. CASE PassThroughDirect \/ NoMotion \/ RefuseModel
    <2>1. /\ Writes(Original(view)) /\ dev' = dev /\ frame' = frame
          /\ history' = history /\ view' = view /\ pc = "pass"
          /\ dev.direct /\ Has("view")
      BY <1>6 DEF PassThroughDirect, NoMotion, RefuseModel, CopyThrough, Running,
         Writes
    <2>2. ~ViewNeverWritten => ThisFrame(Original(view))'
      BY <1>1, <1>4, <2>1, OriginalSeen DEF ThisFrame, HistoryPast
    <2> QED BY <1>3, <2>1, <2>2
  <1>7. CASE EvaluateModel
    <2>1. /\ Writes(Edited(view)) /\ dev' = dev /\ frame' = frame
          /\ history' = view /\ view' = view /\ pc = "pass"
          /\ dev.direct /\ Has("view")
      BY <1>7 DEF EvaluateModel, Running, Writes
    <2>2. ~ViewNeverWritten => ThisFrame(Edited(view))'
      BY <1>1, <1>4, <2>1, OriginalSeen DEF ThisFrame
    <2> QED BY <1>3, <2>1, <2>2
  <1>8. CASE Blend
    <2>1. /\ pc = "blend" /\ pc' = "present"
          /\ UNCHANGED <<dev, frame, target, hasMask, history>>
      BY <1>8 DEF Blend, maskVars, passVars
    <2>2. BlendNeverRecorded' = BlendNeverRecorded /\ ViewNeverWritten' = ViewNeverWritten
      BY <2>1 DEF BlendNeverRecorded, ViewNeverWritten, Has
    <2>3. ASSUME ~ViewNeverWritten, ~BlendNeverRecorded
          PROVE  ThisFrame(work')
      <3>1. ThisFrame(IF Scratch THEN target ELSE work)
        BY <2>1, <2>3 DEF PictureFollowed
      <3>2. CASE ~dev.masked
        <4>1. ~Scratch
          BY <3>2 DEF Resolved, Scratch, ViaIntermediate
        <4>2. work' = work
          BY <1>8, <3>2 DEF Blend
        <4> QED BY <3>1, <4>1, <4>2
      <3>3. CASE dev.masked
        <4>1. ThisFrame(target)
          BY <3>1, <3>3 DEF Scratch
        <4>2. work' = target \/ work' = Restored
          BY <1>8, <2>3, <3>3 DEF Blend, BlendNeverRecorded
        <4>3. ThisFrame(Restored)
          BY <4>1, <1>1 DEF ThisFrame, Restored
        <4> QED BY <4>1, <4>2, <4>3
      <3> QED BY <3>2, <3>3
    <2> QED BY <2>1, <2>2, <2>3 DEF PictureFollowed, ThisFrame
  <1>9. CASE Present
    BY <1>9 DEF Present, PictureFollowed, ThisFrame, textureVars, passVars,
       maskVars, BlendNeverRecorded, ViewNeverWritten, Has
  <1>10. CASE /\ UNCHANGED <<dev, frame, history, target, work, presented, hasMask>>
              /\ pc' = pc
    BY <1>10 DEF PictureFollowed, ThisFrame, BlendNeverRecorded,
       ViewNeverWritten, Has, Scratch, ViaIntermediate
  <1>11. CASE EngineDone \/ UNCHANGED vars
    BY <1>10, <1>11 DEF EngineDone, vars, textureVars, maskVars, passVars
  <1>12. CASE pc' \notin {"blend", "present", "presented"}
    BY <1>12 DEF PictureFollowed
  <1>13. CASE RecordViews \/ EstimateFlow \/ RecordMotion \/ UploadMask
              \/ Reject \/ PresentGivesUp \/ Dump \/ Capture \/ SwapLuma \/ SkipPaused
    BY <1>12, <1>13 DEF RecordViews, EstimateFlow, RecordMotion, UploadMask,
       Reject, PresentGivesUp, Dump, Capture, SwapLuma, SkipPaused
  <1> QED BY <1>2, <1>5, <1>6, <1>7, <1>8, <1>9, <1>11, <1>13 DEF Next

\* The picture on screen is the frame just acquired, with the model's edit
\* exactly if the model saw that frame: Pipeline::RenderLoop.
THEOREM PresentedIsFresh == Spec => []PresentedIsThisFrame
  <1> DEFINE Inv == /\ TypeOK /\ Resolved(dev) /\ FrameSeen
                    /\ HistoryPast /\ PictureFollowed
  <1>1. Init => Inv
    BY TypeInit, DeviceInit, SeenInit, PastInit, PictureInit
  <1>2. Inv /\ [Next]_vars => Inv'
    BY TypeStep, DeviceStep, SeenStep, PastStep, PictureStep
  <1>3. Inv => PresentedIsThisFrame
    BY DEF PictureFollowed, ThisFrame, PresentedIsThisFrame
  <1> QED BY <1>1, <1>2, <1>3, PTL DEF Spec

-------------------------------------------------------------------------------
(* Command lists: FoldLeft plays a list one command after another, and two  *)
(* lists in a row as the one and then the other.  The recurrences behind    *)
(* FoldLeft and FlattenSeq have a solution, by induction on the length.     *)

\* A set of naturals that is not empty has a least one.
LEMMA LeastOne ==
  ASSUME NEW I, I \subseteq Nat, I # {}
  PROVE  \E x \in I : \A y \in I : x <= y
<1>1. ASSUME NEW x \in Nat, NEW y \in Nat, y < x
      PROVE  <<y, x>> \in OpToRel(<, Nat)
  <2> DEFINE ss == <<y, x>>
  <2>1. ss \in Nat \X Nat /\ ss[1] < ss[2]
        BY <1>1
  <2> HIDE DEF ss
  <2>2. ss \in OpToRel(<, Nat)
        BY <2>1, Zenon DEF OpToRel
  <2> QED BY <2>2 DEF ss
<1> DEFINE R == OpToRel(<, Nat)
<1> HIDE DEF R
<1>2. IsWellFoundedOn(R, Nat)
      BY NatLessThanWellFounded, Zenon DEF R
<1>3. PICK x \in I : \A y \in I : ~ (<<y, x>> \in R)
      BY <1>2, WFMin
<1>4. \A y, z \in Nat : y < z => <<y, z>> \in R
      BY <1>1, Zenon DEF R
<1>5. ASSUME NEW y \in I PROVE x <= y
  <2>1. x \in Nat /\ y \in Nat
        OBVIOUS
  <2>2. ~ (y < x)
        BY <2>1, <1>3, <1>4
  <2> QED BY <2>1, <2>2
<1> QED BY <1>5

\* A set of naturals that has 0, and with each of its numbers the next one, has
\* them all.
LEMMA Induction ==
  ASSUME NEW I, 0 \in I, \A n \in Nat : n \in I => n + 1 \in I
  PROVE  Nat \subseteq I
  <1> SUFFICES ASSUME Nat \ I # {} PROVE FALSE
    OBVIOUS
  <1>1. PICK least \in Nat \ I : \A y \in Nat \ I : least <= y
    <2> DEFINE M == Nat \ I
    <2>1. M \subseteq Nat /\ M # {}
      OBVIOUS
    <2> HIDE DEF M
    <2>2. \E x \in M : \A y \in M : x <= y
      BY <2>1, LeastOne
    <2> QED BY <2>2 DEF M
  <1>2. least - 1 \in Nat /\ (least - 1) + 1 = least
    OBVIOUS
  <1>3. least - 1 \in I
    BY <1>1, <1>2
  <1> QED BY <1>2, <1>3

\* The recurrence by which a list of commands is played, on sets of indices.
Plays(f, g, s, D) ==
  f = [S \in SUBSET D |->
         IF S = {} THEN g ELSE Run(f[S \ {Max(S)}], s[Max(S)])]
Iter(g, s) == CHOOSE f : Plays(f, g, s, DOMAIN s)

Command == [tex : Textures, before : States, after : States]

LEMMA PlayIsIter == \A g, s : PlayFrom(g, s) = Iter(g, s)[DOMAIN s]
  BY Zenon DEF PlayFrom, FoldLeft, MapThenFoldSet, Iter, Plays

LEMMA MaxOfPrefix ==
  ASSUME NEW n \in Nat, NEW S \in SUBSET (1 .. (n + 1)), n + 1 \in S
  PROVE  Max(S) = n + 1
  <1>1. \A y \in S : n + 1 >= y
    OBVIOUS
  <1>2. \A x \in S : (\A y \in S : x >= y) => x = n + 1
    OBVIOUS
  <1> QED BY <1>1, <1>2 DEF Max

LEMMA IterExists ==
  ASSUME NEW g, NEW s, NEW k \in Nat
  PROVE  \E f : Plays(f, g, s, 1 .. k)
  <1> DEFINE I == {n \in Nat : \E f : Plays(f, g, s, 1 .. n)}
  <1>1. 0 \in I
    <2> DEFINE f == [S \in SUBSET (1 .. 0) |-> g]
    <2>1. \A S \in SUBSET (1 .. 0) : S = {}
      OBVIOUS
    <2>2. Plays(f, g, s, 1 .. 0)
      BY <2>1, Zenon DEF Plays
    <2> QED BY <2>2
  <1>2. ASSUME NEW n \in Nat, n \in I PROVE n + 1 \in I
    <2>1. PICK f : Plays(f, g, s, 1 .. n)
      BY <1>2
    <2> DEFINE h == [S \in SUBSET (1 .. (n + 1)) |->
                       IF n + 1 \in S THEN Run(f[S \ {n + 1}], s[n + 1]) ELSE f[S]]
    <2>2. ASSUME NEW S \in SUBSET (1 .. (n + 1))
          PROVE  h[S] = IF S = {} THEN g ELSE Run(h[S \ {Max(S)}], s[Max(S)])
      <3>1. CASE n + 1 \in S
        <4>1. Max(S) = n + 1
          BY <3>1, MaxOfPrefix
        <4>2. S \ {n + 1} \in SUBSET (1 .. (n + 1)) /\ n + 1 \notin S \ {n + 1}
          OBVIOUS
        <4>3. h[S \ {n + 1}] = f[S \ {n + 1}]
          BY <4>2
        <4> QED BY <3>1, <4>1, <4>3
      <3>2. CASE n + 1 \notin S
        <4>1. S \in SUBSET (1 .. n)
          BY <3>2
        <4>2. h[S] = f[S]
          BY <3>2
        <4>3. f[S] = IF S = {} THEN g ELSE Run(f[S \ {Max(S)}], s[Max(S)])
          BY <2>1, <4>1 DEF Plays
        <4>4. /\ S \ {Max(S)} \in SUBSET (1 .. (n + 1))
              /\ n + 1 \notin S \ {Max(S)}
          BY <3>2
        <4>5. h[S \ {Max(S)}] = f[S \ {Max(S)}]
          BY <4>4
        <4> QED BY <4>2, <4>3, <4>5
      <3> QED BY <3>1, <3>2
    <2>3. h = [S \in SUBSET (1 .. (n + 1)) |-> h[S]]
      OBVIOUS
    <2> HIDE DEF h
    <2>4. Plays(h, g, s, 1 .. (n + 1))
      BY <2>2, <2>3, Zenon DEF Plays
    <2> QED BY <2>4
  <1> HIDE DEF I
  <1>3. k \in I
    BY <1>1, <1>2, Induction
  <1> QED BY <1>3 DEF I

LEMMA IterStep ==
  ASSUME NEW g, NEW s \in Seq(Command)
  PROVE  /\ Iter(g, s)[{}] = g
         /\ \A S \in SUBSET DOMAIN s : S # {} =>
              Iter(g, s)[S] = Run(Iter(g, s)[S \ {Max(S)}], s[Max(S)])
  <1>1. DOMAIN s = 1 .. Len(s) /\ Len(s) \in Nat
    OBVIOUS
  <1>2. \E f : Plays(f, g, s, DOMAIN s)
    <2>1. \E f : Plays(f, g, s, 1 .. Len(s))
      BY <1>1, IterExists
    <2>2. DOMAIN s = 1 .. Len(s)
      OBVIOUS
    <2> QED BY <2>1, <2>2, Zenon
  <1>3. Plays(Iter(g, s), g, s, DOMAIN s)
    BY <1>2, Zenon DEF Iter
  <1> HIDE DEF Iter
  <1>4. \A S \in SUBSET DOMAIN s : Iter(g, s)[S] =
           IF S = {} THEN g ELSE Run(Iter(g, s)[S \ {Max(S)}], s[Max(S)])
    BY <1>3, Zenon DEF Plays
  <1> QED BY <1>4, Zenon

\* What each prefix of a list leaves, one command at a time.
Steps(g, s) == [i \in 0 .. Len(s) |-> Iter(g, s)[1 .. i]]

LEMMA PlaySteps ==
  ASSUME NEW g, NEW s \in Seq(Command)
  PROVE  /\ Steps(g, s)[0] = g
         /\ \A i \in 1 .. Len(s) : Steps(g, s)[i] = Run(Steps(g, s)[i - 1], s[i])
         /\ PlayFrom(g, s) = Steps(g, s)[Len(s)]
  <1>1. DOMAIN s = 1 .. Len(s) /\ Len(s) \in Nat
    OBVIOUS
  <1>2. \A i \in 0 .. Len(s) : Steps(g, s)[i] = Iter(g, s)[1 .. i]
    BY DEF Steps
  <1>3. 1 .. 0 = {} /\ 0 \in 0 .. Len(s) /\ Len(s) \in 0 .. Len(s)
    BY <1>1
  <1>4. \A S \in SUBSET DOMAIN s : S # {} =>
           Iter(g, s)[S] = Run(Iter(g, s)[S \ {Max(S)}], s[Max(S)])
    BY IterStep
  <1>5. ASSUME NEW i \in 1 .. Len(s)
        PROVE  Iter(g, s)[1 .. i] = Run(Iter(g, s)[1 .. (i - 1)], s[i])
    <2> DEFINE S == 1 .. i
    <2>1. i - 1 \in Nat /\ (i - 1) + 1 = i
      BY <1>1
    <2>2. S \in SUBSET DOMAIN s /\ S # {} /\ i \in S
      <3>1. i \in S /\ S \subseteq 1 .. Len(s)
        BY <1>1
      <3> HIDE DEF S
      <3> QED BY <1>1, <3>1
    <2>3. Max(S) = i
      BY <2>1, <2>2, MaxOfPrefix
    <2>4. S \ {i} = 1 .. (i - 1)
      BY <1>1
    <2> HIDE DEF S
    <2>5. Iter(g, s)[S] = Run(Iter(g, s)[S \ {Max(S)}], s[Max(S)])
      BY <1>4, <2>2
    <2> QED BY <2>3, <2>4, <2>5 DEF S
  <1>6. ASSUME NEW i \in 1 .. Len(s)
        PROVE  Steps(g, s)[i] = Run(Steps(g, s)[i - 1], s[i])
    <2>1. i - 1 \in 0 .. Len(s) /\ i \in 0 .. Len(s)
      BY <1>1
    <2> QED BY <1>2, <1>5, <2>1
  <1>7. Steps(g, s)[0] = g
    BY <1>2, <1>3, IterStep
  <1>8. PlayFrom(g, s) = Steps(g, s)[Len(s)]
    BY <1>1, <1>2, <1>3, PlayIsIter
  <1> QED BY <1>6, <1>7, <1>8

\* Two runs that start alike and go on alike end alike.
LEMMA StepsAgree ==
  ASSUME NEW n \in Nat, NEW p, NEW q, p[0] = q[0],
         \A i \in 1 .. n : p[i - 1] = q[i - 1] => p[i] = q[i]
  PROVE  p[n] = q[n]
  <1> DEFINE I == {i \in Nat : i <= n => p[i] = q[i]}
  <1>1. 0 \in I
    OBVIOUS
  <1>2. ASSUME NEW i \in Nat, i \in I PROVE i + 1 \in I
    <2> SUFFICES ASSUME i + 1 <= n PROVE p[i + 1] = q[i + 1]
      OBVIOUS
    <2>1. i + 1 \in 1 .. n /\ (i + 1) - 1 = i /\ p[i] = q[i]
      BY <1>2
    <2> QED BY <2>1
  <1> HIDE DEF I
  <1>3. n \in I
    BY <1>1, <1>2, Induction
  <1> QED BY <1>3 DEF I

LEMMA PlayConcat ==
  ASSUME NEW g, NEW a \in Seq(Command), NEW b \in Seq(Command)
  PROVE  PlayFrom(g, a \o b) = PlayFrom(PlayFrom(g, a), b)
  <1> DEFINE ab == a \o b
             m == Len(a)
             n == Len(b)
             p == Steps(g, a)
             q == Steps(p[m], b)
             r == Steps(g, ab)
  <1>1. /\ ab \in Seq(Command) /\ m \in Nat /\ n \in Nat /\ Len(ab) = m + n
        /\ \A i \in 1 .. m : ab[i] = a[i]
        /\ \A i \in 1 .. n : ab[m + i] = b[i]
    OBVIOUS
  <1>2. /\ p[0] = g
        /\ \A i \in 1 .. m : p[i] = Run(p[i - 1], a[i])
        /\ PlayFrom(g, a) = p[m]
    BY PlaySteps
  <1>3. /\ q[0] = p[m]
        /\ \A i \in 1 .. n : q[i] = Run(q[i - 1], b[i])
        /\ PlayFrom(p[m], b) = q[n]
    <2> HIDE DEF p
    <2> QED BY PlaySteps
  <1> HIDE DEF p, q, ab
  <1>4. /\ r[0] = g
        /\ \A i \in 1 .. m + n : r[i] = Run(r[i - 1], ab[i])
        /\ PlayFrom(g, ab) = r[m + n]
    <2>1. ab \in Seq(Command)
      BY <1>1
    <2>2. /\ r[0] = g
          /\ \A i \in 1 .. Len(ab) : r[i] = Run(r[i - 1], ab[i])
          /\ PlayFrom(g, ab) = r[Len(ab)]
      BY <2>1, PlaySteps
    <2> HIDE DEF r
    <2> QED BY <1>1, <2>2, Zenon
  <1> HIDE DEF r, m, n
  <1>5. p[m] = r[m]
    <2>1. \A i \in 1 .. m : p[i - 1] = r[i - 1] => p[i] = r[i]
      BY <1>1, <1>2, <1>4
    <2> QED BY <1>1, <1>2, <1>4, <2>1, StepsAgree
  <1>6. q[n] = r[m + n]
    <2> DEFINE t == [i \in 0 .. n |-> r[m + i]]
    <2>1. q[0] = t[0]
      BY <1>1, <1>3, <1>5
    <2>2. ASSUME NEW i \in 1 .. n, q[i - 1] = t[i - 1] PROVE q[i] = t[i]
      <3>1. /\ i - 1 \in 0 .. n /\ i \in 0 .. n /\ m + i \in 1 .. m + n
            /\ (m + i) - 1 = m + (i - 1)
        BY <1>1
      <3>2. r[m + i] = Run(r[m + (i - 1)], b[i])
        BY <1>1, <1>4, <3>1
      <3> QED BY <1>3, <2>2, <3>1, <3>2
    <2>3. t[n] = r[m + n]
      BY <1>1
    <2> HIDE DEF t
    <2> QED BY <1>1, <2>1, <2>2, <2>3, StepsAgree
  <1> QED BY <1>2, <1>3, <1>4, <1>6 DEF ab

LEMMA PlayOne ==
  ASSUME NEW g, NEW c \in Command
  PROVE  PlayFrom(g, <<c>>) = Run(g, c)
  <1> DEFINE s == <<c>>
  <1>1. s \in Seq(Command) /\ Len(s) = 1 /\ s[1] = c
    OBVIOUS
  <1> HIDE DEF s
  <1>2. /\ Steps(g, s)[0] = g
        /\ \A i \in 1 .. Len(s) : Steps(g, s)[i] = Run(Steps(g, s)[i - 1], s[i])
        /\ PlayFrom(g, s) = Steps(g, s)[Len(s)]
    BY <1>1, PlaySteps
  <1>3. Steps(g, s)[1] = Run(Steps(g, s)[0], c)
    BY <1>1, <1>2
  <1> QED BY <1>1, <1>2, <1>3 DEF s

LEMMA PlayNone ==
  ASSUME NEW g
  PROVE  PlayFrom(g, <<>>) = g
  <1> DEFINE s == <<>>
  <1>1. s \in Seq(Command) /\ Len(s) = 0
    OBVIOUS
  <1> HIDE DEF s
  <1>2. Steps(g, s)[0] = g /\ PlayFrom(g, s) = Steps(g, s)[Len(s)]
    BY <1>1, PlaySteps
  <1> QED BY <1>1, <1>2 DEF s

-------------------------------------------------------------------------------
(* Lists of lists, and what a list leaves when it finds all it names.       *)

\* What FlattenSeq builds, one list at a time.
Flattens(f, seqs, n) ==
  f = [i \in 1 .. n |-> IF i = 1 THEN seqs[i] ELSE f[i - 1] \o seqs[i]]
Flat(seqs) == CHOOSE f : Flattens(f, seqs, Len(seqs))

LEMMA FlatExists ==
  ASSUME NEW seqs, NEW k \in Nat
  PROVE  \E f : Flattens(f, seqs, k)
  <1> DEFINE I == {n \in Nat : \E f : Flattens(f, seqs, n)}
  <1>1. 0 \in I
    <2> DEFINE f == [i \in 1 .. 0 |-> <<>>]
    <2>1. \A i \in 1 .. 0 : FALSE
      OBVIOUS
    <2>2. Flattens(f, seqs, 0)
      BY <2>1, Zenon DEF Flattens
    <2> QED BY <2>2
  <1>2. ASSUME NEW n \in Nat, n \in I PROVE n + 1 \in I
    <2>1. PICK f : Flattens(f, seqs, n)
      BY <1>2
    <2> DEFINE last == IF n = 0 THEN seqs[1] ELSE f[n] \o seqs[n + 1]
               h == [i \in 1 .. (n + 1) |-> IF i = n + 1 THEN last ELSE f[i]]
    <2>2. ASSUME NEW i \in 1 .. (n + 1)
          PROVE  h[i] = IF i = 1 THEN seqs[i] ELSE h[i - 1] \o seqs[i]
      <3>1. CASE i = n + 1 /\ n = 0
        BY <3>1
      <3>2. CASE i = n + 1 /\ n # 0
        <4>1. i - 1 = n /\ n \in 1 .. (n + 1) /\ n # n + 1 /\ i # 1
          BY <3>2
        <4>2. h[i - 1] = f[n] /\ h[i] = last
          BY <3>2, <4>1
        <4>3. last = f[n] \o seqs[n + 1]
          BY <3>2
        <4> HIDE DEF h, last
        <4> QED BY <3>2, <4>1, <4>2, <4>3
      <3>3. CASE i # n + 1
        <4>1. i \in 1 .. n
          BY <3>3
        <4>2. f[i] = IF i = 1 THEN seqs[i] ELSE f[i - 1] \o seqs[i]
          BY <2>1, <4>1 DEF Flattens
        <4>3. h[i] = f[i]
          BY <3>3
        <4>4. i # 1 => h[i - 1] = f[i - 1]
          BY <4>1
        <4> HIDE DEF h
        <4> QED BY <4>2, <4>3, <4>4
      <3> QED BY <3>1, <3>2, <3>3
    <2>3. h = [i \in 1 .. (n + 1) |-> h[i]]
      OBVIOUS
    <2> HIDE DEF h
    <2>4. Flattens(h, seqs, n + 1)
      BY <2>2, <2>3, Zenon DEF Flattens
    <2> QED BY <2>4
  <1> HIDE DEF I
  <1>3. k \in I
    BY <1>1, <1>2, Induction
  <1> QED BY <1>3 DEF I

LEMMA FlattenIsFlat ==
  \A seqs : FlattenSeq(seqs) = IF Len(seqs) = 0 THEN seqs ELSE Flat(seqs)[Len(seqs)]
  BY Zenon DEF FlattenSeq, Flat, Flattens

\* The list finds every texture in the state it names, when it is played on the
\* states at, and leaves the states end.
Leaves(c, at, end) ==
  /\ c \in Seq(Command)
  /\ \A ok \in BOOLEAN :
       PlayFrom([at |-> at, ok |-> ok], c) = [at |-> end, ok |-> ok]

LEMMA PlayThen ==
  ASSUME NEW g, NEW a \in Seq(Command), NEW b, NEW mid, NEW end, NEW ok \in BOOLEAN,
         PlayFrom(g, a) = [at |-> mid, ok |-> ok], Leaves(b, mid, end)
  PROVE  /\ PlayFrom(g, a \o b) = [at |-> end, ok |-> ok]
         /\ a \o b \in Seq(Command)
  <1>1. b \in Seq(Command) /\ a \o b \in Seq(Command)
    BY DEF Leaves
  <1>2. PlayFrom(PlayFrom(g, a), b) = [at |-> end, ok |-> ok]
    BY DEF Leaves
  <1> QED BY <1>1, <1>2, PlayConcat

LEMMA LeavesThen ==
  ASSUME NEW a, NEW b, NEW at, NEW mid, NEW end, Leaves(a, at, mid), Leaves(b, mid, end)
  PROVE  Leaves(a \o b, at, end)
  <1>1. a \in Seq(Command)
    BY DEF Leaves
  <1>2. ASSUME NEW ok \in BOOLEAN
        PROVE  /\ PlayFrom([at |-> at, ok |-> ok], a \o b) = [at |-> end, ok |-> ok]
               /\ a \o b \in Seq(Command)
    <2> DEFINE g == [at |-> at, ok |-> ok]
    <2>1. PlayFrom(g, a) = [at |-> mid, ok |-> ok]
      BY DEF Leaves
    <2> HIDE DEF g
    <2>2. PlayFrom(g, a \o b) = [at |-> end, ok |-> ok] /\ a \o b \in Seq(Command)
      BY <1>1, <2>1, PlayThen
    <2> QED BY <2>2 DEF g
  <1> QED BY <1>2 DEF Leaves

LEMMA LeavesMove ==
  ASSUME NEW at \in [Textures -> States], NEW t \in Textures, NEW x \in States,
         NEW y \in States, at[t] = x
  PROVE  Leaves(Move(t, x, y), at, [at EXCEPT ![t] = y])
  <1> DEFINE c == [tex |-> t, before |-> x, after |-> y]
  <1>1. c \in Command /\ c.tex = t /\ c.before = x /\ c.after = y
    BY DEF Command
  <1>2. Move(t, x, y) = <<c>>
    BY DEF Move
  <1> HIDE DEF c
  <1>3. ASSUME NEW ok \in BOOLEAN
        PROVE  PlayFrom([at |-> at, ok |-> ok], Move(t, x, y)) =
                 [at |-> [at EXCEPT ![t] = y], ok |-> ok]
    <2> DEFINE g == [at |-> at, ok |-> ok]
    <2>1. PlayFrom(g, <<c>>) = Run(g, c)
      BY <1>1, PlayOne
    <2>2. Run(g, c) = [at |-> [at EXCEPT ![t] = y], ok |-> ok]
      BY <1>1 DEF Run
    <2> QED BY <1>2, <2>1, <2>2
  <1>4. Move(t, x, y) \in Seq(Command)
    BY <1>1, <1>2
  <1> QED BY <1>3, <1>4 DEF Leaves

LEMMA LeavesUse ==
  ASSUME NEW at \in [Textures -> States], NEW t \in Textures, NEW x \in States,
         at[t] = x
  PROVE  Leaves(Use(t, x), at, at)
  <1>1. [at EXCEPT ![t] = x] = at
    OBVIOUS
  <1> QED BY <1>1, LeavesMove DEF Use

LEMMA LeavesNone ==
  ASSUME NEW at PROVE Leaves(<<>>, at, at)
  BY PlayNone DEF Leaves

LEMMA LeavesWhen ==
  ASSUME NEW c, NEW condition, NEW at, condition => Leaves(c, at, at)
  PROVE  Leaves(When(condition, c), at, at)
  BY LeavesNone DEF When

LEMMA LeavesEach ==
  ASSUME NEW n \in Nat, NEW seqs, NEW at,
         DOMAIN seqs = 1 .. n, seqs = [i \in 1 .. n |-> seqs[i]],
         \A i \in 1 .. n : Leaves(seqs[i], at[i - 1], at[i])
  PROVE  Leaves(FlattenSeq(seqs), at[0], at[n])
  <1>1. Len(seqs) = n
    OBVIOUS
  <1>2. CASE n = 0
    <2>1. seqs = <<>>
      BY <1>2
    <2>2. FlattenSeq(seqs) = <<>>
      BY <1>1, <1>2, <2>1, FlattenIsFlat
    <2> QED BY <1>2, <2>2, LeavesNone
  <1>3. CASE n # 0
    <2>1. Flattens(Flat(seqs), seqs, n)
      BY <1>1, FlatExists DEF Flat
    <2>2. \A i \in 1 .. n :
            Flat(seqs)[i] = IF i = 1 THEN seqs[i] ELSE Flat(seqs)[i - 1] \o seqs[i]
      BY <2>1 DEF Flattens
    <2> DEFINE I == {i \in Nat : i + 1 <= n => Leaves(Flat(seqs)[i + 1], at[0], at[i + 1])}
    <2>3. 0 \in I
      <3>1. 1 \in 1 .. n /\ 1 - 1 = 0
        BY <1>3
      <3> QED BY <2>2, <3>1
    <2>4. ASSUME NEW i \in Nat, i \in I PROVE i + 1 \in I
      <3> SUFFICES ASSUME i + 2 <= n
                   PROVE Leaves(Flat(seqs)[i + 2], at[0], at[i + 2])
        OBVIOUS
      <3>1. i + 1 \in 1 .. n /\ i + 2 \in 1 .. n /\ (i + 2) - 1 = i + 1 /\ i + 2 # 1
        OBVIOUS
      <3>2. Leaves(Flat(seqs)[i + 1], at[0], at[i + 1])
        BY <2>4
      <3>3. Flat(seqs)[i + 2] = Flat(seqs)[i + 1] \o seqs[i + 2]
        BY <2>2, <3>1
      <3>4. Leaves(seqs[i + 2], at[i + 1], at[i + 2])
        BY <3>1
      <3>5. Leaves(Flat(seqs)[i + 1] \o seqs[i + 2], at[0], at[i + 2])
        <4> HIDE DEF I
        <4> QED BY <3>2, <3>4, LeavesThen
      <3> QED BY <3>3, <3>5
    <2> HIDE DEF I
    <2>5. n - 1 \in I
      BY <1>3, <2>3, <2>4, Induction
    <2>6. Leaves(Flat(seqs)[n], at[0], at[n])
      BY <1>3, <2>5 DEF I
    <2> QED BY <1>1, <1>3, <2>6, FlattenIsFlat
  <1> QED BY <1>2, <1>3

-------------------------------------------------------------------------------
(* The lists of the render loop and of the passes, each on its own.         *)

LEMMA TextureNames ==
  /\ {View, Motion, Mask, Neural, Work, ModelIn, ModelOut, Depth, Luma(1), Luma(2)}
       \subseteq Textures
  /\ \A i \in 1 .. MaxPasses - 1 : Raw(i) \in Textures /\ Chained(i) \in Textures
  /\ PassTarget \in {Neural, Work}
  BY DEF Textures, PassTarget

LEMMA StateNames ==
  /\ {"COMMON", "UAV", "SRV", "COPY_SOURCE", "COPY_DEST"} = States
  /\ {RestState, ReadState, WriteState} \subseteq States
  BY DEF States, RestState, ReadState, WriteState

\* A list between two moves of a texture that it does not disturb.
LEMMA LeavesBetween ==
  ASSUME NEW at \in [Textures -> States], NEW t \in Textures, NEW x \in States,
         NEW y \in States, NEW c, at[t] = x,
         Leaves(c, [at EXCEPT ![t] = y], [at EXCEPT ![t] = y])
  PROVE  Leaves(Move(t, x, y) \o c \o Move(t, y, x), at, at)
  <1> DEFINE mid == [at EXCEPT ![t] = y]
  <1>1. mid \in [Textures -> States] /\ mid[t] = y /\ [mid EXCEPT ![t] = x] = at
    OBVIOUS
  <1>2. Leaves(Move(t, x, y), at, mid)
    BY LeavesMove
  <1> HIDE DEF mid
  <1>3. Leaves(Move(t, y, x), mid, at)
    BY <1>1, LeavesMove
  <1>4. Leaves(c, mid, mid)
    BY DEF mid
  <1>5. Leaves(Move(t, x, y) \o c, at, mid)
    BY <1>2, <1>4, LeavesThen
  <1> QED BY <1>3, <1>5, LeavesThen

\* A round trip of a texture.
LEMMA LeavesThere ==
  ASSUME NEW at \in [Textures -> States], NEW t \in Textures, NEW x \in States,
         NEW y \in States, at[t] = x
  PROVE  Leaves(Move(t, x, y) \o Move(t, y, x), at, at)
  <1> DEFINE mid == [at EXCEPT ![t] = y]
  <1>1. mid \in [Textures -> States] /\ mid[t] = y /\ [mid EXCEPT ![t] = x] = at
    OBVIOUS
  <1>2. Leaves(Move(t, x, y), at, mid)
    BY LeavesMove
  <1> HIDE DEF mid
  <1>3. Leaves(Move(t, y, x), mid, at)
    BY <1>1, LeavesMove
  <1> QED BY <1>2, <1>3, LeavesThen

LEMMA ReadbackLeaves ==
  ASSUME NEW at \in [Textures -> States], NEW t \in Textures, NEW x \in States,
         at[t] = x
  PROVE  Leaves(Readback(t, x), at, at)
  <1>1. CASE x = "COPY_SOURCE"
    <2>1. Leaves(Use(t, "COPY_SOURCE"), at, at)
      BY <1>1, LeavesUse
    <2>2. /\ Leaves(When(x # "COPY_SOURCE", Move(t, x, "COPY_SOURCE")), at, at)
          /\ Leaves(When(x # "COPY_SOURCE", Move(t, "COPY_SOURCE", x)), at, at)
      BY <1>1, LeavesWhen
    <2> QED BY <2>1, <2>2, LeavesThen DEF Readback
  <1>2. CASE x # "COPY_SOURCE"
    <2> DEFINE mid == [at EXCEPT ![t] = "COPY_SOURCE"]
    <2>1. mid \in [Textures -> States] /\ mid[t] = "COPY_SOURCE"
      BY StateNames
    <2>2. Leaves(Use(t, "COPY_SOURCE"), mid, mid)
      <3> HIDE DEF mid
      <3> QED BY <2>1, LeavesUse, StateNames
    <2>3. Readback(t, x) = Move(t, x, "COPY_SOURCE") \o Use(t, "COPY_SOURCE")
                             \o Move(t, "COPY_SOURCE", x)
      BY <1>2 DEF Readback, When
    <2> QED BY <2>2, <2>3, LeavesBetween, StateNames
  <1> QED BY <1>1, <1>2

LEMMA ViewLeaves ==
  ASSUME NEW at \in [Textures -> States], cur \in 1 .. 2,
         at[View] = "UAV", at[Luma(cur)] = "COMMON"
  PROVE  Leaves(ViewCommands, at, at)
  <1> DEFINE l == Luma(cur)
             h == dev.hdr
             mid == [at EXCEPT ![l] = "UAV"]
             seen == [mid EXCEPT ![View] = "SRV"]
  <1>1. /\ View \in Textures /\ l \in Textures /\ l # View
        /\ "UAV" \in States /\ "SRV" \in States /\ "COMMON" \in States
    BY TextureNames, StateNames DEF View, Tex, Luma
  <1>2. /\ mid \in [Textures -> States] /\ mid[l] = "UAV" /\ mid[View] = "UAV"
        /\ [mid EXCEPT ![l] = "COMMON"] = at
    BY <1>1
  <1>3. /\ seen \in [Textures -> States] /\ seen[l] = "UAV" /\ seen[View] = "SRV"
        /\ [seen EXCEPT ![View] = "UAV"] = mid
    BY <1>1, <1>2
  <1>4. Leaves(Move(l, "COMMON", "UAV"), at, mid)
    BY <1>1, LeavesMove
  <1>5. Leaves(Move(View, "UAV", "SRV"), mid, seen)
    <2> HIDE DEF l, mid
    <2> QED BY <1>1, <1>2, LeavesMove
  <1> HIDE DEF l, mid, seen, h
  <1>6. Leaves(Move(View, "SRV", "UAV"), seen, mid)
    BY <1>1, <1>3, LeavesMove
  <1>7. Leaves(Move(l, "UAV", "COMMON"), mid, at)
    BY <1>1, <1>2, LeavesMove
  <1>8. Leaves(Use(l, "UAV"), mid, mid) /\ Leaves(Use(l, "UAV"), seen, seen)
    BY <1>1, <1>2, <1>3, LeavesUse
  <1>9. Leaves(When(h, Move(View, "UAV", "SRV")), mid, IF h THEN seen ELSE mid)
    BY <1>5, LeavesNone DEF When
  <1>10. Leaves(When(h, Move(View, "SRV", "UAV")), IF h THEN seen ELSE mid, mid)
    BY <1>6, LeavesNone DEF When
  <1>11. Leaves(Use(l, "UAV"), IF h THEN seen ELSE mid, IF h THEN seen ELSE mid)
    BY <1>8
  <1>12. Leaves(Move(l, "COMMON", "UAV") \o When(h, Move(View, "UAV", "SRV")), at,
                IF h THEN seen ELSE mid)
    BY <1>4, <1>9, LeavesThen
  <1>13. Leaves(Move(l, "COMMON", "UAV") \o When(h, Move(View, "UAV", "SRV"))
                \o Use(l, "UAV"), at, IF h THEN seen ELSE mid)
    BY <1>11, <1>12, LeavesThen
  <1>14. Leaves(Move(l, "COMMON", "UAV") \o When(h, Move(View, "UAV", "SRV"))
                \o Use(l, "UAV") \o When(h, Move(View, "SRV", "UAV")), at, mid)
    BY <1>10, <1>13, LeavesThen
  <1>15. Leaves(Move(l, "COMMON", "UAV") \o When(h, Move(View, "UAV", "SRV"))
                \o Use(l, "UAV") \o When(h, Move(View, "SRV", "UAV"))
                \o Move(l, "UAV", "COMMON"), at, at)
    BY <1>7, <1>14, LeavesThen
  <1>16. Leaves(When(Widens, Use(View, "UAV")), at, at)
    BY <1>1, LeavesUse, LeavesWhen
  <1> DEFINE luminance ==
        Move(l, "COMMON", "UAV") \o When(h, Move(View, "UAV", "SRV"))
        \o Use(l, "UAV") \o When(h, Move(View, "SRV", "UAV"))
        \o Move(l, "UAV", "COMMON")
  <1>17. Leaves(When(HaveLuma, luminance), at, at)
    <2> HIDE DEF luminance
    <2>1. Leaves(luminance, at, at)
      BY <1>15 DEF luminance
    <2> QED BY <2>1, LeavesWhen
  <1>18. ViewCommands = When(Widens, Use(View, "UAV")) \o When(HaveLuma, luminance)
    BY DEF ViewCommands, l, h
  <1> HIDE DEF luminance
  <1> QED BY <1>16, <1>17, <1>18, LeavesThen

\* The brackets leave the target as the blend reads it, around a list that
\* finds it as the pass writes it and leaves it so.
LEMMA BracketLeaves ==
  ASSUME NEW at \in [Textures -> States], NEW after \in [Textures -> States], NEW c,
         at[PassTarget] = RestState, after[PassTarget] = RestState,
         Leaves(c, [at EXCEPT ![PassTarget] = WriteState],
                   [after EXCEPT ![PassTarget] = WriteState])
  PROVE  Leaves(Bracketed(c), at, [after EXCEPT ![PassTarget] = ReadState])
  <1> DEFINE t == PassTarget
             mid == [at EXCEPT ![t] = WriteState]
             written == [after EXCEPT ![t] = WriteState]
             end == [after EXCEPT ![t] = ReadState]
             changes == RestState # WriteState
             reads == RestState # ReadState
  <1>1. t \in Textures /\ {RestState, ReadState, WriteState} \subseteq States
    BY TextureNames, StateNames
  <1>2. /\ mid \in [Textures -> States] /\ mid[t] = WriteState
        /\ written \in [Textures -> States] /\ written[t] = WriteState
        /\ [written EXCEPT ![t] = RestState] = after
        /\ RestState = WriteState => mid = at /\ written = after
        /\ RestState = ReadState => end = after
    BY <1>1
  <1>3. Leaves(Move(t, RestState, WriteState), at, mid)
    BY <1>1, LeavesMove
  <1>4. Leaves(Move(t, RestState, ReadState), after, end)
    BY <1>1, LeavesMove
  <1>5. Leaves(c, mid, written)
    OBVIOUS
  <1>6. Bracketed(c) = When(changes, Move(t, RestState, WriteState)) \o c
                       \o When(changes, Move(t, WriteState, RestState))
                       \o When(reads, Move(t, RestState, ReadState))
    BY DEF Bracketed
  <1> HIDE DEF mid, written, end, t
  <1>7. Leaves(Move(t, WriteState, RestState), written, after)
    BY <1>1, <1>2, LeavesMove
  <1>8. Leaves(When(changes, Move(t, RestState, WriteState)), at, mid)
    BY <1>2, <1>3, LeavesNone DEF When
  <1>9. Leaves(When(changes, Move(t, WriteState, RestState)), written, after)
    BY <1>2, <1>7, LeavesNone DEF When
  <1>10. Leaves(When(reads, Move(t, RestState, ReadState)), after, end)
    BY <1>2, <1>4, LeavesNone DEF When
  <1> HIDE DEF changes, reads
  <1>11. Leaves(When(changes, Move(t, RestState, WriteState)) \o c, at, written)
    BY <1>5, <1>8, LeavesThen
  <1>12. Leaves(When(changes, Move(t, RestState, WriteState)) \o c
                \o When(changes, Move(t, WriteState, RestState)), at, after)
    BY <1>9, <1>11, LeavesThen
  <1>13. Leaves(Bracketed(c), at, end)
    BY <1>6, <1>10, <1>12, LeavesThen
  <1> QED BY <1>13 DEF end, t

LEMMA CopyThroughLeaves ==
  ASSUME NEW at \in [Textures -> States], at[PassTarget] = "UAV", at[View] = "UAV"
  PROVE  Leaves(CopyThroughCommands, at, at)
  <1> DEFINE t == PassTarget
  <1>1. /\ View \in Textures /\ t \in Textures /\ t # View
        /\ "UAV" \in States /\ "SRV" \in States
        /\ "COPY_SOURCE" \in States /\ "COPY_DEST" \in States
    BY TextureNames, StateNames DEF View, Work, Neural, Tex
  <1> HIDE DEF t
  <1>2. CASE dev.resolveFolded
    <2> DEFINE mid == [at EXCEPT ![View] = "SRV"]
    <2>1. mid \in [Textures -> States] /\ mid[t] = "UAV"
      BY <1>1 DEF t
    <2>2. Leaves(Use(t, "UAV"), mid, mid)
      <3> HIDE DEF mid
      <3> QED BY <1>1, <2>1, LeavesUse
    <2>3. CopyThroughCommands = Move(View, "UAV", "SRV") \o Use(t, "UAV")
                                \o Move(View, "SRV", "UAV")
      BY <1>2 DEF CopyThroughCommands, t
    <2> QED BY <1>1, <2>2, <2>3, LeavesBetween
  <1>3. CASE ~dev.resolveFolded
    <2> DEFINE mid == [at EXCEPT ![t] = "COPY_DEST"]
               read == [mid EXCEPT ![View] = "COPY_SOURCE"]
               a == Move(t, "UAV", "COPY_DEST")
               b == Move(View, "UAV", "COPY_SOURCE")
               c == Move(View, "COPY_SOURCE", "UAV")
               d == Move(t, "COPY_DEST", "UAV")
    <2>1. at[t] = "UAV"
      BY DEF t
    <2>2. /\ mid \in [Textures -> States] /\ mid[View] = "UAV" /\ mid[t] = "COPY_DEST"
          /\ [mid EXCEPT ![t] = "UAV"] = at
      BY <1>1, <2>1
    <2>3. Leaves(a, at, mid)
      BY <1>1, <2>1, LeavesMove
    <2> HIDE DEF mid
    <2>4. /\ read \in [Textures -> States] /\ read[View] = "COPY_SOURCE"
          /\ [read EXCEPT ![View] = "UAV"] = mid
      BY <1>1, <2>2
    <2>5. Leaves(b, mid, read)
      BY <1>1, <2>2, LeavesMove
    <2> HIDE DEF read
    <2>6. Leaves(c, read, mid)
      BY <1>1, <2>4, LeavesMove
    <2>7. Leaves(d, mid, at)
      BY <1>1, <2>2, LeavesMove
    <2>8. CopyThroughCommands = a \o b \o c \o d
      BY <1>3 DEF CopyThroughCommands, t
    <2> HIDE DEF a, b, c, d
    <2>9. Leaves(a \o b, at, read)
      BY <2>3, <2>5, LeavesThen
    <2>10. Leaves(a \o b \o c, at, mid)
      BY <2>6, <2>9, LeavesThen
    <2> QED BY <2>7, <2>8, <2>10, LeavesThen
  <1> QED BY <1>2, <1>3

LEMMA UploadLeaves ==
  ASSUME NEW at \in [Textures -> States], at[Mask] = "COMMON"
  PROVE  Leaves(Move(Mask, "COMMON", "COPY_DEST") \o Move(Mask, "COPY_DEST", "COMMON"),
                at, at)
  BY LeavesThere, TextureNames, StateNames

LEMMA DepthLeaves ==
  ASSUME NEW at \in [Textures -> States],
         at[Depth] = IF depthUploaded THEN "SRV" ELSE "COMMON"
  PROVE  Leaves(UploadDepth, at, [at EXCEPT ![Depth] = "SRV"])
  <1> DEFINE mid == [at EXCEPT ![Depth] = "COPY_DEST"]
             end == [at EXCEPT ![Depth] = "SRV"]
  <1>1. Depth \in Textures /\ {"COMMON", "SRV", "COPY_DEST"} \subseteq States
    BY TextureNames, StateNames
  <1>2. CASE depthUploaded
    <2>1. end = at /\ UploadDepth = <<>>
      BY <1>2 DEF UploadDepth, When
    <2> QED BY <2>1, LeavesNone
  <1>3. CASE ~depthUploaded
    <2>1. Leaves(Move(Depth, "COMMON", "COPY_DEST"), at, mid)
      BY <1>1, <1>3, LeavesMove
    <2>2. /\ mid \in [Textures -> States] /\ mid[Depth] = "COPY_DEST"
          /\ [mid EXCEPT ![Depth] = "SRV"] = end
      BY <1>1
    <2>3. UploadDepth = Move(Depth, "COMMON", "COPY_DEST") \o Move(Depth, "COPY_DEST", "SRV")
      BY <1>3 DEF UploadDepth, When
    <2> HIDE DEF mid, end
    <2>4. Leaves(Move(Depth, "COPY_DEST", "SRV"), mid, end)
      BY <1>1, <2>2, LeavesMove
    <2>5. Leaves(UploadDepth, at, end)
      BY <2>1, <2>3, <2>4, LeavesThen
    <2> QED BY <2>5 DEF end
  <1> QED BY <1>2, <1>3

\* The view is read and the model's input written, whichever way it is done.
LEMMA EncodeLeaves ==
  ASSUME NEW at \in [Textures -> States], NEW copied \in BOOLEAN,
         at[View] = "SRV", at[ModelIn] = "UAV"
  PROVE  Leaves(EncodeCommands(copied), at, at)
  <1> DEFINE read == [at EXCEPT ![View] = "COPY_SOURCE"]
  <1>1. /\ View \in Textures /\ ModelIn \in Textures /\ View # ModelIn
        /\ {"UAV", "SRV", "COPY_SOURCE", "COPY_DEST"} \subseteq States
    BY TextureNames, StateNames DEF View, ModelIn, Tex
  <1>2. CASE ~copied
    BY <1>1, <1>2, LeavesUse DEF EncodeCommands
  <1>3. CASE copied
    <2> DEFINE a == Move(View, "SRV", "COPY_SOURCE")
               b == Move(ModelIn, "UAV", "COPY_DEST")
               c == Move(ModelIn, "COPY_DEST", "UAV")
               d == Move(View, "COPY_SOURCE", "SRV")
               done == [read EXCEPT ![ModelIn] = "COPY_DEST"]
    <2>1. Leaves(a, at, read)
      BY <1>1, LeavesMove
    <2>2. /\ read \in [Textures -> States] /\ read[ModelIn] = "UAV"
          /\ read[View] = "COPY_SOURCE" /\ [read EXCEPT ![View] = "SRV"] = at
      BY <1>1
    <2> HIDE DEF read
    <2>3. Leaves(b, read, done)
      BY <1>1, <2>2, LeavesMove
    <2>4. /\ done \in [Textures -> States] /\ done[ModelIn] = "COPY_DEST"
          /\ [done EXCEPT ![ModelIn] = "UAV"] = read
      BY <1>1, <2>2
    <2> HIDE DEF done
    <2>5. Leaves(c, done, read)
      BY <1>1, <2>4, LeavesMove
    <2>6. Leaves(d, read, at)
      BY <1>1, <2>2, LeavesMove
    <2>7. EncodeCommands(copied) = a \o b \o c \o d
      BY <1>3 DEF EncodeCommands
    <2> HIDE DEF a, b, c, d
    <2>8. Leaves(a \o b, at, done)
      BY <2>1, <2>3, LeavesThen
    <2>9. Leaves(a \o b \o c, at, read)
      BY <2>5, <2>8, LeavesThen
    <2> QED BY <2>6, <2>7, <2>9, LeavesThen
  <1> QED BY <1>2, <1>3

LEMMA BlendLeaves ==
  ASSUME NEW at \in [Textures -> States], dev.masked, at[Neural] = "SRV",
         at[Work] = "COPY_SOURCE", at[View] = "UAV", at[Mask] = "COMMON"
  PROVE  Leaves(BlendCommands, at, [at EXCEPT ![Neural] = "UAV"])
  <1> DEFINE mid == [at EXCEPT ![Work] = "UAV"]
             seen == [mid EXCEPT ![View] = "SRV"]
             end == [at EXCEPT ![Neural] = "UAV"]
             h == dev.hdr /\ dev.direct
             composed == Move(View, "UAV", "SRV") \o Use(Neural, "SRV")
                         \o Use(Work, "UAV") \o Move(View, "SRV", "UAV")
             restored == Use(Neural, "SRV") \o Use(Mask, "COMMON") \o Use(Work, "UAV")
             m == ~h /\ hasMask
  <1>1. /\ {View, Mask, Neural, Work} \subseteq Textures
        /\ Work # View /\ Work # Neural /\ Work # Mask /\ View # Neural
        /\ {"UAV", "SRV", "COMMON", "COPY_SOURCE"} \subseteq States
    BY TextureNames, StateNames DEF View, Mask, Neural, Work, Tex
  <1>2. BlendCommands = Move(Work, "COPY_SOURCE", "UAV") \o When(h, composed)
                        \o When(m, restored)
                        \o Move(Work, "UAV", "COPY_SOURCE") \o Move(Neural, "SRV", "UAV")
    BY DEF BlendCommands, RestState, Scratch
  <1>3. /\ mid \in [Textures -> States] /\ mid[Work] = "UAV" /\ mid[Neural] = "SRV"
        /\ mid[View] = "UAV" /\ mid[Mask] = "COMMON"
        /\ [mid EXCEPT ![Work] = "COPY_SOURCE"] = at
    BY <1>1
  <1>4. Leaves(Move(Work, "COPY_SOURCE", "UAV"), at, mid)
    BY <1>1, LeavesMove
  <1>5. Leaves(Move(Neural, "SRV", "UAV"), at, end)
    BY <1>1, LeavesMove
  <1> HIDE DEF mid, end
  <1>6. Leaves(Move(Work, "UAV", "COPY_SOURCE"), mid, at)
    BY <1>1, <1>3, LeavesMove
  <1>7. Leaves(When(m, restored), mid, mid)
    <2>1. /\ Leaves(Use(Neural, "SRV"), mid, mid)
          /\ Leaves(Use(Mask, "COMMON"), mid, mid)
          /\ Leaves(Use(Work, "UAV"), mid, mid)
      BY <1>1, <1>3, LeavesUse
    <2>2. Leaves(Use(Neural, "SRV") \o Use(Mask, "COMMON"), mid, mid)
      BY <2>1, LeavesThen
    <2>3. Leaves(restored, mid, mid)
      BY <2>1, <2>2, LeavesThen
    <2> HIDE DEF restored
    <2> QED BY <2>3, LeavesWhen
  <1>8. Leaves(When(h, composed), mid, mid)
    <2>1. /\ seen \in [Textures -> States] /\ seen[Work] = "UAV" /\ seen[Neural] = "SRV"
          /\ seen[View] = "SRV" /\ [seen EXCEPT ![View] = "UAV"] = mid
      BY <1>1, <1>3
    <2>2. Leaves(Move(View, "UAV", "SRV"), mid, seen)
      BY <1>1, <1>3, LeavesMove
    <2> HIDE DEF seen
    <2>3. /\ Leaves(Use(Neural, "SRV"), seen, seen)
          /\ Leaves(Use(Work, "UAV"), seen, seen)
          /\ Leaves(Move(View, "SRV", "UAV"), seen, mid)
      BY <1>1, <2>1, LeavesUse, LeavesMove
    <2>4. Leaves(Move(View, "UAV", "SRV") \o Use(Neural, "SRV"), mid, seen)
      BY <2>2, <2>3, LeavesThen
    <2>5. Leaves(Move(View, "UAV", "SRV") \o Use(Neural, "SRV") \o Use(Work, "UAV"),
                 mid, seen)
      BY <2>3, <2>4, LeavesThen
    <2>6. Leaves(composed, mid, mid)
      BY <2>3, <2>5, LeavesThen
    <2> HIDE DEF composed
    <2> QED BY <2>6, LeavesWhen
  <1> HIDE DEF composed, restored, h, m
  <1>9. Leaves(Move(Work, "COPY_SOURCE", "UAV") \o When(h, composed), at, mid)
    BY <1>4, <1>8, LeavesThen
  <1>10. Leaves(Move(Work, "COPY_SOURCE", "UAV") \o When(h, composed)
                \o When(m, restored), at, mid)
    BY <1>7, <1>9, LeavesThen
  <1>11. Leaves(Move(Work, "COPY_SOURCE", "UAV") \o When(h, composed)
                \o When(m, restored) \o Move(Work, "UAV", "COPY_SOURCE"), at, at)
    BY <1>6, <1>10, LeavesThen
  <1>12. Leaves(BlendCommands, at, end)
    BY <1>2, <1>5, <1>11, LeavesThen
  <1> QED BY <1>12 DEF end

-------------------------------------------------------------------------------
(* The model's lists, by induction on the passes.                          *)

\* The model's lists, however many passes are evaluated and whichever is
\* refused, find every texture as they name it and leave all as it was.
LEMMA ModelLeaves ==
  ASSUME NEW at \in [Textures -> States], NEW n \in 1 .. MaxPasses,
         NEW refused \in 1 .. n + 1, NEW chained \in BOOLEAN, NEW copied \in BOOLEAN,
         at[Depth] = "SRV", \A t \in {View, Motion, ModelIn, ModelOut, PassTarget} : at[t] = "UAV",
         \A i \in 1 .. MaxPasses - 1 : at[Raw(i)] = "UAV" /\ at[Chained(i)] = "UAV"
  PROVE  Leaves(ModelCommands(n, refused, chained, copied), at, at)
  <1> DEFINE last == (IF refused > n THEN n ELSE refused) - 1
             Input(i) == IF i = 1 THEN ModelIn
                         ELSE IF chained THEN Chained(i - 1) ELSE Raw(i - 1)
             Output(i) == IF i = n THEN ModelOut ELSE Raw(i)
             Evaluate(i) ==
               Use(Input(i), "SRV") \o Use(Depth, "SRV") \o Use(Motion, "SRV")
               \o Use(Output(i), "UAV")
             HandOn(i) ==
               Evaluate(i) \o Move(Raw(i), "UAV", "SRV")
               \o When(chained, Use(ModelIn, "SRV") \o Move(Chained(i), "UAV", "SRV"))
             TakeBack(i) ==
               Move(Raw(i), "SRV", "UAV")
               \o When(chained, Move(Chained(i), "SRV", "UAV"))
             outcome == Move(ModelOut, "UAV", "SRV") \o Use(PassTarget, "UAV")
                        \o Move(ModelOut, "SRV", "UAV")
  \* The states after each part of the list.
  <1> DEFINE at1 == [at EXCEPT ![View] = "SRV"]
             at2 == [at1 EXCEPT ![Motion] = "SRV"]
             at3 == [at2 EXCEPT ![ModelIn] = "SRV"]
             Handed(i) == {Raw(j) : j \in i} \union
                          (IF chained THEN {Chained(j) : j \in i} ELSE {})
             After(i) == [t \in Textures |-> IF t \in Handed(1 .. i) THEN "SRV" ELSE at3[t]]
             Left(i) == [t \in Textures |->
                           IF t \in Handed((i + 1) .. last) THEN "SRV" ELSE at3[t]]
  <1> HIDE DEF Evaluate, HandOn, TakeBack, outcome
  <1>1. ModelCommands(n, refused, chained, copied) =
          Move(View, "UAV", "SRV") \o Move(Motion, "UAV", "SRV")
          \o EncodeCommands(copied) \o Move(ModelIn, "UAV", "SRV")
          \o FlattenSeq([i \in 1 .. last |-> HandOn(i)])
          \o Evaluate(last + 1)
          \o When(refused > n, outcome)
          \o FlattenSeq([i \in 1 .. last |-> TakeBack(i)])
          \o Move(ModelIn, "SRV", "UAV") \o Move(Motion, "SRV", "UAV")
          \o Move(View, "SRV", "UAV")
    BY DEF ModelCommands, Each, Evaluate, HandOn, TakeBack, outcome
  <1>2. /\ last \in Nat /\ last \in 0 .. MaxPasses - 1 /\ last <= n - 1
        /\ last + 1 <= n /\ MaxPasses \in Nat
        /\ refused > n => last + 1 = n
    BY FrameAssumption
  <1>3. /\ {View, Motion, ModelIn, ModelOut, PassTarget, Depth} \subseteq Textures
        /\ \A i \in 1 .. MaxPasses - 1 : Raw(i) \in Textures /\ Chained(i) \in Textures
        /\ "UAV" \in States /\ "SRV" \in States
    BY TextureNames, StateNames
  <1>4. /\ View # Motion /\ View # ModelIn /\ Motion # ModelIn
        /\ ModelOut \notin {View, Motion, ModelIn, PassTarget}
        /\ PassTarget \notin {View, Motion, ModelIn}
        /\ Depth \notin {View, Motion, ModelIn}
    BY TextureNames DEF View, Motion, ModelIn, ModelOut, Depth, Neural, Work, Tex
  <1>5. ASSUME NEW i \in 1 .. MaxPasses - 1
        PROVE  /\ Raw(i) \notin {View, Motion, ModelIn, ModelOut, PassTarget, Depth}
               /\ Chained(i) \notin {View, Motion, ModelIn, ModelOut, PassTarget, Depth}
               /\ \A j \in 1 .. MaxPasses - 1 :
                    /\ Raw(i) # Chained(j)
                    /\ Raw(i) = Raw(j) => i = j
                    /\ Chained(i) = Chained(j) => i = j
    BY TextureNames
       DEF View, Motion, ModelIn, ModelOut, Depth, Neural, Work, Tex, Raw, Chained
  <1>6. /\ at1 \in [Textures -> States] /\ at2 \in [Textures -> States]
        /\ at3 \in [Textures -> States]
        /\ at1[Motion] = "UAV" /\ at2[ModelIn] = "UAV"
        /\ at1[View] = "SRV" /\ at2[Motion] = "SRV" /\ at3[ModelIn] = "SRV"
        /\ at3[Motion] = "SRV" /\ at3[View] = "SRV"
        /\ at3[ModelOut] = "UAV" /\ at3[PassTarget] = "UAV" /\ at3[Depth] = "SRV"
        /\ at2[View] = "SRV"
        /\ [at1 EXCEPT ![View] = "UAV"] = at
        /\ [at2 EXCEPT ![Motion] = "UAV"] = at1
        /\ [at3 EXCEPT ![ModelIn] = "UAV"] = at2
    BY <1>3, <1>4
  <1>7. \A i \in 1 .. MaxPasses - 1 : at3[Raw(i)] = "UAV" /\ at3[Chained(i)] = "UAV"
    BY <1>3, <1>5
  <1>8. /\ Leaves(Move(View, "UAV", "SRV"), at, at1)
        /\ Leaves(Move(Motion, "UAV", "SRV"), at1, at2)
        /\ Leaves(Move(ModelIn, "UAV", "SRV"), at2, at3)
    <2>1. Leaves(Move(View, "UAV", "SRV"), at, at1)
      BY <1>3, LeavesMove
    <2>2. Leaves(Move(Motion, "UAV", "SRV"), at1, at2)
      <3> HIDE DEF at1
      <3> QED BY <1>3, <1>6, LeavesMove
    <2>3. Leaves(Move(ModelIn, "UAV", "SRV"), at2, at3)
      <3> HIDE DEF at2
      <3> QED BY <1>3, <1>6, LeavesMove
    <2> QED BY <2>1, <2>2, <2>3
  <1> HIDE DEF at1, at2, at3
  <1>9. /\ Leaves(EncodeCommands(copied), at2, at2)
        /\ Leaves(Move(ModelIn, "SRV", "UAV"), at3, at2)
        /\ Leaves(Move(Motion, "SRV", "UAV"), at2, at1)
        /\ Leaves(Move(View, "SRV", "UAV"), at1, at)
    <2>1. Leaves(EncodeCommands(copied), at2, at2)
      BY <1>6, EncodeLeaves
    <2> QED BY <1>3, <1>6, <2>1, LeavesMove
  <1>10. ASSUME NEW i \in 0 .. last
         PROVE  /\ After(i) \in [Textures -> States] /\ Left(i) \in [Textures -> States]
                /\ \A t \in {View, Motion, ModelIn, ModelOut, PassTarget, Depth} :
                     After(i)[t] = at3[t] /\ Left(i)[t] = at3[t]
                /\ \A j \in 1 .. MaxPasses - 1 :
                     /\ After(i)[Raw(j)] = IF j <= i THEN "SRV" ELSE "UAV"
                     /\ Left(i)[Raw(j)] = IF i < j /\ j <= last THEN "SRV" ELSE "UAV"
                     /\ After(i)[Chained(j)] = IF chained /\ j <= i THEN "SRV" ELSE "UAV"
                     /\ Left(i)[Chained(j)] =
                          IF chained /\ i < j /\ j <= last THEN "SRV" ELSE "UAV"
    <2>1. After(i) \in [Textures -> States] /\ Left(i) \in [Textures -> States]
      BY <1>3, <1>6
    <2>2. ASSUME NEW t \in {View, Motion, ModelIn, ModelOut, PassTarget, Depth}
          PROVE  After(i)[t] = at3[t] /\ Left(i)[t] = at3[t]
      BY <1>2, <1>3, <1>5
    <2>3. ASSUME NEW j \in 1 .. MaxPasses - 1
          PROVE  /\ After(i)[Raw(j)] = IF j <= i THEN "SRV" ELSE "UAV"
                 /\ Left(i)[Raw(j)] = IF i < j /\ j <= last THEN "SRV" ELSE "UAV"
                 /\ After(i)[Chained(j)] = IF chained /\ j <= i THEN "SRV" ELSE "UAV"
                 /\ Left(i)[Chained(j)] =
                      IF chained /\ i < j /\ j <= last THEN "SRV" ELSE "UAV"
      <3>1. /\ Raw(j) \in Handed(1 .. i) <=> j <= i
            /\ Raw(j) \in Handed((i + 1) .. last) <=> i < j /\ j <= last
            /\ Chained(j) \in Handed(1 .. i) <=> chained /\ j <= i
            /\ Chained(j) \in Handed((i + 1) .. last) <=> chained /\ i < j /\ j <= last
        BY <1>2, <1>5
      <3> HIDE DEF Handed
      <3> QED BY <1>3, <1>7, <3>1
    <2> QED BY <2>1, <2>2, <2>3
  <1>11. After(0) = at3 /\ Left(last) = at3 /\ Left(0) = After(last)
    <2>1. Handed(1 .. 0) = {} /\ Handed((last + 1) .. last) = {}
      BY <1>2
    <2>2. at3 = [t \in Textures |-> at3[t]]
      BY <1>6
    <2> QED BY <1>2, <2>1, <2>2
  <1>12. ASSUME NEW i \in 1 .. last
         PROVE  /\ chained => After(i) = [[After(i - 1) EXCEPT ![Raw(i)] = "SRV"]
                                            EXCEPT ![Chained(i)] = "SRV"]
                /\ ~chained => After(i) = [After(i - 1) EXCEPT ![Raw(i)] = "SRV"]
    <2>1. /\ i - 1 \in 0 .. last /\ i \in 0 .. last /\ i \in 1 .. MaxPasses - 1
          /\ 1 .. i = (1 .. (i - 1)) \union {i}
      BY <1>2
    <2>2. Handed(1 .. i) = Handed(1 .. (i - 1)) \union {Raw(i)}
                             \union (IF chained THEN {Chained(i)} ELSE {})
      <3> DEFINE S == 1 .. (i - 1)
      <3>1. 1 .. i = S \union {i}
        BY <2>1
      <3> HIDE DEF S
      <3>2. Handed(S \union {i}) = Handed(S) \union {Raw(i)}
                                     \union (IF chained THEN {Chained(i)} ELSE {})
        OBVIOUS
      <3> QED BY <3>1, <3>2 DEF S
    <2> HIDE DEF Handed
    <2>3. Raw(i) \in Textures /\ Chained(i) \in Textures /\ Raw(i) # Chained(i)
      BY <1>3, <1>5, <2>1
    <2> QED BY <2>2, <2>3
  <1>13. ASSUME NEW i \in 1 .. last
         PROVE  /\ chained => Left(i) = [[Left(i - 1) EXCEPT ![Raw(i)] = "UAV"]
                                            EXCEPT ![Chained(i)] = "UAV"]
                /\ ~chained => Left(i) = [Left(i - 1) EXCEPT ![Raw(i)] = "UAV"]
    <2>1. /\ i - 1 \in 0 .. last /\ i \in 0 .. last /\ i \in 1 .. MaxPasses - 1
          /\ (i - 1) + 1 = i
          /\ i .. last = ((i + 1) .. last) \union {i}
      BY <1>2
    <2>2. Handed(i .. last) = Handed((i + 1) .. last) \union {Raw(i)}
                             \union (IF chained THEN {Chained(i)} ELSE {})
      <3> DEFINE S == (i + 1) .. last
      <3>1. i .. last = S \union {i}
        BY <2>1
      <3> HIDE DEF S
      <3>2. Handed(S \union {i}) = Handed(S) \union {Raw(i)}
                                     \union (IF chained THEN {Chained(i)} ELSE {})
        OBVIOUS
      <3> QED BY <3>1, <3>2 DEF S
    <2>3. /\ Raw(i) \notin Handed((i + 1) .. last)
          /\ chained => Chained(i) \notin Handed((i + 1) .. last)
      BY <1>2, <1>5, <2>1
    <2>4. /\ Raw(i) \in Textures /\ Chained(i) \in Textures /\ Raw(i) # Chained(i)
          /\ at3[Raw(i)] = "UAV" /\ at3[Chained(i)] = "UAV"
      BY <1>3, <1>5, <1>7, <2>1
    <2> HIDE DEF Handed
    <2>5. Left(i - 1) = [t \in Textures |->
                           IF t \in Handed(i .. last) THEN "SRV" ELSE at3[t]]
      BY <2>1
    <2>6. CASE chained
      <3>1. \A t \in Textures : t \in Handed(i .. last) <=>
              t \in Handed((i + 1) .. last) \/ t = Raw(i) \/ t = Chained(i)
        BY <2>2, <2>6
      <3> DEFINE mid == [Left(i - 1) EXCEPT ![Raw(i)] = "UAV"]
      <3>2. mid = [t \in Textures |-> IF t \in Handed((i + 1) .. last) \/ t = Chained(i)
                                      THEN "SRV" ELSE at3[t]]
        BY <2>3, <2>4, <2>5, <3>1
      <3> HIDE DEF mid
      <3>3. [mid EXCEPT ![Chained(i)] = "UAV"] = Left(i)
        BY <2>3, <2>4, <2>6, <3>2
      <3> QED BY <2>6, <3>3 DEF mid
    <2>7. CASE ~chained
      <3>1. \A t \in Textures : t \in Handed(i .. last) <=>
              t \in Handed((i + 1) .. last) \/ t = Raw(i)
        BY <2>2, <2>7
      <3> DEFINE prev == Left(i - 1)
      <3>2. prev = [t \in Textures |-> IF t \in Handed((i + 1) .. last) \/ t = Raw(i)
                                       THEN "SRV" ELSE at3[t]]
        BY <2>5, <3>1
      <3> HIDE DEF prev
      <3>3. [prev EXCEPT ![Raw(i)] = "UAV"] = Left(i)
        BY <2>3, <2>4, <3>2
      <3> QED BY <2>7, <3>3 DEF prev
    <2> QED BY <2>6, <2>7
  <1> HIDE DEF After, Left, Handed
  \* What one pass reads and writes.
  <1>14. ASSUME NEW i \in 1 .. last + 1
         PROVE  Leaves(Evaluate(i), After(i - 1), After(i - 1))
    <2>1. /\ i - 1 \in 0 .. last
          /\ i # 1 => i - 1 \in 1 .. MaxPasses - 1
          /\ i # n => i \in 1 .. MaxPasses - 1
      BY <1>2
    <2>2. Input(i) \in Textures /\ Output(i) \in Textures
      BY <1>3, <2>1
    <2>3. After(i - 1)[Input(i)] = "SRV"
      <3>1. CASE i = 1
        BY <1>6, <1>10, <2>1, <3>1
      <3>2. CASE i # 1
        BY <1>10, <2>1, <3>2
      <3> QED BY <3>1, <3>2
    <2>4. After(i - 1)[Output(i)] = "UAV"
      BY <1>2, <1>6, <1>10, <2>1
    <2>5. /\ After(i - 1)[Motion] = "SRV" /\ After(i - 1)[Depth] = "SRV"
          /\ After(i - 1) \in [Textures -> States]
      BY <1>6, <1>10, <2>1
    <2> HIDE DEF After, Input, Output
    <2>6. /\ Leaves(Use(Input(i), "SRV"), After(i - 1), After(i - 1))
          /\ Leaves(Use(Depth, "SRV"), After(i - 1), After(i - 1))
          /\ Leaves(Use(Motion, "SRV"), After(i - 1), After(i - 1))
          /\ Leaves(Use(Output(i), "UAV"), After(i - 1), After(i - 1))
      BY <1>3, <2>2, <2>3, <2>4, <2>5, LeavesUse
    <2>7. Leaves(Use(Input(i), "SRV") \o Use(Depth, "SRV"), After(i - 1), After(i - 1))
      BY <2>6, LeavesThen
    <2>8. Leaves(Use(Input(i), "SRV") \o Use(Depth, "SRV") \o Use(Motion, "SRV"),
                 After(i - 1), After(i - 1))
      BY <2>6, <2>7, LeavesThen
    <2> QED BY <2>6, <2>8, LeavesThen DEF Evaluate
  <1>15. ASSUME NEW i \in 1 .. last
         PROVE  Leaves(HandOn(i), After(i - 1), After(i))
    <2> DEFINE mid == [After(i - 1) EXCEPT ![Raw(i)] = "SRV"]
               rest == Use(ModelIn, "SRV") \o Move(Chained(i), "UAV", "SRV")
    <2>1. i - 1 \in 0 .. last /\ i \in 1 .. last + 1 /\ i \in 1 .. MaxPasses - 1
          /\ ~(i <= i - 1)
      BY <1>2
    <2>2. /\ After(i - 1) \in [Textures -> States] /\ After(i - 1)[Raw(i)] = "UAV"
          /\ After(i - 1)[Chained(i)] = "UAV" /\ After(i - 1)[ModelIn] = "SRV"
      BY <1>6, <1>10, <2>1
    <2>3. /\ Raw(i) \in Textures /\ Chained(i) \in Textures /\ ModelIn \in Textures
          /\ Raw(i) # Chained(i) /\ Raw(i) # ModelIn
      BY <1>3, <1>5, <2>1
    <2> HIDE DEF After
    <2>4. Leaves(Move(Raw(i), "UAV", "SRV"), After(i - 1), mid)
      BY <1>3, <2>2, <2>3, LeavesMove
    <2>5. Leaves(Evaluate(i), After(i - 1), After(i - 1))
      BY <1>14, <2>1
    <2>6. Leaves(Evaluate(i) \o Move(Raw(i), "UAV", "SRV"), After(i - 1), mid)
      BY <2>4, <2>5, LeavesThen
    <2>7. mid \in [Textures -> States] /\ mid[Chained(i)] = "UAV" /\ mid[ModelIn] = "SRV"
      BY <1>3, <2>2, <2>3
    <2>8. chained => After(i) = [mid EXCEPT ![Chained(i)] = "SRV"]
      BY <1>12
    <2>9. ~chained => After(i) = mid
      BY <1>12
    <2> HIDE DEF mid
    <2>10. chained => Leaves(rest, mid, After(i))
      <3>1. Leaves(Use(ModelIn, "SRV"), mid, mid)
        BY <1>3, <2>3, <2>7, LeavesUse
      <3>2. chained => Leaves(Move(Chained(i), "UAV", "SRV"), mid, After(i))
        BY <1>3, <2>3, <2>7, <2>8, LeavesMove
      <3> QED BY <3>1, <3>2, LeavesThen
    <2> HIDE DEF rest
    <2>11. Leaves(When(chained, rest), mid, After(i))
      BY <2>9, <2>10, LeavesNone DEF When
    <2> QED BY <2>6, <2>11, LeavesThen DEF HandOn, rest
  <1>16. ASSUME NEW i \in 1 .. last
         PROVE  Leaves(TakeBack(i), Left(i - 1), Left(i))
    <2> DEFINE mid == [Left(i - 1) EXCEPT ![Raw(i)] = "UAV"]
               rest == Move(Chained(i), "SRV", "UAV")
    <2>1. i - 1 \in 0 .. last /\ i \in 1 .. MaxPasses - 1 /\ i - 1 < i
      BY <1>2
    <2>2. /\ Left(i - 1) \in [Textures -> States] /\ Left(i - 1)[Raw(i)] = "SRV"
          /\ chained => Left(i - 1)[Chained(i)] = "SRV"
      BY <1>10, <2>1
    <2>3. Raw(i) \in Textures /\ Chained(i) \in Textures /\ Raw(i) # Chained(i)
      BY <1>3, <1>5, <2>1
    <2> HIDE DEF Left
    <2>4. Leaves(Move(Raw(i), "SRV", "UAV"), Left(i - 1), mid)
      BY <1>3, <2>2, <2>3, LeavesMove
    <2>5. chained => mid[Chained(i)] = "SRV"
      BY <1>3, <2>2, <2>3
    <2>6. chained => Left(i) = [mid EXCEPT ![Chained(i)] = "UAV"]
      BY <1>13
    <2>7. ~chained => Left(i) = mid
      BY <1>13
    <2>8. mid \in [Textures -> States]
      BY <1>3, <2>2
    <2> HIDE DEF mid
    <2>9. ASSUME chained PROVE Leaves(rest, mid, Left(i))
      <3>1. mid[Chained(i)] = "SRV" /\ Left(i) = [mid EXCEPT ![Chained(i)] = "UAV"]
        BY <2>5, <2>6, <2>9
      <3>2. "SRV" \in States /\ "UAV" \in States
        BY <1>3
      <3>3. Leaves(Move(Chained(i), "SRV", "UAV"), mid,
                   [mid EXCEPT ![Chained(i)] = "UAV"])
        BY <2>3, <2>8, <3>1, <3>2, LeavesMove
      <3> QED BY <3>1, <3>3
    <2> HIDE DEF rest
    <2>10. Leaves(When(chained, rest), mid, Left(i))
      BY <2>7, <2>9, LeavesNone DEF When
    <2> QED BY <2>4, <2>10, LeavesThen DEF TakeBack, rest
  <1>17. Leaves(FlattenSeq([i \in 1 .. last |-> HandOn(i)]), at3, After(last))
    <2> DEFINE steps == [i \in 0 .. last |-> After(i)]
               lists == [i \in 1 .. last |-> HandOn(i)]
    <2>1. /\ DOMAIN lists = 1 .. last /\ lists = [i \in 1 .. last |-> lists[i]]
          /\ steps[0] = at3 /\ steps[last] = After(last)
      BY <1>2, <1>11
    <2>2. ASSUME NEW i \in 1 .. last PROVE Leaves(lists[i], steps[i - 1], steps[i])
      <3>1. i - 1 \in 0 .. last /\ i \in 0 .. last
        BY <1>2
      <3> HIDE DEF After
      <3> QED BY <1>15, <3>1
    <2> HIDE DEF steps, lists
    <2>3. Leaves(FlattenSeq(lists), steps[0], steps[last])
      BY <1>2, <2>1, <2>2, LeavesEach
    <2> QED BY <2>1, <2>3 DEF lists
  <1>18. Leaves(FlattenSeq([i \in 1 .. last |-> TakeBack(i)]), After(last), at3)
    <2> DEFINE steps == [i \in 0 .. last |-> Left(i)]
               lists == [i \in 1 .. last |-> TakeBack(i)]
    <2>1. /\ DOMAIN lists = 1 .. last /\ lists = [i \in 1 .. last |-> lists[i]]
          /\ steps[0] = After(last) /\ steps[last] = at3
      BY <1>2, <1>11
    <2>2. ASSUME NEW i \in 1 .. last PROVE Leaves(lists[i], steps[i - 1], steps[i])
      <3>1. i - 1 \in 0 .. last /\ i \in 0 .. last
        BY <1>2
      <3> HIDE DEF Left
      <3> QED BY <1>16, <3>1
    <2> HIDE DEF steps, lists
    <2>3. Leaves(FlattenSeq(lists), steps[0], steps[last])
      BY <1>2, <2>1, <2>2, LeavesEach
    <2> QED BY <2>1, <2>3 DEF lists
  <1> DEFINE all == After(last)
  <1>19. Leaves(Evaluate(last + 1), all, all)
    <2>1. last + 1 \in 1 .. last + 1 /\ (last + 1) - 1 = last
      BY <1>2
    <2> HIDE DEF After
    <2> QED BY <1>14, <2>1
  <1>20. Leaves(When(refused > n, outcome), all, all)
    <2> DEFINE mid == [all EXCEPT ![ModelOut] = "SRV"]
    <2>1. /\ all \in [Textures -> States] /\ all[ModelOut] = "UAV"
          /\ all[PassTarget] = "UAV"
      <3>1. last \in 0 .. last
        BY <1>2
      <3> QED BY <1>6, <1>10, <3>1
    <2> HIDE DEF all
    <2>2. mid \in [Textures -> States] /\ mid[PassTarget] = "UAV"
      BY <1>3, <1>4, <2>1
    <2>3. Leaves(Use(PassTarget, "UAV"), mid, mid)
      <3> HIDE DEF mid
      <3> QED BY <1>3, <2>2, LeavesUse
    <2>4. Leaves(outcome, all, all)
      BY <1>3, <2>1, <2>3, LeavesBetween DEF outcome
    <2> QED BY <2>4, LeavesWhen
  <1> HIDE DEF all
  <1>21. /\ Leaves(FlattenSeq([i \in 1 .. last |-> HandOn(i)]), at3, all)
         /\ Leaves(FlattenSeq([i \in 1 .. last |-> TakeBack(i)]), all, at3)
    BY <1>17, <1>18 DEF all
  <1> DEFINE handOn == FlattenSeq([i \in 1 .. last |-> HandOn(i)])
             takeBack == FlattenSeq([i \in 1 .. last |-> TakeBack(i)])
             c1 == Move(View, "UAV", "SRV")
             c2 == Move(Motion, "UAV", "SRV")
             c3 == EncodeCommands(copied)
             c4 == Move(ModelIn, "UAV", "SRV")
             c5 == Evaluate(last + 1)
             c6 == When(refused > n, outcome)
             c7 == Move(ModelIn, "SRV", "UAV")
             c8 == Move(Motion, "SRV", "UAV")
             c9 == Move(View, "SRV", "UAV")
  <1>22. ModelCommands(n, refused, chained, copied) =
           c1 \o c2 \o c3 \o c4 \o handOn \o c5 \o c6 \o takeBack \o c7 \o c8 \o c9
    BY <1>1, Zenon
  <1>23. /\ Leaves(c1, at, at1) /\ Leaves(c2, at1, at2) /\ Leaves(c3, at2, at2)
         /\ Leaves(c4, at2, at3) /\ Leaves(handOn, at3, all) /\ Leaves(c5, all, all)
         /\ Leaves(c6, all, all) /\ Leaves(takeBack, all, at3)
         /\ Leaves(c7, at3, at2) /\ Leaves(c8, at2, at1) /\ Leaves(c9, at1, at)
    BY <1>8, <1>9, <1>19, <1>20, <1>21, Zenon
  <1> HIDE DEF handOn, takeBack, c1, c2, c3, c4, c5, c6, c7, c8, c9
  <1>24. Leaves(c1 \o c2 \o c3 \o c4, at, at3)
    <2>1. Leaves(c1 \o c2, at, at2)
      BY <1>23, LeavesThen
    <2>2. Leaves(c1 \o c2 \o c3, at, at2)
      BY <1>23, <2>1, LeavesThen
    <2> QED BY <1>23, <2>2, LeavesThen
  <1>25. Leaves(c1 \o c2 \o c3 \o c4 \o handOn \o c5 \o c6, at, all)
    <2>1. Leaves(c1 \o c2 \o c3 \o c4 \o handOn, at, all)
      BY <1>23, <1>24, LeavesThen
    <2>2. Leaves(c1 \o c2 \o c3 \o c4 \o handOn \o c5, at, all)
      BY <1>23, <2>1, LeavesThen
    <2> QED BY <1>23, <2>2, LeavesThen
  <1>26. Leaves(c1 \o c2 \o c3 \o c4 \o handOn \o c5 \o c6 \o takeBack \o c7, at, at2)
    <2>1. Leaves(c1 \o c2 \o c3 \o c4 \o handOn \o c5 \o c6 \o takeBack, at, at3)
      BY <1>23, <1>25, LeavesThen
    <2> QED BY <1>23, <2>1, LeavesThen
  <1>27. Leaves(c1 \o c2 \o c3 \o c4 \o handOn \o c5 \o c6 \o takeBack \o c7 \o c8, at, at1)
    BY <1>23, <1>26, LeavesThen
  <1> QED BY <1>22, <1>23, <1>27, LeavesThen

-------------------------------------------------------------------------------
(* The states between two lists, and every barrier.                         *)

\* The states of a device at rest, with the pass's scratch target in x and the
\* model's depth plane in y.
At(d, x, y) ==
  [t \in Textures |-> CASE t = Neural -> x
                       [] t = Depth -> y
                       [] OTHER -> CreatedIn(d)[t]]

Resting ==
  /\ gpu \in [at : [Textures -> States], ok : BOOLEAN]
  /\ gpu.at = At(dev, gpu.at[Neural], gpu.at[Depth])
  /\ gpu.at[Depth] = IF depthUploaded THEN "SRV" ELSE "COMMON"
  /\ dev.masked =>
       CASE pc = "blend" -> gpu.at[Neural] = "SRV"
         [] pc \in {"present", "presented", "unpresented", "dumped", "captured"} ->
              gpu.at[Neural] = "UAV"
         [] OTHER -> \/ gpu.at[Neural] = "UAV"
                     \/ ~dev.direct /\ gpu.at[Neural] = "COPY_SOURCE"

LEMMA AtNames ==
  /\ {Mask, Work, Neural, View, Motion, ModelIn, ModelOut, Depth} \subseteq Textures
  /\ Neural # Depth
  /\ \A i \in 1 .. 2 : Luma(i) \in Textures /\ Luma(i) \notin {Neural, Depth}
  /\ \A t \in {View, Motion, ModelIn, ModelOut, Mask, Work} : t \notin {Neural, Depth}
  /\ \A i \in 1 .. MaxPasses - 1 :
       /\ Raw(i) \in Textures /\ Raw(i) \notin {Neural, Depth}
       /\ Chained(i) \in Textures /\ Chained(i) \notin {Neural, Depth}
  BY TextureNames
     DEF Luma, Neural, Depth, Mask, Work, View, Motion, ModelIn, ModelOut, Raw, Chained, Tex

LEMMA AtTypes ==
  ASSUME NEW x \in States, NEW y \in States
  PROVE  /\ At(dev, x, y) \in [Textures -> States]
         /\ At(dev, x, y)[Neural] = x /\ At(dev, x, y)[Depth] = y
  <1>1. \A t \in Textures : CreatedIn(dev)[t] \in States
    BY StateNames DEF CreatedIn
  <1> QED BY <1>1, AtNames DEF At

LEMMA AtMoves ==
  ASSUME NEW x \in States, NEW y \in States, NEW z \in States
  PROVE  /\ [At(dev, x, y) EXCEPT ![Neural] = z] = At(dev, z, y)
         /\ [At(dev, x, y) EXCEPT ![Depth] = z] = At(dev, x, z)
  BY AtNames DEF At

\* Every other texture is as it was created.
LEMMA AtRest ==
  ASSUME NEW x, NEW y, NEW at, at = At(dev, x, y)
  PROVE  /\ \A i \in 1 .. 2 : at[Luma(i)] = "COMMON"
         /\ at[Mask] = "COMMON" /\ at[Work] = "COPY_SOURCE"
         /\ \A t \in {View, Motion, ModelIn, ModelOut} : at[t] = "UAV"
         /\ \A i \in 1 .. MaxPasses - 1 : at[Raw(i)] = "UAV" /\ at[Chained(i)] = "UAV"
  <1> DEFINE Rest(t) == CASE t \in {Luma(1), Luma(2), Mask, Depth} -> "COMMON"
                          [] t = Work -> "COPY_SOURCE"
                          [] t = Neural -> IF dev.direct THEN "UAV" ELSE "COPY_SOURCE"
                          [] OTHER -> "UAV"
  <1>1. \A t \in Textures : CreatedIn(dev)[t] = Rest(t)
    BY DEF CreatedIn
  <1>2. \A t \in Textures : t \notin {Neural, Depth} => at[t] = Rest(t)
    BY <1>1 DEF At
  <1>3. /\ \A i \in 1 .. 2 : Rest(Luma(i)) = "COMMON"
        /\ Rest(Mask) = "COMMON"
    BY DEF Luma, Mask, Work, Neural, Depth, Tex
  <1>4. Rest(Work) = "COPY_SOURCE"
    BY DEF Luma, Mask, Work, Neural, Depth, Tex
  <1>5. \A t \in {View, Motion, ModelIn, ModelOut} : Rest(t) = "UAV"
    BY DEF Luma, Mask, Work, Neural, View, Motion, ModelIn, ModelOut, Depth, Tex
  <1>6. \A i \in 1 .. MaxPasses - 1 : Rest(Raw(i)) = "UAV" /\ Rest(Chained(i)) = "UAV"
    BY DEF Luma, Mask, Work, Neural, Depth, Raw, Chained, Tex
  <1> HIDE DEF Rest
  <1> QED BY <1>2, <1>3, <1>4, <1>5, <1>6, AtNames

\* A list that leaves states when played leaves them, and finds all it names.
LEMMA PlayLeaves ==
  ASSUME gpu \in [at : [Textures -> States], ok : BOOLEAN], NEW c, NEW end,
         Leaves(c, gpu.at, end)
  PROVE  Play(c) = [at |-> end, ok |-> TRUE]
  <1>1. [gpu EXCEPT !.ok = TRUE] = [at |-> gpu.at, ok |-> TRUE]
    <2> DEFINE g == [gpu EXCEPT !.ok = TRUE]
    <2>1. g \in [at : [Textures -> States], ok : BOOLEAN]
      OBVIOUS
    <2>2. g.at = gpu.at /\ g.ok = TRUE
      OBVIOUS
    <2> HIDE DEF g
    <2>3. g = [at |-> g.at, ok |-> g.ok]
      BY <2>1
    <2> QED BY <2>2, <2>3 DEF g
  <1> QED BY <1>1 DEF Play, Leaves

LEMMA RestingInit == Init => Resting
  <1> SUFFICES ASSUME Init PROVE Resting
    OBVIOUS
  <1>1. PICK c \in Configurations :
          dev = Device(c) /\ gpu = [at |-> CreatedIn(Device(c)), ok |-> TRUE]
    BY DEF Init
  <1>2. gpu = [at |-> CreatedIn(dev), ok |-> TRUE] /\ pc = "idle" /\ ~depthUploaded
    BY <1>1 DEF Init
  <1> DEFINE x == IF dev.direct THEN "UAV" ELSE "COPY_SOURCE"
  <1>3. /\ Neural \in Textures /\ CreatedIn(dev)[Neural] = x /\ x \in States
        /\ Depth \in Textures /\ CreatedIn(dev)[Depth] = "COMMON" /\ "COMMON" \in States
    BY TextureNames, StateNames DEF CreatedIn, Neural, Luma, Mask, Depth, Work, Tex
  <1>4. CreatedIn(dev) = At(dev, x, "COMMON")
    BY <1>3 DEF At, CreatedIn
  <1> HIDE DEF x
  <1>5. /\ gpu.at = At(dev, x, "COMMON") /\ gpu.at \in [Textures -> States]
        /\ gpu.at[Neural] = x /\ gpu.at[Depth] = "COMMON"
    BY <1>2, <1>3, <1>4, AtTypes
  <1> QED BY <1>2, <1>5 DEF Resting, x

\* What a rebuild leaves is a device nothing has run on.
LEMMA RestingRebuild == Rebuild => Resting' /\ gpu'.ok
  <1> SUFFICES ASSUME Rebuild PROVE Resting' /\ gpu'.ok
    OBVIOUS
  <1>1. PICK direct \in BOOLEAN :
          Fresh([direct |-> direct, hdr |-> dev.hdr, rects |-> dev.rects,
                 typedStore |-> dev.typedStore, parts |-> dev.parts])
    BY DEF Rebuild
  <1>2. /\ gpu' = [at |-> CreatedIn(dev'), ok |-> TRUE] /\ pc' = "idle"
        /\ ~depthUploaded'
    BY <1>1 DEF Fresh, Rebuild
  <1> DEFINE x == IF dev'.direct THEN "UAV" ELSE "COPY_SOURCE"
             d == dev'
  <1>3. /\ Neural \in Textures /\ CreatedIn(d)[Neural] = x /\ x \in States
        /\ Depth \in Textures /\ CreatedIn(d)[Depth] = "COMMON"
    BY TextureNames, StateNames DEF CreatedIn, Neural, Luma, Mask, Depth, Work, Tex
  <1>4. CreatedIn(d) = [t \in Textures |-> CASE t = Neural -> x
                                            [] t = Depth -> "COMMON"
                                            [] OTHER -> CreatedIn(d)[t]]
    BY <1>3 DEF CreatedIn
  <1>5. CreatedIn(d) \in [Textures -> States]
    BY StateNames DEF CreatedIn
  <1> HIDE DEF x
  <1>6. /\ gpu'.at = CreatedIn(d) /\ gpu'.ok = TRUE /\ gpu'.at[Neural] = x
        /\ gpu'.at[Depth] = "COMMON"
    BY <1>2, <1>3
  <1>7. gpu'.at = At(d, x, "COMMON")
    BY <1>4, <1>6 DEF At
  <1>8. gpu' \in [at : [Textures -> States], ok : BOOLEAN]
    BY <1>2, <1>5
  <1>9. \/ gpu'.at[Neural] = "UAV"
        \/ ~dev'.direct /\ gpu'.at[Neural] = "COPY_SOURCE"
    BY <1>6 DEF x
  <1>10. gpu'.at = At(dev', gpu'.at[Neural], gpu'.at[Depth])
    BY <1>6, <1>7
  <1> QED BY <1>2, <1>6, <1>8, <1>9, <1>10 DEF Resting

\* A list that leaves the states of a device at rest.
LEMMA RestKept ==
  ASSUME Resting, dev' = dev, depthUploaded' = depthUploaded, NEW c,
         Leaves(c, gpu.at, gpu.at), gpu' = Play(c)
  PROVE  /\ gpu'.ok /\ gpu'.at = gpu.at
         /\ gpu' \in [at : [Textures -> States], ok : BOOLEAN]
         /\ gpu'.at = At(dev', gpu'.at[Neural], gpu'.at[Depth])
         /\ gpu'.at[Depth] = IF depthUploaded' THEN "SRV" ELSE "COMMON"
  <1>1. Play(c) = [at |-> gpu.at, ok |-> TRUE]
    BY PlayLeaves DEF Resting
  <1>2. /\ gpu.at \in [Textures -> States]
        /\ gpu.at = At(dev, gpu.at[Neural], gpu.at[Depth])
        /\ gpu.at[Depth] = IF depthUploaded THEN "SRV" ELSE "COMMON"
    BY DEF Resting
  <1> QED BY <1>1, <1>2

\* What the states of a device at rest are, but for the scratch target.
LEMMA RestStates ==
  ASSUME Resting
  PROVE  /\ gpu.at \in [Textures -> States]
         /\ \A i \in 1 .. 2 : gpu.at[Luma(i)] = "COMMON"
         /\ gpu.at[Mask] = "COMMON" /\ gpu.at[Work] = "COPY_SOURCE"
         /\ gpu.at[Depth] = IF depthUploaded THEN "SRV" ELSE "COMMON"
         /\ \A t \in {View, Motion, ModelIn, ModelOut} : gpu.at[t] = "UAV"
         /\ \A i \in 1 .. MaxPasses - 1 :
              gpu.at[Raw(i)] = "UAV" /\ gpu.at[Chained(i)] = "UAV"
  <1> DEFINE at == gpu.at
  <1>1. /\ at \in [Textures -> States] /\ at = At(dev, at[Neural], at[Depth])
        /\ at[Depth] = IF depthUploaded THEN "SRV" ELSE "COMMON"
    BY DEF Resting
  <1> HIDE DEF at
  <1> QED BY <1>1, AtRest DEF at

LEMMA TargetStates ==
  ASSUME Resolved(dev)
  PROVE  /\ dev.masked => PassTarget = Neural /\ RestState = "UAV" /\ ReadState = "SRV"
         /\ ~dev.masked => /\ PassTarget = Work /\ RestState = "COPY_SOURCE"
                           /\ ReadState = "COPY_SOURCE"
         /\ dev.direct => WriteState = "UAV"
         /\ ~dev.direct => WriteState = "COPY_DEST"
  BY DEF Resolved, PassTarget, RestState, ReadState, WriteState, Scratch, ViaIntermediate

\* What a pass records, when its target is as the first barrier names it, and
\* leaves the target written and the depth plane uploaded or as it was.
LEMMA PassLeaves ==
  ASSUME Resting, Resolved(dev), pc = "pass", pc' = "blend", dev' = dev, NEW c,
         NEW y \in States, y = (IF depthUploaded' THEN "SRV" ELSE "COMMON"),
         gpu.at[PassTarget] = RestState,
         Leaves(c, [gpu.at EXCEPT ![PassTarget] = WriteState],
                   [At(dev, gpu.at[Neural], y) EXCEPT ![PassTarget] = WriteState]),
         gpu' = Play(Bracketed(c))
  PROVE  Resting' /\ gpu'.ok
  <1> DEFINE after == At(dev, gpu.at[Neural], y)
             end == [after EXCEPT ![PassTarget] = ReadState]
  <1>1. /\ gpu.at \in [Textures -> States] /\ gpu.at[Neural] \in States
        /\ gpu.at[Work] = "COPY_SOURCE"
    BY RestStates, TextureNames
  <1>2. /\ after \in [Textures -> States] /\ after[Neural] = gpu.at[Neural]
        /\ after[Depth] = y /\ after[Work] = gpu.at[Work]
    <2> DEFINE x == gpu.at[Neural]
    <2>1. x \in States
      BY <1>1
    <2> HIDE DEF x
    <2>2. /\ At(dev, x, y) \in [Textures -> States]
          /\ At(dev, x, y)[Neural] = x /\ At(dev, x, y)[Depth] = y
      BY <2>1, AtTypes
    <2>3. At(dev, x, y)[Work] = "COPY_SOURCE"
      BY AtRest
    <2> QED BY <1>1, <2>2, <2>3 DEF x
  <1>3. Leaves(Bracketed(c), gpu.at, end)
    <2>1. after[PassTarget] = RestState
      BY <1>2, TextureNames
    <2>2. Leaves(c, [gpu.at EXCEPT ![PassTarget] = WriteState],
                    [after EXCEPT ![PassTarget] = WriteState])
      OBVIOUS
    <2> HIDE DEF after
    <2> QED BY <1>1, <1>2, <2>1, <2>2, BracketLeaves
  <1> HIDE DEF end
  <1>4. gpu' = [at |-> end, ok |-> TRUE]
    BY <1>3, PlayLeaves DEF Resting
  <1>5. CASE dev.masked
    <2>1. end = [after EXCEPT ![Neural] = "SRV"]
      BY <1>5, TargetStates DEF end
    <2>2. "SRV" \in States
      BY StateNames
    <2>3. end = At(dev, "SRV", y)
      <3>1. after = At(dev, gpu.at[Neural], y)
        OBVIOUS
      <3>2. [At(dev, gpu.at[Neural], y) EXCEPT ![Neural] = "SRV"] = At(dev, "SRV", y)
        <4> DEFINE x == gpu.at[Neural]
        <4>1. x \in States
          BY <1>1
        <4> HIDE DEF x
        <4>2. [At(dev, x, y) EXCEPT ![Neural] = "SRV"] = At(dev, "SRV", y)
          BY <2>2, <4>1, AtMoves
        <4> QED BY <4>2 DEF x
      <3> QED BY <2>1, <3>1, <3>2
    <2>4. end[Neural] = "SRV" /\ end[Depth] = y /\ end \in [Textures -> States]
      BY <2>2, <2>3, AtTypes
    <2> QED BY <1>4, <2>3, <2>4 DEF Resting
  <1>6. CASE ~dev.masked
    <2>1. end = after
      BY <1>1, <1>2, <1>6, TargetStates DEF end
    <2>2. end = At(dev, end[Neural], end[Depth])
      BY <1>2, <2>1
    <2> QED BY <1>2, <1>4, <1>6, <2>1, <2>2 DEF Resting
  <1> QED BY <1>5, <1>6

\* Where the pass finds its target in the state that the loop's first barrier
\* names, whatever the device -- but for a passthrough pass's first frame.
LEMMA TargetAtRest ==
  ASSUME Resting, Resolved(dev), pc = "pass",
         ~(~dev.direct /\ dev.masked /\ gpu.at[Neural] = "COPY_SOURCE")
  PROVE  gpu.at[PassTarget] = RestState
  <1>1. CASE dev.masked
    BY <1>1, TargetStates DEF Resting
  <1>2. CASE ~dev.masked
    BY <1>2, TargetStates, RestStates
  <1> QED BY <1>1, <1>2

\* The passthrough pass's copy.
LEMMA CopyStep ==
  Resting /\ Resolved(dev) /\ CopyFrame
    => Resting' /\ (gpu'.ok \/ (dev.masked /\ gpu.at[Neural] = "COPY_SOURCE"))
  <1> SUFFICES ASSUME Resting, Resolved(dev), CopyFrame
               PROVE  /\ Resting'
                      /\ gpu'.ok \/ (dev.masked /\ gpu.at[Neural] = "COPY_SOURCE")
    OBVIOUS
  <1>1. /\ ~dev.direct /\ dev' = dev /\ pc = "pass" /\ pc' = "blend"
        /\ gpu' = Play(Bracketed(Use(PassTarget, "COPY_DEST")))
        /\ depthUploaded' = depthUploaded
    BY DEF CopyFrame, Writes, passVars
  <1> DEFINE y == gpu.at[Depth]
  <1>0. /\ gpu.at = At(dev, gpu.at[Neural], y) /\ y \in States
        /\ y = (IF depthUploaded' THEN "SRV" ELSE "COMMON")
    BY <1>1, TextureNames DEF Resting
  <1> HIDE DEF y
  <1> DEFINE mid == [gpu.at EXCEPT ![PassTarget] = WriteState]
             use == Use(PassTarget, "COPY_DEST")
  <1>2. /\ PassTarget \in Textures /\ gpu.at \in [Textures -> States]
        /\ WriteState = "COPY_DEST" /\ {RestState, ReadState, WriteState} \subseteq States
    BY <1>1, TextureNames, StateNames, RestStates, TargetStates
  <1>3. mid \in [Textures -> States] /\ mid[PassTarget] = "COPY_DEST"
    BY <1>2
  <1> HIDE DEF mid
  <1>4. Leaves(use, mid, mid)
    BY <1>2, <1>3, LeavesUse
  <1>5. CASE ~(dev.masked /\ gpu.at[Neural] = "COPY_SOURCE")
    <2>1. gpu.at[PassTarget] = RestState
      BY <1>1, <1>5, TargetAtRest
    <2> HIDE DEF use
    <2>2. gpu' = Play(Bracketed(use))
      BY <1>1 DEF use
    <2>3. Leaves(use, [gpu.at EXCEPT ![PassTarget] = WriteState],
                      [At(dev, gpu.at[Neural], y) EXCEPT ![PassTarget] = WriteState])
      BY <1>0, <1>4 DEF mid
    <2> QED BY <1>0, <1>1, <2>1, <2>2, <2>3, PassLeaves
  <1>6. CASE dev.masked /\ gpu.at[Neural] = "COPY_SOURCE"
    <2> DEFINE a == Move(Neural, "UAV", "COPY_DEST")
               b == Move(Neural, "COPY_DEST", "UAV")
               e == Move(Neural, "UAV", "SRV")
               up == [mid EXCEPT ![Neural] = "UAV"]
    <2>1. /\ PassTarget = Neural /\ RestState = "UAV" /\ ReadState = "SRV"
          /\ {"UAV", "SRV", "COPY_DEST", "COPY_SOURCE"} \subseteq States
      BY <1>6, TargetStates, StateNames
    <2>2. Bracketed(use) = a \o use \o b \o e
      BY <1>2, <2>1 DEF Bracketed, When
    <2>3. a \in Seq(Command) /\ b \in Seq(Command) /\ e \in Seq(Command)
          /\ use \in Seq(Command)
      BY <1>2, <2>1 DEF Move, Use, Command
    <2>4. up \in [Textures -> States] /\ up[Neural] = "UAV"
      BY <1>2, <1>3, <2>1
    <2>5. Leaves(b, mid, up)
      BY <1>2, <1>3, <2>1, LeavesMove
    <2>6. [up EXCEPT ![Neural] = "SRV"] = At(dev, "SRV", y)
      <3>1. up = [At(dev, "COPY_SOURCE", y) EXCEPT ![Neural] = "UAV"]
        BY <1>0, <1>2, <1>6, <2>1 DEF mid
      <3>2. up = At(dev, "UAV", y)
        BY <1>0, <2>1, <3>1, AtMoves
      <3> HIDE DEF up
      <3>3. [At(dev, "UAV", y) EXCEPT ![Neural] = "SRV"] = At(dev, "SRV", y)
        BY <1>0, <2>1, AtMoves
      <3> QED BY <3>2, <3>3
    <2>7. Leaves(e, up, At(dev, "SRV", y))
      <3> HIDE DEF up
      <3> QED BY <1>2, <2>1, <2>4, <2>6, LeavesMove
    <2> HIDE DEF a, b, e, up, use
    <2> DEFINE g == [gpu EXCEPT !.ok = TRUE]
               ok == g.ok /\ g.at[Neural] = "UAV"
    <2>8. ok \in BOOLEAN
      OBVIOUS
    <2>10. PlayFrom(g, a) = [at |-> mid, ok |-> ok]
      <3> DEFINE c == [tex |-> Neural, before |-> "UAV", after |-> "COPY_DEST"]
      <3>1. c \in Command /\ a = <<c>>
        BY <1>2, <2>1 DEF a, Move, Command
      <3>2. PlayFrom(g, <<c>>) = Run(g, c)
        <4> HIDE DEF c, g
        <4> QED BY <3>1, PlayOne
      <3>3. g.at = gpu.at
        BY DEF Resting
      <3>4. Run(g, c) = [at |-> mid, ok |-> ok]
        <4> HIDE DEF g
        <4> QED BY <1>2, <2>1, <3>3 DEF Run, mid
      <3> QED BY <3>1, <3>2, <3>4
    <2> HIDE DEF g, ok
    <2> DEFINE ab == a \o use
               abc == ab \o b
    <2>11. PlayFrom(g, ab) = [at |-> mid, ok |-> ok] /\ ab \in Seq(Command)
      BY <1>4, <2>3, <2>8, <2>10, PlayThen
    <2> HIDE DEF ab
    <2>12. PlayFrom(g, abc) = [at |-> up, ok |-> ok] /\ abc \in Seq(Command)
      BY <2>5, <2>8, <2>11, PlayThen
    <2> HIDE DEF abc
    <2>13. PlayFrom(g, abc \o e) = [at |-> At(dev, "SRV", y), ok |-> ok]
      BY <2>7, <2>8, <2>12, PlayThen
    <2>14. gpu' = [at |-> At(dev, "SRV", y), ok |-> ok]
      BY <1>1, <2>2, <2>13 DEF Play, use, g, ab, abc
    <2>15. /\ At(dev, "SRV", y) \in [Textures -> States]
           /\ At(dev, "SRV", y)[Neural] = "SRV" /\ At(dev, "SRV", y)[Depth] = y
      BY <1>0, <2>1, AtTypes
    <2> QED BY <1>0, <1>1, <1>6, <2>8, <2>14, <2>15 DEF Resting
  <1> QED BY <1>5, <1>6

\* The direct pass's copy of the view, alone or after a refused model, and its
\* model.
LEMMA DirectStep ==
  Resting /\ Resolved(dev) /\
  (PassThroughDirect \/ NoMotion \/ EvaluateModel \/ RefuseModel)
    => Resting' /\ gpu'.ok
  <1> SUFFICES ASSUME Resting, Resolved(dev),
                      PassThroughDirect \/ NoMotion \/ EvaluateModel \/ RefuseModel
               PROVE  Resting' /\ gpu'.ok
    OBVIOUS
  <1>1. /\ dev.direct /\ dev' = dev /\ pc = "pass" /\ pc' = "blend"
        /\ depthUploaded' = TRUE
    BY DEF PassThroughDirect, NoMotion, EvaluateModel, RefuseModel, CopyThrough,
       Records, Running, Writes
  <1> DEFINE first == [gpu.at EXCEPT ![PassTarget] = WriteState]
             mid == [At(dev, gpu.at[Neural], "SRV") EXCEPT ![PassTarget] = WriteState]
  <1>2. gpu.at[PassTarget] = RestState
    BY <1>1, TargetAtRest
  <1>3. /\ gpu.at \in [Textures -> States] /\ WriteState = "UAV" /\ "UAV" \in States
        /\ PassTarget \in Textures
    BY <1>1, RestStates, TargetStates, TextureNames, StateNames
  <1>4. /\ mid \in [Textures -> States] /\ mid[Depth] = "SRV"
        /\ \A t \in {View, Motion, ModelIn, ModelOut, PassTarget} : mid[t] = "UAV"
        /\ \A i \in 1 .. MaxPasses - 1 : mid[Raw(i)] = "UAV" /\ mid[Chained(i)] = "UAV"
        /\ Leaves(UploadDepth, first, mid)
    <2> DEFINE after == At(dev, gpu.at[Neural], "SRV")
    <2>1. PassTarget \in Textures /\ Depth \in Textures /\ PassTarget # Depth
      BY TextureNames DEF Depth, Neural, Work, Tex
    <2>2. /\ gpu.at[Neural] \in States /\ "SRV" \in States /\ gpu.at[Depth] \in States
          /\ gpu.at = At(dev, gpu.at[Neural], gpu.at[Depth])
      BY <1>3, TextureNames, StateNames DEF Resting
    <2>3. /\ after \in [Textures -> States] /\ after[Depth] = "SRV"
          /\ \A t \in {View, Motion, ModelIn, ModelOut} : after[t] = "UAV"
          /\ \A i \in 1 .. MaxPasses - 1 : after[Raw(i)] = "UAV" /\ after[Chained(i)] = "UAV"
      <3> DEFINE x == gpu.at[Neural]
      <3>1. x \in States /\ "SRV" \in States /\ after = At(dev, x, "SRV")
        BY <2>2
      <3> HIDE DEF x, after
      <3>2. after \in [Textures -> States] /\ after[Depth] = "SRV"
        BY <3>1, AtTypes
      <3> QED BY <3>1, <3>2, AtRest
    <2>4. after = [gpu.at EXCEPT ![Depth] = "SRV"]
      <3>1. [At(dev, gpu.at[Neural], gpu.at[Depth]) EXCEPT ![Depth] = "SRV"] = after
        BY <2>2, AtMoves
      <3> QED BY <2>2, <3>1
    <2>5. mid = [after EXCEPT ![PassTarget] = "UAV"]
      BY <1>3 DEF mid
    <2> HIDE DEF after, mid
    <2>6. mid \in [Textures -> States] /\ mid[Depth] = "SRV" /\ mid[PassTarget] = "UAV"
      BY <1>3, <2>1, <2>3, <2>5
    <2>7. /\ \A t \in {View, Motion, ModelIn, ModelOut, PassTarget} : mid[t] = "UAV"
          /\ \A i \in 1 .. MaxPasses - 1 : mid[Raw(i)] = "UAV" /\ mid[Chained(i)] = "UAV"
      BY <2>1, <2>3, <2>5, TextureNames
    <2>8. /\ first \in [Textures -> States]
          /\ first[Depth] = IF depthUploaded THEN "SRV" ELSE "COMMON"
      BY <1>3, <2>1, RestStates
    <2>9. mid = [first EXCEPT ![Depth] = "SRV"]
      BY <1>3, <2>1, <2>4, <2>5
    <2> HIDE DEF first
    <2>10. Leaves(UploadDepth, first, mid)
      BY <2>8, <2>9, DepthLeaves
    <2> QED BY <2>6, <2>7, <2>10
  <1> HIDE DEF first, mid
  <1>5. Leaves(CopyThroughCommands, mid, mid)
    BY <1>4, CopyThroughLeaves
  <1>6. ASSUME NEW n \in 1 .. MaxPasses, NEW refused \in 1 .. n + 1,
               NEW chained \in BOOLEAN, NEW copied \in BOOLEAN
        PROVE  Leaves(ModelCommands(n, refused, chained, copied), mid, mid)
    BY <1>4, ModelLeaves
  <1>7. \E c : Leaves(c, mid, mid) /\ Records(c)
    <2>1. CASE PassThroughDirect \/ NoMotion
      BY <1>5, <2>1 DEF PassThroughDirect, NoMotion, CopyThrough
    <2>2. CASE EvaluateModel
      <3>1. PICK n \in 1 .. MaxPasses, chained \in BOOLEAN, copied \in BOOLEAN :
              Records(ModelCommands(n, n + 1, chained, copied))
        BY <2>2 DEF EvaluateModel
      <3>2. n + 1 \in 1 .. n + 1
        BY FrameAssumption
      <3> QED BY <1>6, <3>1, <3>2
    <2>3. CASE RefuseModel
      <3>0. PICK n \in 1 .. MaxPasses, chained \in BOOLEAN, copied \in BOOLEAN :
              \E refused \in 1 .. n :
                Records(ModelCommands(n, refused, chained, copied) \o CopyThroughCommands)
        BY <2>3 DEF RefuseModel
      <3>1. PICK refused \in 1 .. n :
              Records(ModelCommands(n, refused, chained, copied) \o CopyThroughCommands)
        BY <3>0
      <3>2. refused \in 1 .. n + 1
        BY FrameAssumption
      <3>3. Leaves(ModelCommands(n, refused, chained, copied) \o CopyThroughCommands,
                   mid, mid)
        BY <1>5, <1>6, <3>2, LeavesThen
      <3> QED BY <3>1, <3>3
    <2> QED BY <2>1, <2>2, <2>3
  <1>8. PICK c : Leaves(c, mid, mid) /\ Records(c)
    BY <1>7
  <1>9. /\ Leaves(UploadDepth \o c, first, mid)
        /\ gpu' = Play(Bracketed(UploadDepth \o c))
    BY <1>4, <1>8, LeavesThen DEF Records
  <1> DEFINE recorded == UploadDepth \o c
  <1>10. Leaves(recorded, first, mid) /\ gpu' = Play(Bracketed(recorded))
    BY <1>9
  <1> HIDE DEF recorded
  <1>11. Leaves(recorded, [gpu.at EXCEPT ![PassTarget] = WriteState],
                [At(dev, gpu.at[Neural], "SRV") EXCEPT ![PassTarget] = WriteState])
    BY <1>10 DEF first, mid
  <1>12. "SRV" \in States /\ "SRV" = (IF depthUploaded' THEN "SRV" ELSE "COMMON")
    BY <1>1, StateNames
  <1> QED BY <1>1, <1>2, <1>10, <1>11, <1>12, PassLeaves

\* The lists the render loop itself records outside the pass.
LEMMA LoopStep ==
  TypeOK /\ Resting /\ Resolved(dev) /\
  (RecordViews \/ EstimateFlow \/ RecordMotion \/ UploadMask \/ Present \/ Dump
     \/ Capture)
    => Resting' /\ (gpu' = gpu \/ gpu'.ok)
  <1> SUFFICES ASSUME TypeOK, Resting, Resolved(dev),
                      RecordViews \/ EstimateFlow \/ RecordMotion \/ UploadMask
                        \/ Present \/ Dump \/ Capture
               PROVE  Resting' /\ (gpu' = gpu \/ gpu'.ok)
    OBVIOUS
  <1> DEFINE at == gpu.at
  <1>1. /\ at \in [Textures -> States]
        /\ \A i \in 1 .. 2 : at[Luma(i)] = "COMMON" /\ Luma(i) \in Textures
        /\ at[Mask] = "COMMON" /\ at[Work] = "COPY_SOURCE"
        /\ at[View] = "UAV" /\ at[Motion] = "UAV"
        /\ {View, Motion, Mask, Neural, Work} \subseteq Textures
        /\ {"COMMON", "UAV", "SRV", "COPY_SOURCE", "COPY_DEST"} = States
    BY RestStates, TextureNames, StateNames DEF Luma
  \* The states stay, and so does what the place in the frame says of them.
  <1>2. ASSUME gpu' = gpu \/ \E c : Leaves(c, at, at) /\ gpu' = Play(c),
               dev' = dev, depthUploaded' = depthUploaded,
               dev.masked =>
                 CASE pc' = "blend" -> at[Neural] = "SRV"
                   [] pc' \in {"present", "presented", "unpresented", "dumped",
                               "captured"} -> at[Neural] = "UAV"
                   [] OTHER -> \/ at[Neural] = "UAV"
                               \/ ~dev.direct /\ at[Neural] = "COPY_SOURCE"
        PROVE  Resting' /\ (gpu' = gpu \/ gpu'.ok)
    <2>1. CASE gpu' = gpu
      BY <1>2, <2>1 DEF Resting
    <2>2. CASE gpu' # gpu
      <3>1. PICK c : Leaves(c, at, at) /\ gpu' = Play(c)
        BY <1>2, <2>2
      <3>2. /\ gpu'.ok /\ gpu'.at = gpu.at
            /\ gpu' \in [at : [Textures -> States], ok : BOOLEAN]
            /\ gpu'.at = At(dev', gpu'.at[Neural], gpu'.at[Depth])
            /\ gpu'.at[Depth] = IF depthUploaded' THEN "SRV" ELSE "COMMON"
        BY <1>2, <3>1, RestKept
      <3> QED BY <1>2, <3>2 DEF Resting
    <2> QED BY <2>1, <2>2
  <1>3. CASE RecordViews
    <2>1. Leaves(ViewCommands, at, at)
      BY <1>1, ViewLeaves DEF TypeOK
    <2>2. /\ gpu' = Play(ViewCommands) /\ dev' = dev /\ depthUploaded' = depthUploaded
          /\ pc = "idle" /\ pc' = "flow"
      BY <1>3 DEF RecordViews, passVars
    <2> QED BY <1>2, <2>1, <2>2 DEF Resting
  <1>4. CASE EstimateFlow
    <2> DEFINE c == Use(Luma(cur), "COMMON") \o Use(Luma(3 - cur), "COMMON")
    <2>1. Leaves(c, at, at)
      <3>1. cur \in 1 .. 2 /\ 3 - cur \in 1 .. 2
        BY DEF TypeOK
      <3>2. /\ Leaves(Use(Luma(cur), "COMMON"), at, at)
            /\ Leaves(Use(Luma(3 - cur), "COMMON"), at, at)
        BY <1>1, <3>1, LeavesUse
      <3> QED BY <3>2, LeavesThen
    <2>2. /\ gpu' = gpu \/ gpu' = Play(c)
          /\ dev' = dev /\ depthUploaded' = depthUploaded
          /\ pc = "flow" /\ pc' = "motion"
      BY <1>4 DEF EstimateFlow, passVars
    <2> HIDE DEF c
    <2> QED BY <1>2, <2>1, <2>2 DEF Resting
  <1>5. CASE RecordMotion
    <2>1. Leaves(Use(Motion, "UAV"), at, at)
      BY <1>1, LeavesUse
    <2>2. /\ gpu' = gpu \/ gpu' = Play(Use(Motion, "UAV"))
          /\ dev' = dev /\ depthUploaded' = depthUploaded
          /\ pc = "motion" /\ pc' = "mask"
      BY <1>5 DEF RecordMotion, passVars
    <2> QED BY <1>2, <2>1, <2>2 DEF Resting
  <1>6. CASE UploadMask
    <2> DEFINE c == Move(Mask, "COMMON", "COPY_DEST") \o Move(Mask, "COPY_DEST", "COMMON")
    <2>1. Leaves(c, at, at)
      BY <1>1, UploadLeaves
    <2>2. /\ gpu' = gpu \/ gpu' = Play(c)
          /\ dev' = dev /\ depthUploaded' = depthUploaded
          /\ pc = "mask" /\ pc' = "pass"
      BY <1>6 DEF UploadMask, passVars
    <2> HIDE DEF c
    <2> QED BY <1>2, <2>1, <2>2 DEF Resting
  <1>7. CASE Present
    <2>1. Leaves(Use(Work, "COPY_SOURCE"), at, at)
      BY <1>1, LeavesUse
    <2>2. /\ gpu' = Play(Use(Work, "COPY_SOURCE"))
          /\ dev' = dev /\ depthUploaded' = depthUploaded
          /\ pc = "present" /\ pc' = "presented"
      BY <1>7 DEF Present, passVars
    <2> QED BY <1>2, <2>1, <2>2 DEF Resting
  <1>8. CASE Dump
    <2> DEFINE a == When(Has("view"), Readback(View, "UAV"))
               b == When(dev.resolveFolded, Readback(Work, "COPY_SOURCE"))
               c == When(dev.masked /\ ~dev.resolveFolded, Readback(Neural, "UAV"))
               d == When(Has("motion"), Readback(Motion, "UAV"))
               e == Readback(Work, "COPY_SOURCE")
    <2>1. /\ gpu' = Play(a \o b \o c \o d \o e)
          /\ dev' = dev /\ depthUploaded' = depthUploaded
          /\ pc \in {"presented", "unpresented"} /\ pc' = "dumped"
      BY <1>8 DEF Dump, passVars
    <2>2. Leaves(a, at, at) /\ Leaves(b, at, at) /\ Leaves(d, at, at) /\ Leaves(e, at, at)
      <3>1. /\ Leaves(Readback(View, "UAV"), at, at)
            /\ Leaves(Readback(Motion, "UAV"), at, at)
            /\ Leaves(Readback(Work, "COPY_SOURCE"), at, at)
        BY <1>1, ReadbackLeaves
      <3> QED BY <3>1, LeavesWhen
    <2>3. dev.masked => at[Neural] = "UAV"
      BY <2>1 DEF Resting
    <2>4. Leaves(c, at, at)
      <3>1. dev.masked => Leaves(Readback(Neural, "UAV"), at, at)
        BY <1>1, <2>3, ReadbackLeaves
      <3> QED BY <3>1, LeavesWhen
    <2> HIDE DEF a, b, c, d, e
    <2>5. Leaves(a \o b \o c \o d \o e, at, at)
      <3>1. Leaves(a \o b \o c, at, at)
        <4>1. Leaves(a \o b, at, at)
          BY <2>2, LeavesThen
        <4> QED BY <2>4, <4>1, LeavesThen
      <3>2. Leaves(a \o b \o c \o d, at, at)
        BY <2>2, <3>1, LeavesThen
      <3> QED BY <2>2, <3>2, LeavesThen
    <2> QED BY <1>2, <2>1, <2>3, <2>5
  <1>9. CASE Capture
    <2>1. Leaves(Readback(View, "UAV"), at, at)
      BY <1>1, ReadbackLeaves
    <2>2. /\ gpu' = gpu \/ gpu' = Play(Readback(View, "UAV"))
          /\ dev' = dev /\ depthUploaded' = depthUploaded
          /\ pc \in {"presented", "unpresented", "dumped"}
          /\ pc' = "captured"
      BY <1>9 DEF Capture, passVars
    <2>3. dev.masked => at[Neural] = "UAV"
      BY <2>2 DEF Resting
    <2> QED BY <1>2, <2>1, <2>2, <2>3
  <1> QED BY <1>3, <1>4, <1>5, <1>6, <1>7, <1>8, <1>9

LEMMA BlendStep == Resting /\ Resolved(dev) /\ Blend => Resting' /\ (gpu' = gpu \/ gpu'.ok)
  <1> SUFFICES ASSUME Resting, Resolved(dev), Blend
               PROVE  Resting' /\ (gpu' = gpu \/ gpu'.ok)
    OBVIOUS
  <1>1. /\ dev' = dev /\ pc = "blend" /\ pc' = "present"
        /\ depthUploaded' = depthUploaded
    BY DEF Blend, passVars
  <1>2. CASE ~dev.masked
    BY <1>1, <1>2 DEF Blend, Resting
  <1>3. CASE dev.masked
    <2> DEFINE end == [gpu.at EXCEPT ![Neural] = "UAV"]
               y == gpu.at[Depth]
    <2>1. /\ gpu.at[Neural] = "SRV" /\ gpu.at = At(dev, "SRV", y) /\ y \in States
          /\ y = IF depthUploaded' THEN "SRV" ELSE "COMMON"
      BY <1>1, <1>3, TextureNames DEF Resting
    <2> HIDE DEF y
    <2>2. Leaves(BlendCommands, gpu.at, end)
      BY <1>3, <2>1, RestStates, BlendLeaves
    <2>3. "UAV" \in States /\ "SRV" \in States
      BY StateNames
    <2>4. end = At(dev, "UAV", y)
      BY <2>1, <2>3, AtMoves
    <2> HIDE DEF end
    <2>5. end \in [Textures -> States] /\ end[Neural] = "UAV" /\ end[Depth] = y
      BY <2>1, <2>3, <2>4, AtTypes
    <2>6. gpu' = [at |-> end, ok |-> TRUE]
      BY <1>3, <2>2, PlayLeaves DEF Blend, Resting
    <2> QED BY <1>1, <2>1, <2>4, <2>5, <2>6 DEF Resting
  <1> QED BY <1>2, <1>3

LEMMA RestingStep ==
  TypeOK /\ Resolved(dev) /\ Resting /\ [Next]_vars
    => /\ Resting'
       /\ (gpu' # gpu /\ ~gpu'.ok) =>
            ~dev.direct /\ dev.masked /\ gpu.at[Neural] = "COPY_SOURCE"
  <1> SUFFICES ASSUME TypeOK, Resolved(dev), Resting, [Next]_vars
               PROVE  /\ Resting'
                      /\ (gpu' # gpu /\ ~gpu'.ok) =>
                           ~dev.direct /\ dev.masked /\ gpu.at[Neural] = "COPY_SOURCE"
    OBVIOUS
  <1>1. CASE RecordViews \/ EstimateFlow \/ RecordMotion \/ UploadMask \/ Present
             \/ Dump \/ Capture
    BY <1>1, LoopStep
  <1>2. CASE CopyFrame
    <2>1. ~dev.direct
      BY <1>2 DEF CopyFrame
    <2> QED BY <1>2, <2>1, CopyStep
  <1>3. CASE PassThroughDirect \/ NoMotion \/ EvaluateModel \/ RefuseModel
    BY <1>3, DirectStep
  <1>4. CASE Blend
    BY <1>4, BlendStep
  <1>5. CASE Rebuild
    BY <1>5, RestingRebuild
  <1>6. CASE SkipPaused \/ EngineDone \/ PresentGivesUp \/ SwapLuma \/ Reject \/ vars' = vars
    <2>1. gpu' = gpu /\ dev' = dev /\ depthUploaded' = depthUploaded
      BY <1>6 DEF SkipPaused, EngineDone, PresentGivesUp, SwapLuma, Reject, vars, passVars
    <2>2. \/ pc' = pc
          \/ pc = "present" /\ pc' = "unpresented"
          \/ pc \in {"presented", "unpresented", "dumped", "captured"} /\ pc' = "idle"
          \/ pc = "pass" /\ pc' = "rejected"
      BY <1>6 DEF SkipPaused, EngineDone, PresentGivesUp, SwapLuma, Reject, vars
    <2> QED BY <2>1, <2>2 DEF Resting
  <1> QED BY <1>1, <1>2, <1>3, <1>4, <1>5, <1>6 DEF Next

\* Between two command lists every texture of every device is in the state it
\* rests in, and the pass's scratch target in the one its place in the frame
\* says (the barriers of Pipeline.cpp and DirectNrPass.cpp).
THEOREM RestsBetweenLists == Spec => []Resting
  <1>1. Init => TypeOK /\ Resolved(dev) /\ Resting
    BY TypeInit, DeviceInit, RestingInit
  <1>2. TypeOK /\ Resolved(dev) /\ Resting /\ [Next]_vars
          => (TypeOK /\ Resolved(dev) /\ Resting)'
    BY TypeStep, DeviceStep, RestingStep
  <1> QED BY <1>1, <1>2, PTL DEF Spec

\* Every barrier and every use finds its texture in the state it names, with
\* setups of any number of passes and a refusal at any of them -- but for a
\* passthrough pass's first copy into a scratch target.
THEOREM BarriersAllMatch == Spec => BarriersMatch
  <1>1. TypeOK /\ Resolved(dev) /\ Resting /\ [Next]_vars
          => [(gpu' # gpu /\ ~gpu'.ok) =>
                ~dev.direct /\ dev.masked /\ gpu.at[Neural] = "COPY_SOURCE"]_vars
    BY RestingStep
  <1>2. Init => TypeOK /\ Resolved(dev) /\ Resting
    BY TypeInit, DeviceInit, RestingInit
  <1>3. TypeOK /\ Resolved(dev) /\ Resting /\ [Next]_vars
          => (TypeOK /\ Resolved(dev) /\ Resting)'
    BY TypeStep, DeviceStep, RestingStep
  <1> QED BY <1>1, <1>2, <1>3, PTL DEF Spec, BarriersMatch

===============================================================================
