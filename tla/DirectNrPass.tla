---------------------------- MODULE DirectNrPass ----------------------------
(***************************************************************************)
(* The direct neural pass (src/common/neural/DirectNrPass.{h,cpp}): which  *)
(* features of the vendor runtime exist, which generation of them a frame  *)
(* is evaluated with, and how a setting that needs new features is         *)
(* swapped in beside the running ones.                                     *)
(*                                                                         *)
(* A generation is what one setup needs: a feature per model pass.  The    *)
(* render thread calls Evaluate once a frame; its phases, which nothing    *)
(* interrupts but a request, are actions of their own.  Any thread may     *)
(* request a setup, under a mutex, between any two of them.  Textures,     *)
(* sizes and timestamps are left out, and so is the live compose strength. *)
(***************************************************************************)
EXTENDS Integers

CONSTANTS
  Handles,         \* the features the vendor runtime has room for
  NoHandle,        \* nullptr
  kMaxPasses,      \* passes of a setup; 4 in the code
  kCreateAtFrame,  \* the frame features are created on; 2 in the code
  kRefusals,       \* refused evaluates in a row that end the pass; 8 in the code
  MaxSetups        \* bound of the model: setups requested, the first included

ASSUME PassAssumption ==
  /\ NoHandle \notin Handles
  /\ kMaxPasses \in Nat \ {0}
  /\ kCreateAtFrame \in Nat \ {0}
  /\ kRefusals \in Nat \ {0}
  /\ MaxSetups \in Nat \ {0}

Passes == 1 .. kMaxPasses

VARIABLES
  requested,            \* setups requested so far; the newest one's number
  pending,              \* pendingSetup_: its number and its passes
  pc,                   \* the phase of Evaluate the render thread is in
  pass,                 \* CreateFeatures: the pass it is at
  state,                \* state_
  frames,               \* frames_, up to kCreateAtFrame
  current, next,        \* current_ and next_
  reset,                \* reset_
  consecutiveFailures,  \* consecutiveFailures_
  live,                 \* the features that exist in the vendor runtime
  fresh,                \* of those, the ones created on this command list
  shown,                \* history: the setup the last frame shows, 0: none
  dropped,              \* history: the newest setup given up on
  recreated             \* history: features were created over existing ones

requestVars == <<requested, pending>>
generationVars == <<current, next>>
featureVars == <<live, fresh>>
historyVars == <<shown, dropped, recreated>>
vars == <<requestVars, pc, pass, state, frames, generationVars, reset,
          consecutiveFailures, featureVars, historyVars>>

NoSetup == [setup |-> 0, passes |-> 0]
NoHandles == [i \in Passes |-> NoHandle]

\* BuildGeneration: the textures, and a pass without a feature for each tuning.
Build(s) ==
  [setup |-> s.setup, passes |-> s.passes, handles |-> NoHandles,
   featuresCreated |-> FALSE]
NoGeneration == Build(NoSetup)
HaveNext == next.setup # 0

\* The features a generation holds, and the generation ReleaseFeatures leaves.
Held(gen) == {gen.handles[i] : i \in Passes} \ {NoHandle}
Released(gen) == [gen EXCEPT !.handles = NoHandles, !.featuresCreated = FALSE]

\* A frame without the model: CopyThrough, and Evaluate returns.
CopyThrough == pc' = "idle" /\ shown' = 0

Init ==
  /\ requested = 1 /\ pending = NoSetup
  /\ pc = "idle" /\ pass = 1
  /\ state = "WaitingToCreate" /\ frames = 0
  /\ \E n \in Passes : current = Build([setup |-> 1, passes |-> n])
  /\ next = NoGeneration
  /\ reset = TRUE /\ consecutiveFailures = 0
  /\ live = {} /\ fresh = {}
  /\ shown = 0 /\ dropped = 0 /\ recreated = FALSE

-------------------------------------------------------------------------------
(* Requests, from the thread that owns the pass.                           *)

RequestPassSetup(n) ==
  /\ pc \notin {"rejected", "destroyed"}
  /\ requested < MaxSetups
  /\ requested' = requested + 1
  /\ pending' = [setup |-> requested + 1, passes |-> n]
  /\ UNCHANGED <<pc, pass, state, frames, generationVars, reset,
                 consecutiveFailures, featureVars, historyVars>>

-------------------------------------------------------------------------------
(* Evaluate: the pending setup, then the generations.                      *)

\* Mutant: a request that finds another setup being built is dropped.
TakePendingWhenFree ==
  /\ pc = "idle"
  /\ pc' = "generation"
  /\ frames' = IF frames < kCreateAtFrame THEN frames + 1 ELSE frames
  /\ fresh' = {}
  /\ pending' = NoSetup
  /\ IF pending = NoSetup \/ HaveNext
     THEN UNCHANGED <<next, live, dropped>>
     ELSE /\ live' = live
          /\ \/ next' = Build(pending) /\ UNCHANGED dropped
             \/ next' = next /\ dropped' = pending.setup
  /\ UNCHANGED <<requested, pass, state, current, reset, consecutiveFailures,
                 shown, recreated>>

\* A frame begins on an empty command list.  TakePending replaces a next
\* generation; when the textures cannot be allocated it stays, its features
\* released.
TakePending ==
  /\ pc = "idle"
  /\ pc' = "generation"
  /\ frames' = IF frames < kCreateAtFrame THEN frames + 1 ELSE frames
  /\ fresh' = {}
  /\ pending' = NoSetup
  /\ IF pending = NoSetup
     THEN UNCHANGED <<next, live, dropped>>
     ELSE /\ live' = live \ Held(next)
          /\ \/ next' = Build(pending) /\ UNCHANGED dropped
             \/ next' = Released(next) /\ dropped' = pending.setup
  /\ UNCHANGED <<requested, pass, state, current, reset, consecutiveFailures,
                 shown, recreated>>

KeepGeneration ==
  /\ pc = "generation"
  /\ ~HaveNext
  /\ pc' = "switch"
  /\ UNCHANGED <<requestVars, pass, state, frames, generationVars, reset,
                 consecutiveFailures, featureVars, historyVars>>

\* A failed session restarts on the new setup.
RestartFailed ==
  /\ pc = "generation"
  /\ HaveNext /\ state = "Failed"
  /\ pc' = "switch"
  /\ live' = live \ Held(current)
  /\ current' = next
  /\ next' = NoGeneration
  /\ state' = "WaitingToCreate"
  /\ frames' = kCreateAtFrame - 1
  /\ UNCHANGED <<requestVars, pass, reset, consecutiveFailures, fresh,
                 historyVars>>

\* The next generation's features are created beside the current one's.
BeginCreateNext ==
  /\ pc = "generation"
  /\ HaveNext /\ state # "Failed" /\ ~next.featuresCreated
  /\ pc' = "createNext"
  /\ pass' = 1
  /\ UNCHANGED <<requestVars, state, frames, generationVars, reset,
                 consecutiveFailures, featureVars, historyVars>>

\* Mutant: the next generation is swapped in on the frame that creates it.
SwapAtOnce ==
  /\ pc \in {"generation", "createNext"}
  /\ HaveNext /\ state # "Failed"
  /\ next.featuresCreated \/ (pc = "createNext" /\ pass > next.passes)
  /\ pc' = "switch"
  /\ live' = live \ Held(current)
  /\ current' = [next EXCEPT !.featuresCreated = TRUE]
  /\ next' = NoGeneration
  /\ reset' = TRUE
  /\ UNCHANGED <<requestVars, pass, state, frames, consecutiveFailures, fresh,
                 historyVars>>

\* Mutant: the features of the generation swapped out are not released.
SwapKeepingFeatures ==
  /\ pc = "generation"
  /\ HaveNext /\ state # "Failed" /\ next.featuresCreated
  /\ pc' = "switch"
  /\ current' = next
  /\ next' = NoGeneration
  /\ reset' = TRUE
  /\ UNCHANGED <<requestVars, pass, state, frames, consecutiveFailures,
                 featureVars, historyVars>>

\* Mutant: the model keeps its history over the swap.
SwapWithoutReset ==
  /\ pc = "generation"
  /\ HaveNext /\ state # "Failed" /\ next.featuresCreated
  /\ pc' = "switch"
  /\ live' = live \ Held(current)
  /\ current' = next
  /\ next' = NoGeneration
  /\ UNCHANGED <<requestVars, pass, state, frames, reset, consecutiveFailures,
                 fresh, historyVars>>

\* They exist since an earlier frame: the next generation becomes the current.
SwapNext ==
  /\ pc = "generation"
  /\ HaveNext /\ state # "Failed" /\ next.featuresCreated
  /\ pc' = "switch"
  /\ live' = live \ Held(current)
  /\ current' = next
  /\ next' = NoGeneration
  /\ reset' = TRUE
  /\ UNCHANGED <<requestVars, pass, state, frames, consecutiveFailures, fresh,
                 historyVars>>

-------------------------------------------------------------------------------
(* CreateFeatures, of either generation: one pass at a time.               *)

Creating == pc \in {"createNext", "createCurrent"}
Target == IF pc = "createNext" THEN next ELSE current

\* One more feature; the handle the pass had is overwritten.
CreateFeature(h) ==
  /\ Creating
  /\ pass <= Target.passes
  /\ h \in Handles \ live
  /\ live' = live \union {h}
  /\ fresh' = fresh \union {h}
  /\ recreated' = (recreated \/ Target.handles[pass] # NoHandle)
  /\ IF pc = "createNext"
     THEN next' = [next EXCEPT !.handles[pass] = h] /\ UNCHANGED current
     ELSE current' = [current EXCEPT !.handles[pass] = h] /\ UNCHANGED next
  /\ pass' = pass + 1
  /\ UNCHANGED <<requestVars, pc, state, frames, reset, consecutiveFailures,
                 shown, dropped>>

\* Creation fails or faults: the generation's features are released.  A next
\* generation is given up; without a current one the pass is unavailable.
CreateFails ==
  /\ Creating
  /\ pass <= Target.passes
  /\ live' = live \ Held(Target)
  /\ IF pc = "createNext"
     THEN /\ next' = NoGeneration
          /\ dropped' = IF next.setup > dropped THEN next.setup ELSE dropped
          /\ pc' = "switch"
          /\ UNCHANGED <<current, state, shown>>
     ELSE /\ current' = Released(current)
          /\ state' = "Failed"
          /\ CopyThrough
          /\ UNCHANGED <<next, dropped>>
  /\ UNCHANGED <<requestVars, pass, frames, reset, consecutiveFailures, fresh,
                 recreated>>

\* Every pass has its feature.
FeaturesCreated ==
  /\ Creating
  /\ pass > Target.passes
  /\ IF pc = "createNext"
     THEN /\ next' = [next EXCEPT !.featuresCreated = TRUE]
          /\ pc' = "switch"
          /\ UNCHANGED <<current, state, shown>>
     ELSE /\ current' = [current EXCEPT !.featuresCreated = TRUE]
          /\ state' = "CreatedNotYetRun"
          /\ CopyThrough
          /\ UNCHANGED next
  /\ UNCHANGED <<requestVars, pass, frames, reset, consecutiveFailures,
                 featureVars, dropped, recreated>>

-------------------------------------------------------------------------------
(* Evaluate: the state, then the model.                                    *)

WaitToCreate ==
  /\ pc = "switch"
  /\ state = "WaitingToCreate" /\ frames < kCreateAtFrame
  /\ CopyThrough
  /\ UNCHANGED <<requestVars, pass, state, frames, generationVars, reset,
                 consecutiveFailures, featureVars, dropped, recreated>>

BeginCreateCurrent ==
  /\ pc = "switch"
  /\ state = "WaitingToCreate" /\ frames >= kCreateAtFrame
  /\ pc' = "createCurrent"
  /\ pass' = 1
  /\ UNCHANGED <<requestVars, state, frames, generationVars, reset,
                 consecutiveFailures, featureVars, historyVars>>

PassThroughFailed ==
  /\ pc = "switch"
  /\ state = "Failed"
  /\ CopyThrough
  /\ UNCHANGED <<requestVars, pass, state, frames, generationVars, reset,
                 consecutiveFailures, featureVars, dropped, recreated>>

FirstRun ==
  /\ pc = "switch"
  /\ state = "CreatedNotYetRun"
  /\ state' = "Running"
  /\ reset' = TRUE
  /\ pc' = "run"
  /\ UNCHANGED <<requestVars, pass, frames, generationVars,
                 consecutiveFailures, featureVars, historyVars>>

KeepRunning ==
  /\ pc = "switch"
  /\ state = "Running"
  /\ pc' = "run"
  /\ UNCHANGED <<requestVars, pass, state, frames, generationVars, reset,
                 consecutiveFailures, featureVars, historyVars>>

\* The flow engine has no motion vectors for this frame.
NoMotion ==
  /\ pc = "run"
  /\ reset' = TRUE
  /\ CopyThrough
  /\ UNCHANGED <<requestVars, pass, state, frames, generationVars,
                 consecutiveFailures, featureVars, dropped, recreated>>

\* Every pass is evaluated and the answer composed.
EvaluatePasses ==
  /\ pc = "run"
  /\ reset' = FALSE
  /\ consecutiveFailures' = 0
  /\ shown' = current.setup
  /\ pc' = "idle"
  /\ UNCHANGED <<requestVars, pass, state, frames, generationVars, featureVars,
                 dropped, recreated>>

\* A pass is refused; after kRefusals in a row the model is given up.
Refuse ==
  /\ pc = "run"
  /\ consecutiveFailures' = consecutiveFailures + 1
  /\ IF consecutiveFailures + 1 >= kRefusals
     THEN /\ live' = live \ Held(current)
          /\ current' = Released(current)
          /\ state' = "Failed"
     ELSE UNCHANGED <<live, current, state>>
  /\ reset' = TRUE
  /\ CopyThrough
  /\ UNCHANGED <<requestVars, pass, frames, next, fresh, dropped, recreated>>

\* A pass faults: Evaluate returns false, and the render loop ends.
Fault ==
  /\ pc = "run"
  /\ pc' = "rejected"
  /\ live' = live \ Held(current)
  /\ current' = Released(current)
  /\ state' = "Failed"
  /\ UNCHANGED <<requestVars, pass, frames, next, reset, consecutiveFailures,
                 fresh, historyVars>>

\* ~DirectNrPass, with no frame in Evaluate: the render thread is joined.
Destroy ==
  /\ pc \in {"idle", "rejected"}
  /\ pc' = "destroyed"
  /\ live' = live \ (Held(current) \union Held(next))
  /\ current' = Released(current)
  /\ next' = Released(next)
  /\ UNCHANGED <<requestVars, pass, state, frames, reset, consecutiveFailures,
                 fresh, historyVars>>

-------------------------------------------------------------------------------
Evaluate ==
  \/ TakePending
  \/ KeepGeneration \/ RestartFailed \/ BeginCreateNext \/ SwapNext
  \/ (\E h \in Handles : CreateFeature(h)) \/ CreateFails \/ FeaturesCreated
  \/ WaitToCreate \/ BeginCreateCurrent \/ PassThroughFailed
  \/ FirstRun \/ KeepRunning
  \/ NoMotion \/ EvaluatePasses \/ Refuse \/ Fault

Next ==
  \/ \E n \in Passes : RequestPassSetup(n)
  \/ Evaluate
  \/ Destroy

Spec == Init /\ [][Next]_vars

\* Frames keep arriving, and Evaluate returns.
FairSpec == Spec /\ WF_vars(Evaluate)

-------------------------------------------------------------------------------
(* Properties.                                                             *)

Generation ==
  [setup : 0 .. MaxSetups, passes : 0 .. kMaxPasses,
   handles : [Passes -> Handles \union {NoHandle}], featuresCreated : BOOLEAN]

\* What the variables may hold.
TypeOK ==
  /\ requested \in 1 .. MaxSetups
  /\ pending \in [setup : 0 .. MaxSetups, passes : 0 .. kMaxPasses]
  /\ pc \in {"idle", "generation", "createNext", "createCurrent", "switch",
             "run", "rejected", "destroyed"}
  /\ pass \in 1 .. kMaxPasses + 1
  /\ state \in {"WaitingToCreate", "CreatedNotYetRun", "Running", "Failed"}
  /\ frames \in 0 .. kCreateAtFrame
  /\ current \in Generation /\ next \in Generation
  /\ reset \in BOOLEAN
  /\ consecutiveFailures \in Nat
  /\ live \in SUBSET Handles /\ fresh \in SUBSET Handles
  /\ shown \in 0 .. MaxSetups /\ dropped \in 0 .. MaxSetups
  /\ recreated \in BOOLEAN

\* The model is only ever evaluated through features that exist, every pass
\* of the setup has one, no two share one, and none was created on the same
\* command list: the runtime has been seen to hang the GPU when create and
\* first evaluate share a list.
EvaluatesOlderFeatures ==
  pc = "run" =>
    /\ \A i \in 1 .. current.passes : current.handles[i] \in live \ fresh
    /\ \A i, j \in 1 .. current.passes :
         current.handles[i] = current.handles[j] => i = j

\* Every feature that exists belongs to one of the two generations, so it is
\* released with it, and the destructor leaves none -- unless features were
\* created over a generation that had them already (recreated).
NoFeatureForgotten == ~recreated => live = Held(current) \union Held(next)

\* The model is told to keep its history only when the frame before showed
\* its answer, of the same setup: after a swap, a refused frame, one without
\* motion or a restart its history is not of the frame before.
HistoryIsContinuous == (pc = "run" /\ ~reset) => shown = current.setup

\* A setup the model works with is superseded, given up by a failure, or
\* becomes the current one; no request is lost between two frames.
SetupTakesEffect ==
  \A n \in 1 .. MaxSetups :
    requested = n ~> \/ requested > n \/ dropped = n
                     \/ current.setup = n
                     \/ pc \in {"rejected", "destroyed"}
===============================================================================
