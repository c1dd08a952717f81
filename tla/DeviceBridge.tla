----------------------------- MODULE DeviceBridge -----------------------------
(***************************************************************************)
(* The shared texture ring between the capture thread and the render       *)
(* thread (src/common/gpu/DeviceBridge.{h,cpp}), one action per access to  *)
(* a variable both threads see.                                            *)
(*                                                                         *)
(* The capture thread is the WGC FrameArrived callback: it picks a slot,   *)
(* submits a D3D11 copy into it, stamps it with the next fence value,      *)
(* publishes it and sets the event.  The render thread is the part of      *)
(* Pipeline::RenderLoop that touches the ring: it waits for the event,     *)
(* takes the published slot, pins it, submits command lists that read it   *)
(* and waits for them inside DCompOverlay::Present.  The D3D12 queue is    *)
(* the set of reads it has not retired.                                    *)
(*                                                                         *)
(* A frame is named by its fence value: frame n is the n-th Commit.        *)
(***************************************************************************)
EXTENDS Integers

CONSTANTS
  kRingDepth,   \* slots in the ring; 3 in the code
  MaxFrames     \* bound of the model: frames the capture delivers

ASSUME BridgeAssumption ==
  /\ kRingDepth \in Nat
  /\ kRingDepth >= 3
  /\ MaxFrames \in Nat

Slots == 0 .. kRingDepth - 1
NoSlot == -1

VARIABLES
  published,        \* published_: the slot ready to be taken, or NoSlot
  inFlight,         \* inFlight_: the slot the render thread pinned, or NoSlot
  frameReady,       \* frameReady_: the auto-reset event
  slotFence,        \* Slot::fenceValue of every slot
  writeIndex,       \* writeIndex_, capture thread only
  nextFenceValue,   \* nextFenceValue_, capture thread only
  lastCopy,         \* the newest frame whose copy into the slot was submitted
  cpc,              \* what the capture thread does next
  pinned,           \* its local of NextWritableSlot: inFlight_ as it was loaded
  drops,            \* overwrites Publish reported
  rpc,              \* what the render thread does next
  held,             \* its BridgeFrame: the slot and the fence value read from it
  gpuReads,         \* frames that submitted command lists still read
  taken,            \* history: slotFence of the slot at the last exchange
  consumed,         \* history: successful AcquireLatest calls
  gapCommit,        \* history: a frame was published while the pin was pending
  overtaken         \* history: ... and inFlight_ was then loaded unpinned

captureVars == <<writeIndex, nextFenceValue, lastCopy, cpc, pinned, drops>>
renderVars == <<rpc, held, gpuReads, taken, consumed>>
sharedVars == <<published, inFlight, frameReady, slotFence>>
historyVars == <<gapCommit, overtaken>>
vars == <<captureVars, renderVars, sharedVars, historyVars>>

BridgeFrame == [index : Slots, fence : Nat]

\* An index brought back into the ring.
RingIndex(i) == i % kRingDepth

Init ==
  /\ published = NoSlot
  /\ inFlight = NoSlot
  /\ frameReady = FALSE
  /\ slotFence = [s \in Slots |-> 0]
  /\ writeIndex = 0
  /\ nextFenceValue = 1
  /\ lastCopy = [s \in Slots |-> 0]
  /\ cpc = "idle"
  /\ pinned = NoSlot
  /\ drops = 0
  /\ rpc = "loop"
  /\ held = [index |-> 0, fence |-> 0]
  /\ gpuReads = {}
  /\ taken = 0
  /\ consumed = 0
  /\ gapCommit = FALSE
  /\ overtaken = FALSE

-------------------------------------------------------------------------------
(* The capture thread: Publish, which calls NextWritableSlot and Commit.   *)

\* Mutant: only the published slot is off limits, as before the pin existed.
NextWritableSlotIgnoringPin(pin, ready) ==
  CHOOSE slot \in {writeIndex, RingIndex(writeIndex + 1)} :
    slot # ready /\ (writeIndex # ready => slot = writeIndex)

\* Mutant: a pinned slot is stepped back from, onto the one before it.
NextWritableSlotBackwards(pin, ready) ==
  IF writeIndex # pin THEN writeIndex ELSE RingIndex(writeIndex + kRingDepth - 1)

\* The first slot from writeIndex_ on that is neither pinned nor ready; the
\* code's fallback is writeIndex_ itself.
NextWritableSlot(pin, ready) ==
  LET Candidate(step) == RingIndex(writeIndex + step)
      free == {step \in Slots : Candidate(step) \notin {pin, ready}}
  IN  IF free = {}
      THEN writeIndex
      ELSE Candidate(CHOOSE step \in free : \A other \in free : step <= other)

\* A frame arrives and NextWritableSlot loads inFlight_.
LoadInFlight ==
  /\ cpc = "idle"
  /\ nextFenceValue <= MaxFrames
  /\ pinned' = inFlight
  /\ cpc' = "loaded"
  /\ overtaken' = (overtaken \/ (rpc = "pin" /\ gapCommit))
  /\ UNCHANGED <<writeIndex, nextFenceValue, lastCopy, drops, renderVars,
                 sharedVars, gapCommit>>

\* NextWritableSlot loads published_ and picks the slot.
SelectSlot ==
  /\ cpc = "loaded"
  /\ writeIndex' = NextWritableSlot(pinned, published)
  /\ cpc' = "copy"
  /\ UNCHANGED <<nextFenceValue, lastCopy, pinned, drops, renderVars,
                 sharedVars, historyVars>>

\* CopyResource: from now on the D3D11 queue may write the slot.
CopyIntoSlot ==
  /\ cpc = "copy"
  /\ lastCopy' = [lastCopy EXCEPT ![writeIndex] = nextFenceValue]
  /\ cpc' = "commit"
  /\ UNCHANGED <<writeIndex, nextFenceValue, pinned, drops, renderVars,
                 sharedVars, historyVars>>

\* Commit, first half: stamp the slot and signal the fence behind the copy.
StampFence ==
  /\ cpc = "commit"
  /\ slotFence' = [slotFence EXCEPT ![writeIndex] = nextFenceValue]
  /\ nextFenceValue' = nextFenceValue + 1
  /\ cpc' = "exchange"
  /\ UNCHANGED <<writeIndex, lastCopy, pinned, drops, renderVars, published,
                 inFlight, frameReady, historyVars>>

\* Mutant: the frame is published and the event is not set.
ExchangeWithoutSignal ==
  /\ cpc = "exchange"
  /\ published' = writeIndex
  /\ drops' = IF published = NoSlot THEN drops ELSE drops + 1
  /\ writeIndex' = RingIndex(writeIndex + 1)
  /\ cpc' = "idle"
  /\ gapCommit' = (gapCommit \/ rpc = "pin")
  /\ UNCHANGED <<nextFenceValue, lastCopy, pinned, renderVars, inFlight,
                 frameReady, slotFence, overtaken>>

\* Commit, second half: publish the slot; what was there is a drop.
ExchangePublished ==
  /\ cpc = "exchange"
  /\ published' = writeIndex
  /\ drops' = IF published = NoSlot THEN drops ELSE drops + 1
  /\ writeIndex' = RingIndex(writeIndex + 1)
  /\ cpc' = "signal"
  /\ gapCommit' = (gapCommit \/ rpc = "pin")
  /\ UNCHANGED <<nextFenceValue, lastCopy, pinned, renderVars, inFlight,
                 frameReady, slotFence, overtaken>>

SignalReady ==
  /\ cpc = "signal"
  /\ frameReady' = TRUE
  /\ cpc' = "idle"
  /\ UNCHANGED <<writeIndex, nextFenceValue, lastCopy, pinned, drops,
                 renderVars, published, inFlight, slotFence, historyVars>>

-------------------------------------------------------------------------------
(* The render thread: WaitForFrame, AcquireLatest, the frame, Present.     *)

\* WaitForFrame looks at published_ before it blocks on the event.
CheckPublished ==
  /\ rpc = "loop"
  /\ rpc' = IF published # NoSlot THEN "acquire" ELSE "blocked"
  /\ UNCHANGED <<captureVars, sharedVars, historyVars, held, gpuReads, taken,
                 consumed>>

\* The auto-reset event releases the wait.
EventWakes ==
  /\ rpc = "blocked"
  /\ frameReady
  /\ frameReady' = FALSE
  /\ rpc' = "acquire"
  /\ UNCHANGED <<captureVars, published, inFlight, slotFence, historyVars,
                 held, gpuReads, taken, consumed>>

\* The 8 ms are over.  The loop ignores WaitForFrame's result.
WaitTimesOut ==
  /\ rpc = "blocked"
  /\ ~frameReady
  /\ rpc' = "acquire"
  /\ UNCHANGED <<captureVars, sharedVars, historyVars, held, gpuReads, taken,
                 consumed>>

\* AcquireLatest: exchange(-1) on published_ finds nothing.
AcquireNothing ==
  /\ rpc = "acquire"
  /\ published = NoSlot
  /\ rpc' = "loop"
  /\ UNCHANGED <<captureVars, sharedVars, historyVars, held, gpuReads, taken,
                 consumed>>

\* Mutant: published_ is loaded where it should be exchanged.
TakeWithoutClearing ==
  /\ rpc = "acquire"
  /\ published # NoSlot
  /\ held' = [held EXCEPT !.index = published]
  /\ taken' = slotFence[published]
  /\ consumed' = consumed + 1
  /\ rpc' = "pin"
  /\ gapCommit' = FALSE
  /\ overtaken' = FALSE
  /\ UNCHANGED <<captureVars, sharedVars, gpuReads>>

\* AcquireLatest: exchange(-1) takes the published slot.  It is not pinned yet.
TakePublished ==
  /\ rpc = "acquire"
  /\ published # NoSlot
  /\ published' = NoSlot
  /\ held' = [held EXCEPT !.index = published]
  /\ taken' = slotFence[published]
  /\ consumed' = consumed + 1
  /\ rpc' = "pin"
  /\ gapCommit' = FALSE
  /\ overtaken' = FALSE
  /\ UNCHANGED <<captureVars, inFlight, frameReady, slotFence, gpuReads>>

\* inFlight_.store(index): pins the slot and releases the one before it.
Pin ==
  /\ rpc = "pin"
  /\ inFlight' = held.index
  /\ rpc' = "read"
  /\ UNCHANGED <<captureVars, published, frameReady, slotFence, historyVars,
                 held, gpuReads, taken, consumed>>

\* slot.fenceValue is read into the BridgeFrame.
ReadFence ==
  /\ rpc = "read"
  /\ held' = [held EXCEPT !.fence = slotFence[held.index]]
  /\ rpc' = "use"
  /\ UNCHANGED <<captureVars, sharedVars, historyVars, gpuReads, taken,
                 consumed>>

\* While the overlay is paused the frame is consumed and not used.
SkipPaused ==
  /\ rpc = "use"
  /\ rpc' = "loop"
  /\ UNCHANGED <<captureVars, sharedVars, historyVars, held, gpuReads, taken,
                 consumed>>

\* Wait(SharedFence, fenceValue) and the command lists that read the slot.
Submit ==
  /\ rpc = "use"
  /\ gpuReads' = gpuReads \union {held}
  /\ rpc' = "present"
  /\ UNCHANGED <<captureVars, sharedVars, historyVars, held, taken, consumed>>

\* The D3D12 queue finishes reading a frame.  It began behind the frame's
\* fence, so the stamp it waited for has been signalled.
RetireRead(frame) ==
  /\ frame \in gpuReads
  /\ frame.fence < nextFenceValue
  /\ gpuReads' = gpuReads \ {frame}
  /\ UNCHANGED <<captureVars, sharedVars, historyVars, rpc, held, taken,
                 consumed>>

\* DCompOverlay::Present saw its fence complete: the queue has drained.
PresentRetired ==
  /\ rpc = "present"
  /\ gpuReads = {}
  /\ rpc' = "loop"
  /\ UNCHANGED <<captureVars, sharedVars, historyVars, held, gpuReads, taken,
                 consumed>>

\* Mutant: the pin goes with the present, whether the queue is done or not.
PresentGivesUpUnpinning ==
  /\ rpc = "present"
  /\ gpuReads # {}
  /\ rpc' = "loop"
  /\ inFlight' = NoSlot
  /\ UNCHANGED <<captureVars, published, frameReady, slotFence, historyVars,
                 held, gpuReads, taken, consumed>>

\* Present returned early: GetBuffer failed, or 1000 ms went by.
PresentGivesUp ==
  /\ rpc = "present"
  /\ gpuReads # {}
  /\ rpc' = "loop"
  /\ UNCHANGED <<captureVars, sharedVars, historyVars, held, gpuReads, taken,
                 consumed>>

-------------------------------------------------------------------------------
Capture ==
  \/ SelectSlot
  \/ CopyIntoSlot
  \/ StampFence
  \/ ExchangePublished
  \/ SignalReady

RenderStep ==
  \/ CheckPublished
  \/ EventWakes
  \/ AcquireNothing
  \/ TakePublished
  \/ Pin
  \/ ReadFence
  \/ SkipPaused
  \/ Submit
  \/ PresentRetired

Next ==
  \/ LoadInFlight
  \/ Capture
  \/ RenderStep
  \/ WaitTimesOut
  \/ PresentGivesUp
  \/ \E frame \in gpuReads : RetireRead(frame)

Spec == Init /\ [][Next]_vars

\* Threads that can run do, a publish once begun completes, and the GPU
\* retires what it was given.  No frame need ever arrive, and neither
\* timeout need ever fire.
FairSpec ==
  /\ Spec
  /\ WF_vars(Capture)
  /\ WF_vars(RenderStep)
  /\ WF_vars(\E frame \in gpuReads : RetireRead(frame))

-------------------------------------------------------------------------------
(* Correctness.                                                            *)

TypeOK ==
  /\ published \in Slots \union {NoSlot}
  /\ inFlight \in Slots \union {NoSlot}
  /\ frameReady \in BOOLEAN
  /\ slotFence \in [Slots -> Nat]
  /\ writeIndex \in Slots
  /\ nextFenceValue \in Nat \ {0}
  /\ lastCopy \in [Slots -> Nat]
  /\ cpc \in {"idle", "loaded", "copy", "commit", "exchange", "signal"}
  /\ pinned \in Slots \union {NoSlot}
  /\ drops \in Nat
  /\ rpc \in {"loop", "blocked", "acquire", "pin", "read", "use", "present"}
  /\ held \in BridgeFrame
  /\ gpuReads \in SUBSET BridgeFrame
  /\ taken \in Nat
  /\ consumed \in Nat
  /\ gapCommit \in BOOLEAN
  /\ overtaken \in BOOLEAN

\* How many frames have been published: the last one stamped may not be yet.
Produced == IF cpc = "exchange" THEN nextFenceValue - 2 ELSE nextFenceValue - 1

\* NextWritableSlot keeps the copy out of the slot that is ready to be taken:
\* whatever the capture thread is in the middle of, the published slot holds
\* the newest published frame, under that frame's fence value.
ReadyFrameIsNewestAndWhole ==
  published # NoSlot =>
    /\ slotFence[published] = Produced
    /\ lastCopy[published] = Produced

\* A frame is held from the moment AcquireLatest returns until the next call
\* that finds a frame pins another slot: through the present, and after one
\* that gave up while the queue still reads the slot.
Holding == rpc \notin {"pin", "read"} /\ consumed > 0

\* As long as a frame is held, its slot holds the frame that was taken, under
\* its own fence value, and no newer copy into it has been submitted -- unless
\* the capture thread published a frame and began another between the two
\* stores of AcquireLatest (overtaken).
HeldFrameIntact ==
  Holding /\ ~overtaken =>
    /\ held.fence = taken
    /\ lastCopy[held.index] = taken

\* Publish sets the event after it publishes, and WaitForFrame looks before
\* it blocks: a render thread that sleeps beside a published frame has a
\* wake-up set or on its way.
WakeUpNotLost ==
  rpc = "blocked" /\ published # NoSlot => frameReady \/ cpc = "signal"

\* The ring is a mailbox of one frame: frames are taken in order, none twice,
\* every published frame is taken, pending or counted once as a drop, and a
\* published frame does not wait for a timeout to be taken.
Mailbox == INSTANCE LatestWins WITH
  produced <- Produced,
  pending <- IF published = NoSlot THEN 0 ELSE slotFence[published]

ImplementsLatestWins == Mailbox!FairSpec
===============================================================================
