-------------------------- MODULE DeviceBridgeProofs --------------------------
(***************************************************************************)
(* Proofs about the ring, for every depth of at least three and any number *)
(* of frames.                                                              *)
(***************************************************************************)
EXTENDS DeviceBridge, TLAPS

\* The slot the capture thread has selected and not yet published.
Writing == cpc \in {"copy", "commit", "exchange"}

\* The stamp of a slot is the newest frame copied into it; only between
\* CopyResource and Commit's store is the selected slot ahead of its stamp.
StampsFollowCopies ==
  \A s \in Slots :
    IF cpc = "commit" /\ s = writeIndex
    THEN lastCopy[s] = nextFenceValue
    ELSE lastCopy[s] = slotFence[s]

\* Between publishes writeIndex_ is one past the last published slot; during
\* one it is a slot other than the published.
WriteIndexAvoidsReady ==
  published # NoSlot =>
    /\ Produced >= 1
    /\ slotFence[published] = Produced
    /\ IF Writing THEN writeIndex # published ELSE writeIndex = RingIndex(published + 1)

\* Between the exchange and the pin the taken slot is protected only by
\* where writeIndex_ stands, which one publish is enough to move.
TakenSlotNotYetPinned ==
  rpc = "pin" =>
    /\ slotFence[held.index] = taken
    /\ IF Writing
       THEN writeIndex # held.index /\ (~gapCommit => published = NoSlot)
       ELSE ~gapCommit => published = NoSlot /\ writeIndex = RingIndex(held.index + 1)
    /\ cpc = "loaded" => ~gapCommit

\* After it, a selection that loaded inFlight_ sees the pin; the one that
\* loaded it too early still starts one past the pinned slot.
PinnedSlotNotWritten ==
  rpc # "pin" /\ consumed > 0 =>
    /\ inFlight = held.index
    /\ slotFence[held.index] = taken
    /\ rpc # "read" => held.fence = taken
    /\ Writing => writeIndex # held.index
    /\ cpc = "loaded" =>
         \/ pinned = held.index
         \/ published = NoSlot /\ writeIndex = RingIndex(held.index + 1)

\* A stamp is one behind nextFenceValue_ until it is published.
StampBeforePublish ==
  cpc = "exchange" =>
    nextFenceValue >= 2 /\ slotFence[writeIndex] = nextFenceValue - 1

BridgeInv ==
  /\ StampBeforePublish
  /\ StampsFollowCopies
  /\ WriteIndexAvoidsReady
  /\ ~overtaken => TakenSlotNotYetPinned
  /\ ~overtaken => PinnedSlotNotWritten

-------------------------------------------------------------------------------
(* Lemmas about the slot arithmetic.                                       *)

\* Less than two turns around the ring, % is a subtraction.
LEMMA RingIndexValue ==
  \A i \in Nat :
    /\ i < kRingDepth => RingIndex(i) = i
    /\ i >= kRingDepth /\ i < 2 * kRingDepth => RingIndex(i) = i - kRingDepth
  <1> SUFFICES ASSUME NEW i \in Nat
               PROVE  /\ i < kRingDepth => RingIndex(i) = i
                      /\ i >= kRingDepth /\ i < 2 * kRingDepth
                           => RingIndex(i) = i - kRingDepth
    OBVIOUS
  <1>1. CASE i < kRingDepth
    BY <1>1, BridgeAssumption DEF RingIndex
  <1>2. CASE ~(i < kRingDepth)
    BY <1>2, BridgeAssumption DEF RingIndex
  <1>3. QED
    BY <1>1, <1>2

\* The slot after a slot (Commit's increment) is a slot, and another one.
LEMMA NextSlot ==
  ASSUME NEW s \in Slots
  PROVE  RingIndex(s + 1) \in Slots /\ RingIndex(s + 1) # s
  BY RingIndexValue, BridgeAssumption DEF Slots

\* NextWritableSlot returns a slot that is neither pinned nor ready -- the
\* fallback the code says cannot happen does not -- and with nothing ready it
\* does not reach the slot just behind writeIndex_.
LEMMA SelectedSlot ==
  ASSUME writeIndex \in Slots,
         NEW pin \in Slots \union {NoSlot},
         NEW ready \in Slots \union {NoSlot}
  PROVE  /\ NextWritableSlot(pin, ready) \in Slots
         /\ NextWritableSlot(pin, ready) # pin
         /\ NextWritableSlot(pin, ready) # ready
         /\ \A s \in Slots :
              ready = NoSlot /\ writeIndex = RingIndex(s + 1)
                => NextWritableSlot(pin, ready) # s
  <1> DEFINE Candidate(step) == RingIndex(writeIndex + step)
             free == {step \in Slots : Candidate(step) \notin {pin, ready}}
             first == CHOOSE step \in free : \A other \in free : step <= other
  <1>1. 0 \in Slots /\ 1 \in Slots /\ 2 \in Slots
    BY BridgeAssumption DEF Slots
  <1>2. \A step \in Slots : Candidate(step) \in Slots
    BY RingIndexValue, BridgeAssumption DEF Slots
  <1>3. /\ Candidate(0) # Candidate(1)
        /\ Candidate(0) # Candidate(2)
        /\ Candidate(1) # Candidate(2)
    BY RingIndexValue, BridgeAssumption DEF Slots
  <1>4. \A s \in Slots : writeIndex = RingIndex(s + 1)
                           => Candidate(0) # s /\ Candidate(1) # s
    BY RingIndexValue, BridgeAssumption DEF Slots
  <1> HIDE DEF Candidate
  <1>5. 0 \in free \/ 1 \in free \/ 2 \in free
    BY <1>1, <1>3
  <1>6. \E step \in free : \A other \in free : step <= other
    <2>1. CASE 0 \in free
      BY <2>1, BridgeAssumption DEF Slots
    <2>2. CASE 0 \notin free /\ 1 \in free
      BY <2>2, BridgeAssumption DEF Slots
    <2>3. CASE 0 \notin free /\ 1 \notin free /\ 2 \in free
      BY <2>3, BridgeAssumption DEF Slots
    <2>4. QED
      BY <1>5, <2>1, <2>2, <2>3
  <1>7. first \in free /\ \A other \in free : first <= other
    BY <1>6
  <1>8. NextWritableSlot(pin, ready) = Candidate(first)
    BY <1>5 DEF NextWritableSlot, Candidate
  <1> HIDE DEF first
  <1>9. ASSUME ready = NoSlot
        PROVE  first \in {0, 1}
    \* Only one candidate can be pinned, so the first or the second is free.
    <2>1. 0 \in free \/ 1 \in free
      BY <1>1, <1>2, <1>3, <1>9 DEF Slots, NoSlot
    <2>2. QED
      BY <2>1, <1>7, BridgeAssumption DEF Slots
  <1>10. QED
    BY <1>2, <1>4, <1>7, <1>8, <1>9

-------------------------------------------------------------------------------
(* Type correctness.                                                       *)

\* Every variable of the two threads, the ring and the queues keeps its type.
THEOREM TypeCorrect == Spec => []TypeOK
  <1>1. Init => TypeOK
    <2> SUFFICES ASSUME Init
                 PROVE  TypeOK
      OBVIOUS
    <2>1. 0 \in Slots
      BY BridgeAssumption DEF Slots
    <2>2. /\ slotFence \in [Slots -> Nat]
          /\ lastCopy \in [Slots -> Nat]
      BY DEF Init
    <2>3. held \in BridgeFrame
      BY <2>1 DEF Init, BridgeFrame
    <2>4. {frameReady, gapCommit, overtaken} \subseteq BOOLEAN
      BY DEF Init
    <2>5. QED
      BY <2>1, <2>2, <2>3, <2>4 DEF Init, TypeOK
  <1>2. TypeOK /\ [Next]_vars => TypeOK'
    <2> SUFFICES ASSUME TypeOK, [Next]_vars
                 PROVE  TypeOK'
      OBVIOUS
    <2> USE DEF TypeOK, BridgeFrame
    <2>1. CASE LoadInFlight
      BY <2>1 DEF LoadInFlight, renderVars, sharedVars
    <2>2. CASE SelectSlot
      BY <2>2, SelectedSlot DEF SelectSlot, renderVars, sharedVars, historyVars
    <2>3. CASE CopyIntoSlot
      BY <2>3 DEF CopyIntoSlot, renderVars, sharedVars, historyVars
    <2>4. CASE StampFence
      BY <2>4, BridgeAssumption DEF StampFence, renderVars, historyVars
    <2>5. CASE ExchangePublished
      <3>1. writeIndex' \in Slots
        BY <2>5, NextSlot DEF ExchangePublished
      <3>2. drops' \in Nat
        BY <2>5 DEF ExchangePublished
      <3>3. gapCommit' \in BOOLEAN
        BY <2>5 DEF ExchangePublished
      <3>4. QED
        BY <2>5, <3>1, <3>2, <3>3, Zenon DEF ExchangePublished, renderVars
    <2>6. CASE SignalReady
      BY <2>6 DEF SignalReady, renderVars, historyVars
    <2>7. CASE TakePublished
      <3>1. held' \in BridgeFrame
        BY <2>7 DEF TakePublished
      <3>2. taken' \in Nat /\ consumed' \in Nat
        BY <2>7 DEF TakePublished
      <3>3. QED
        BY <2>7, <3>1, <3>2, Zenon DEF TakePublished, captureVars
    <2>8. CASE Pin
      BY <2>8 DEF Pin, captureVars, historyVars
    <2>9. CASE ReadFence
      BY <2>9 DEF ReadFence, captureVars, sharedVars, historyVars
    <2>10. CASE Submit
      BY <2>10 DEF Submit, captureVars, sharedVars, historyVars
    <2>11. CASE \E frame \in gpuReads : RetireRead(frame)
      BY <2>11 DEF RetireRead, captureVars, sharedVars, historyVars
    <2>12. CASE EventWakes
      BY <2>12 DEF EventWakes, captureVars, historyVars
    <2>13. CASE \/ CheckPublished \/ WaitTimesOut \/ AcquireNothing
                \/ SkipPaused \/ PresentRetired \/ PresentGivesUp
      BY <2>13 DEF CheckPublished, WaitTimesOut, AcquireNothing, SkipPaused,
                   PresentRetired, PresentGivesUp, captureVars, sharedVars,
                   historyVars
    <2>14. CASE UNCHANGED vars
      BY <2>14 DEF vars, captureVars, renderVars, sharedVars, historyVars
    <2>15. QED
      BY <2>1, <2>2, <2>3, <2>4, <2>5, <2>6, <2>7, <2>8, <2>9, <2>10, <2>11,
         <2>12, <2>13, <2>14 DEF Next, Capture, RenderStep
  <1>3. QED
    BY <1>1, <1>2, PTL DEF Spec

-------------------------------------------------------------------------------
(* The inductive invariant.                                                *)

LEMMA BridgeInvInit == Init => BridgeInv
  BY BridgeAssumption DEF Init, BridgeInv, StampBeforePublish,
     StampsFollowCopies, WriteIndexAvoidsReady, TakenSlotNotYetPinned,
     PinnedSlotNotWritten, Writing

LEMMA BridgeInvStep ==
  ASSUME TypeOK, TypeOK', BridgeInv, [Next]_vars
  PROVE  BridgeInv'
  <1> USE DEF TypeOK, BridgeFrame, BridgeInv, StampBeforePublish,
              StampsFollowCopies, WriteIndexAvoidsReady,
              TakenSlotNotYetPinned, PinnedSlotNotWritten, Writing, Produced
  <1>1. CASE LoadInFlight
    BY <1>1 DEF LoadInFlight, renderVars, sharedVars
  <1>2. CASE SelectSlot
    <2>1. /\ writeIndex' \in Slots
          /\ writeIndex' # pinned
          /\ writeIndex' # published
          /\ \A s \in Slots :
               published = NoSlot /\ writeIndex = RingIndex(s + 1)
                 => writeIndex' # s
      BY <1>2, SelectedSlot DEF SelectSlot
    <2>2. /\ cpc = "loaded" /\ cpc' = "copy"
          /\ UNCHANGED <<nextFenceValue, lastCopy, slotFence, published, inFlight,
                         rpc, held, taken, consumed, gapCommit, overtaken>>
      BY <1>2 DEF SelectSlot, renderVars, sharedVars, historyVars
    <2>3. StampBeforePublish' /\ StampsFollowCopies' /\ WriteIndexAvoidsReady'
      BY <2>1, <2>2
    <2>4. ~overtaken => TakenSlotNotYetPinned'
      BY <2>1, <2>2
    <2>5. ~overtaken => PinnedSlotNotWritten'
      BY <2>1, <2>2
    <2>6. QED
      BY <2>2, <2>3, <2>4, <2>5
  <1>3. CASE CopyIntoSlot
    BY <1>3 DEF CopyIntoSlot, renderVars, sharedVars, historyVars
  <1>4. CASE StampFence
    BY <1>4 DEF StampFence, renderVars, historyVars
  <1>5. CASE ExchangePublished
    <2>1. writeIndex \in Slots /\ nextFenceValue >= 2
      BY <1>5 DEF ExchangePublished
    <2>2. /\ cpc = "exchange" /\ cpc' = "signal"
          /\ published' = writeIndex
          /\ writeIndex' = RingIndex(writeIndex + 1)
          /\ rpc = "pin" => gapCommit'
          /\ UNCHANGED <<nextFenceValue, lastCopy, slotFence, inFlight, rpc,
                         held, taken, consumed, overtaken>>
      BY <1>5 DEF ExchangePublished, renderVars
    <2>3. StampBeforePublish' /\ StampsFollowCopies' /\ WriteIndexAvoidsReady'
      BY <2>1, <2>2
    <2>4. ~overtaken => TakenSlotNotYetPinned'
      BY <2>1, <2>2
    <2>5. ~overtaken => PinnedSlotNotWritten'
      BY <2>1, <2>2
    <2>6. QED
      BY <2>2, <2>3, <2>4, <2>5
  <1>6. CASE SignalReady
    BY <1>6 DEF SignalReady, renderVars, historyVars
  <1>7. CASE TakePublished
    BY <1>7 DEF TakePublished, captureVars
  <1>8. CASE Pin
    BY <1>8 DEF Pin, captureVars, historyVars
  <1>9. CASE ReadFence
    BY <1>9 DEF ReadFence, captureVars, sharedVars, historyVars
  <1>10. CASE Submit
    BY <1>10 DEF Submit, captureVars, sharedVars, historyVars
  <1>11. CASE \E frame \in gpuReads : RetireRead(frame)
    BY <1>11 DEF RetireRead, captureVars, sharedVars, historyVars
  <1>12. CASE EventWakes
    BY <1>12 DEF EventWakes, captureVars, historyVars
  <1>13. CASE \/ CheckPublished \/ WaitTimesOut \/ AcquireNothing
              \/ SkipPaused \/ PresentRetired \/ PresentGivesUp
    <2>1. /\ UNCHANGED <<published, inFlight, slotFence, writeIndex, nextFenceValue,
                         lastCopy, cpc, pinned, held, taken, consumed, gapCommit,
                         overtaken>>
          /\ rpc' \in {"acquire", "blocked", "loop"}
          /\ rpc \notin {"pin", "read"}
      BY <1>13 DEF CheckPublished, WaitTimesOut, AcquireNothing, SkipPaused,
                   PresentRetired, PresentGivesUp, captureVars, sharedVars,
                   historyVars
    <2>2. rpc' \notin {"pin", "read"}
      BY <2>1
    <2>3. QED
      BY <2>1, <2>2
  <1>14. CASE UNCHANGED vars
    BY <1>14 DEF vars, captureVars, renderVars, sharedVars, historyVars
  <1>15. QED
    BY <1>1, <1>2, <1>3, <1>4, <1>5, <1>6, <1>7, <1>8, <1>9, <1>10, <1>11,
       <1>12, <1>13, <1>14 DEF Next, Capture, RenderStep

THEOREM BridgeInvariant == Spec => []BridgeInv
  <1>1. Init => BridgeInv
    BY BridgeInvInit
  <1>2. TypeOK /\ TypeOK' /\ BridgeInv /\ [Next]_vars => BridgeInv'
    BY BridgeInvStep
  <1>3. QED
    BY <1>1, <1>2, TypeCorrect, PTL DEF Spec

-------------------------------------------------------------------------------
(* What follows from it.                                                   *)

\* The frame that is ready to be taken is the newest, and nothing writes it.
THEOREM ReadyFrame == Spec => []ReadyFrameIsNewestAndWhole
  <1>1. TypeOK /\ BridgeInv => ReadyFrameIsNewestAndWhole
    BY DEF TypeOK, BridgeInv, StampsFollowCopies, WriteIndexAvoidsReady,
           Writing, ReadyFrameIsNewestAndWhole
  <1>2. QED
    BY <1>1, TypeCorrect, BridgeInvariant, PTL

\* A held frame is intact unless the pin was lapped.
THEOREM HeldFrame == Spec => []HeldFrameIntact
  <1>1. TypeOK /\ BridgeInv => HeldFrameIntact
    BY DEF TypeOK, BridgeFrame, BridgeInv, StampsFollowCopies,
           PinnedSlotNotWritten, Writing, Holding, HeldFrameIntact
  <1>2. QED
    BY <1>1, TypeCorrect, BridgeInvariant, PTL

\* The wake-up of a published frame is never lost.
THEOREM WakeUp == Spec => []WakeUpNotLost
  <1>1. Init => WakeUpNotLost
    BY DEF Init, WakeUpNotLost
  <1>2. TypeOK /\ WakeUpNotLost /\ [Next]_vars => WakeUpNotLost'
    <2> SUFFICES ASSUME TypeOK, WakeUpNotLost, [Next]_vars
                 PROVE  WakeUpNotLost'
      OBVIOUS
    <2> USE DEF WakeUpNotLost
    <2>1. CASE LoadInFlight
      BY <2>1 DEF LoadInFlight, renderVars, sharedVars
    <2>2. CASE Capture
      BY <2>2 DEF Capture, SelectSlot, CopyIntoSlot, StampFence,
                  ExchangePublished, SignalReady, renderVars, sharedVars
    <2>3. CASE RenderStep
      BY <2>3 DEF RenderStep, CheckPublished, EventWakes, AcquireNothing,
                  TakePublished, Pin, ReadFence, SkipPaused, Submit,
                  PresentRetired, captureVars, sharedVars
    <2>4. CASE WaitTimesOut \/ PresentGivesUp
      BY <2>4 DEF WaitTimesOut, PresentGivesUp, captureVars, sharedVars
    <2>5. CASE \E frame \in gpuReads : RetireRead(frame)
      BY <2>5 DEF RetireRead, captureVars, sharedVars
    <2>6. CASE UNCHANGED vars
      BY <2>6 DEF vars, captureVars, renderVars, sharedVars
    <2>7. QED
      BY <2>1, <2>2, <2>3, <2>4, <2>5, <2>6 DEF Next
  <1>3. QED
    BY <1>1, <1>2, TypeCorrect, PTL DEF Spec

\* Every step of the ring is a step of the mailbox or leaves it alone.
THEOREM Refinement == Spec => Mailbox!Spec
  <1>1. Init => Mailbox!Init
    BY DEF Init, Mailbox!Init, Produced, NoSlot
  <1>2. TypeOK /\ TypeOK' /\ BridgeInv /\ [Next]_vars
          => [Mailbox!Next]_(Mailbox!vars)
    <2> SUFFICES ASSUME TypeOK, TypeOK', BridgeInv, [Next]_vars
                 PROVE  [Mailbox!Next]_(Mailbox!vars)
      OBVIOUS
    <2> USE DEF TypeOK, Produced, Mailbox!vars
    <2>1. CASE ExchangePublished
      <3>1. /\ cpc = "exchange" /\ cpc' = "signal"
            /\ published' = writeIndex /\ published' # NoSlot
            /\ drops' = IF published = NoSlot THEN drops ELSE drops + 1
            /\ UNCHANGED <<nextFenceValue, slotFence, taken, consumed>>
        BY <2>1 DEF ExchangePublished, renderVars, Slots, NoSlot
      <3>2. Produced' = Produced + 1 /\ slotFence'[published'] = Produced + 1
        BY <3>1 DEF BridgeInv, StampBeforePublish
      <3>3. published # NoSlot => slotFence[published] # 0
        BY DEF BridgeInv, WriteIndexAvoidsReady
      <3>4. Mailbox!Produce
        BY <3>1, <3>2, <3>3 DEF Mailbox!Produce
      <3>5. QED
        BY <3>4 DEF Mailbox!Next
    <2>2. CASE TakePublished
      BY <2>2 DEF TakePublished, captureVars, Mailbox!Next, Mailbox!Consume,
                  BridgeInv, WriteIndexAvoidsReady
    <2>3. CASE StampFence
      BY <2>3 DEF StampFence, renderVars, BridgeInv, WriteIndexAvoidsReady,
                  Writing
    <2>4. CASE LoadInFlight
      BY <2>4 DEF LoadInFlight, renderVars, sharedVars
    <2>5. CASE SelectSlot \/ CopyIntoSlot \/ SignalReady
      BY <2>5 DEF SelectSlot, CopyIntoSlot, SignalReady, renderVars, sharedVars
    <2>6. CASE \/ CheckPublished \/ EventWakes \/ AcquireNothing \/ Pin
               \/ ReadFence \/ SkipPaused \/ Submit \/ PresentRetired
               \/ WaitTimesOut \/ PresentGivesUp
      BY <2>6 DEF CheckPublished, EventWakes, AcquireNothing, Pin, ReadFence,
                  SkipPaused, Submit, PresentRetired, WaitTimesOut,
                  PresentGivesUp, captureVars, sharedVars
    <2>7. CASE \E frame \in gpuReads : RetireRead(frame)
      BY <2>7 DEF RetireRead, captureVars, sharedVars
    <2>8. CASE UNCHANGED vars
      BY <2>8 DEF vars, captureVars, renderVars, sharedVars
    <2>9. QED
      BY <2>1, <2>2, <2>3, <2>4, <2>5, <2>6, <2>7, <2>8
         DEF Next, Capture, RenderStep
  <1>3. QED
    BY <1>1, <1>2, TypeCorrect, BridgeInvariant, PTL DEF Spec, Mailbox!Spec
===============================================================================
