------------------------------ MODULE LatestWins ------------------------------
(***************************************************************************)
(* What the bridge between the capture thread and the render thread        *)
(* promises, with no ring, no slots and no threads: a mailbox of one       *)
(* frame.  Frames are numbered in the order they are produced.  Producing  *)
(* over a frame nobody took drops that frame; taking one empties the       *)
(* mailbox.  DeviceBridge implements this specification.                   *)
(***************************************************************************)
EXTENDS Naturals

VARIABLES
  produced,   \* how many frames have been put in the mailbox
  pending,    \* the number of the frame in the mailbox, 0 when it is empty
  taken,      \* the number of the last frame taken, 0 before the first
  consumed,   \* how many frames have been taken
  drops       \* how many frames were overwritten before anybody took them

vars == <<produced, pending, taken, consumed, drops>>

Init ==
  /\ produced = 0
  /\ pending = 0
  /\ taken = 0
  /\ consumed = 0
  /\ drops = 0

Produce ==
  /\ produced' = produced + 1
  /\ pending' = produced + 1
  /\ drops' = IF pending = 0 THEN drops ELSE drops + 1
  /\ UNCHANGED <<taken, consumed>>

Consume ==
  /\ pending # 0
  /\ pending' = 0
  /\ taken' = pending
  /\ consumed' = consumed + 1
  /\ UNCHANGED <<produced, drops>>

Next == Produce \/ Consume

Spec == Init /\ [][Next]_vars

\* A frame left in the mailbox is taken, or a newer one in its place is.
FairSpec == Spec /\ WF_vars(Consume)
===============================================================================
