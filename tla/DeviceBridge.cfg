\* The ring under every interleaving of the two threads and the GPU, and the
\* mailbox it implements, liveness included.
SPECIFICATION FairSpec
CONSTANTS
  kRingDepth <- Depth
  MaxFrames <- FrameBound
INVARIANTS
  ReadyFrameIsNewestAndWhole
  HeldFrameIntact
  WakeUpNotLost
PROPERTY ImplementsLatestWins
