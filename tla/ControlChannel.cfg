CONSTANTS
  r1 = r1
  r2 = r2
  w1 = w1
  w2 = w2
  Runtimes <- RuntimeSet
  Words <- WordSet
  kAttempts <- Attempts
  MaxPublishes <- PublishBound
  MaxLaunches <- LaunchBound
SPECIFICATION Spec
SYMMETRY Symmetry
CHECK_DEADLOCK FALSE
INVARIANTS
  StatusIsWhole
  OneRuntimeUnlessRaced
