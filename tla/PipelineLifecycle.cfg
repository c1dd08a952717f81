CONSTANTS
  kAttempts <- Attempts
  MaxEvents <- EventBound
SPECIFICATION FairSpec
CHECK_DEADLOCK FALSE
INVARIANTS
  DeviceOutlivesRenderThread
  ConfigureModeReported
  RejectedPassStaysOff
  ShownIsWantedAndFed
PROPERTIES
  RequestLoweredUnthreaded
  NoProcessWithoutLoop
  ProcessEnds
