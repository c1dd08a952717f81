SPECIFICATION Spec
CONSTANTS
  MaxFrames = 4
  MaxRebuilds = 1
  MaxPasses = 2
INVARIANTS
  PresentedIsThisFrame
  InterfaceUntouched
PROPERTIES
  BarriersMatch
  MotionMatchesHistory
  FlowInputsSettled
CHECK_DEADLOCK FALSE
