CONSTANTS
  kAttempts <- Attempts
  Equipments <- Machines
  MaxDevices <- DeviceBound
  MaxExecutes <- ExecuteBound
SPECIFICATION FairSpec
CHECK_DEADLOCK FALSE
INVARIANTS
  CallbacksFindTheirObjects
  TexturesOutliveTheirReaders
  DirectPassIsBacked
  BoardIsRight
  OverlayLiesOverWindow
PROPERTIES
  TeardownEnds
