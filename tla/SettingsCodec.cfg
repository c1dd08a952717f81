CONSTANTS
  NaN = NaN
  Wrong = Wrong
  None = None
  Unreadable = Unreadable
  Strings <- MCStrings
  Quoting <- MCQuoting
  Control <- MCControl
  IntModulus = 65536
  Numbers <- MCNumbers
  Integrals <- MCIntegrals
  Touched <- MCTouched
  Additions <- MCAdditions
  MaxPassCount = 5
  MaxEdits = 2
  MaxPresets = 1

SPECIFICATION CodecSpec
INVARIANTS
  ReadIsLegal
  WrittenReadsBack
  LookKeepsItsName
CHECK_DEADLOCK FALSE
