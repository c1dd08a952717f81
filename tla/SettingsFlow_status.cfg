CONSTANTS
  None = None
  Customs <- CustomNames
  Apps <- AppClasses
  MaxActs <- ActBound
  MaxRefusals <- RefusalBound
SPECIFICATION Spec
CHECK_DEADLOCK FALSE
INVARIANT StatusNamesSettings
