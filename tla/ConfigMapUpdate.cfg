SPECIFICATION FairSpec
CONSTANTS
  Targets = {a, b}
  MaxVersion = 2
PROPERTY ReplacementReaches
CHECK_DEADLOCK FALSE
