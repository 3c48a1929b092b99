SPECIFICATION FairSpec
CONSTANTS
  Arguments <- Address
  Faults = FALSE
PROPERTY Accepts
CHECK_DEADLOCK FALSE
