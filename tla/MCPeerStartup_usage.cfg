SPECIFICATION FairSpec
CONSTANTS
  Inherited <- Terminal
  MaxFd = 5
  Runs = 2
  Faults = FALSE
PROPERTY BindsBoth
CHECK_DEADLOCK FALSE
