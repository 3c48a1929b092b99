SPECIFICATION Spec
CONSTANTS
  Inherited <- AllInherited
  MaxFd = 5
  Runs = 3
  Faults = TRUE
INVARIANTS TypeOK NeverServes
CHECK_DEADLOCK FALSE
