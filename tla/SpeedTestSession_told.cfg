SPECIFICATION Spec
CONSTANTS
  Cap = 10
  MaxTicks = 1
INVARIANT ToldIsStored
CHECK_DEADLOCK FALSE
