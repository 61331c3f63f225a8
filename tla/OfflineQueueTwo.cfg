SPECIFICATION QueueSpec
CONSTANTS
  N = 2
  MaxDirect = 2
  MaxOutages = 1
  MaxReloads = 0
CHECK_DEADLOCK FALSE
INVARIANT NoCommandLost
