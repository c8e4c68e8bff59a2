CONSTANTS
  CpuCount = 4
  NoStack = {3}
  NUM_CORES = 2
  ITERATIONS = 2
SPECIFICATION Spec
CHECK_DEADLOCK FALSE
INVARIANT NoLostIncrement
 
