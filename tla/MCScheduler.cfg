CONSTANTS
  MAX_TASKS = 3
  SWITCH_TICKS = 3
  MS_PER_TICK = 10
  SleepMs = {0, 21}
  Roots = {1, 2, 3}
  KernelRoot = 100
SPECIFICATION Spec
INVARIANTS
  ContextLoaded
  BoundedWait
PROPERTIES
  
  ReadyRuns
  CallsReturn
