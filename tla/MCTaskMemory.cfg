CONSTANTS
  Slots = {1, 2}
  MAX_FRAMES = 14
  Kernel = {0, 1}
  KernelPTs = {1}
  NT = 2
  MAX_USER_FRAMES = 3
  Pages = {1, 3}
  Spawners = {"spawn_userspace_task", "create_process"}
  Interrupts = {TRUE, FALSE}
  Execs = TRUE
SPECIFICATION Spec
CHECK_DEADLOCK FALSE
CONSTRAINT NotUpset
INVARIANTS
  
  KernelKept
  
PROPERTY LeaksOnlyUnrecorded
