CONSTANTS
  Users = {1, 2}
  DMESG_BUF_SIZE = 3
SPECIFICATION Spec
CHECK_DEADLOCK FALSE
INVARIANTS
  DumpIsRecent
 
