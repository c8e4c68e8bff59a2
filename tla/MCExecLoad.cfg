CONSTANTS
  Names = {"a", "long", ".."}
  LongNames = {"long"}
  Cut = "cut"
  MaxNodes = 4
  MaxPath = 2
  Lengths = {1}
  Tasks = {1, 2}
  MAX_FDS = 2
  W = 4
  HEAP = 1
  Seeks = {3}
  WORD = 64
  VPAGE = 2
  EHDR = 2
  PHDR = 2
  MAX_SEGMENTS = 2
  AS_PTR = 40
  STACK_VA = 8
  ADDRS = 8
  PAGE = 2
  PT_PAGES = 2
  MAX_USER_COPY = 5
  CSTR_BUF = 4
  MAX_WRITE_LEN = 4
  TABLE_LEN = 16
  MAX_TASKS = 2
  INFO_LEN = 2
  MAX_EXEC = 18
  HEAP_LEN = 16
  Files <- MCFiles
  Volumes <- MCVolumes
SPECIFICATION MCSpec
CONSTRAINT SmallWhileOpen
CHECK_DEADLOCK FALSE
INVARIANT ExecLoadsProgram
