CONSTANTS
  FRAME_SIZE = 2
  BITS = 2
  MAX_WORDS = 6
  DEFAULT_RAM = 12
  LOW_END = 2
  KERNEL_END = 3
  Maps <- OrderlyMaps
  MAX_TABLES = 2
SPECIFICATION Spec
INVARIANTS
  FramesOwnedOnce
  
PROPERTIES
  NoneOnlyWhenFull
