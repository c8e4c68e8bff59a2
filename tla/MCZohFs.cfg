SPECIFICATION Spec
CONSTANTS
  MAX_INODES = 4
  DIRECT_BLOCKS = 2
  DIR_SECTOR = 2
  TOTAL_BLOCKS = 4
  SYSTEM_BLOCKS = 2
  SECTORS = 8
  CACHE_SIZE = 3
  Names = {a, b}
  MAX_FAULTS = 1
SYMMETRY NameSymmetry
CONSTRAINT Sound
INVARIANTS CacheCoherent VolumeStructure FilesStay 
CHECK_DEADLOCK FALSE
