CONSTANTS
  TOTAL = 7
  ROOT = 2
  SLOTS = 2
  Names = {"a", "b"}
  Lengths = {1, 2}
  BYTE = 256
  FailureSteps <- SafeSteps
SPECIFICATION Spec
INVARIANTS
  NoCrossLink
  ChainsAllocated
PROPERTIES
  
  CommandsEnd
