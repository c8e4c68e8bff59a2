CONSTANTS
  TOTAL = 7
  ROOT = 2
  SLOTS = 2
  Names = {"a", "b"}
  Lengths = {1, 2}
  BYTE = 4
  FailureSteps = {}
SPECIFICATION Spec
INVARIANT NoCrossLink
