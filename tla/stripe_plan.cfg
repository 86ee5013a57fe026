SPECIFICATION Spec
CONSTANTS
  Alignments = {60, 63, 67}
INVARIANTS DrawnOnce FlagsMatch
CHECK_DEADLOCK FALSE
