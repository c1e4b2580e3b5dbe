SPECIFICATION Spec
CONSTANTS
  MaxSpawns = 1
INVARIANT HandleIsConfined
CHECK_DEADLOCK FALSE
