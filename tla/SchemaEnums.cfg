SPECIFICATION Spec
CONSTANTS
  Release = {0}
INVARIANT EnumsServe
CHECK_DEADLOCK FALSE
