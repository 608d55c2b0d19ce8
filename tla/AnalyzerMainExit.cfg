CONSTANTS
  N <- MCN4
  Expected <- MCExpected
  Foundation <- MCFoundation
SPECIFICATION Spec
INVARIANT FindingsSetExitCode
CHECK_DEADLOCK FALSE
