CONSTANTS
  N <- MCN4
  Expected <- MCExpected
  Foundation <- MCFoundation
SPECIFICATION Spec
INVARIANT ReturnCodeMatchesCycles CycleSystemsListedCyclic
CHECK_DEADLOCK FALSE
